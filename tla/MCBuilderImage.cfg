CONSTANTS
  Tags = {latest, t}
  Latest = latest
  Typed <- MCTyped
  MaxChanges = 1
  MaxFaults = 1
  MaxCommands = 2
SPECIFICATION Spec
INVARIANT AcceptedIsUsable
INVARIANT ImageAsAsked
INVARIANT OneFailureTolerated
INVARIANT OfferedIsNotHidden
CHECK_DEADLOCK FALSE
