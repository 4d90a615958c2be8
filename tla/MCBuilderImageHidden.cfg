CONSTANTS
  Tags = {latest, t}
  Latest = latest
  Typed <- MCTyped
  MaxChanges = 1
  MaxFaults = 0
  MaxCommands = 2
SPECIFICATION Spec
INVARIANT HiddenIsNotOffered
CHECK_DEADLOCK FALSE
