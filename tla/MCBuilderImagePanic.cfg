CONSTANTS
  Tags = {latest, t}
  Latest = latest
  Typed <- MCTyped
  MaxChanges = 1
  MaxFaults = 0
  MaxCommands = 2
SPECIFICATION Spec
INVARIANT ErrorsOut
CHECK_DEADLOCK FALSE
