SPECIFICATION Spec
CONSTANTS
  Commands = {"push"}
  Modes = {"debug"}
  Patient = FALSE
  MaxEvents = 3
  MaxFaults = 2
PROPERTY WaitReturns
CHECK_DEADLOCK FALSE
