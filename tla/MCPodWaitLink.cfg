SPECIFICATION Spec
CONSTANTS
  Commands = {"link"}
  Modes = {"plain"}
  Patient = TRUE
  MaxEvents = 3
  MaxFaults = 2
INVARIANT LinkSeesRollout
CHECK_DEADLOCK FALSE
