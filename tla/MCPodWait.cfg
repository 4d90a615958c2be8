SPECIFICATION Spec
CONSTANTS
  Commands = {"push", "link"}
  Modes = {"plain", "spin"}
  Patient = FALSE
  MaxEvents = 3
  MaxFaults = 2
INVARIANT AnswerIsNewPod
INVARIANT MarkMatches
PROPERTY RoutinesEnd
PROPERTY WaitReturns
CHECK_DEADLOCK FALSE
