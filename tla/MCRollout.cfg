SPECIFICATION Spec
CONSTANTS
  Clients = {c1, c2}
  Sources = {"local", "git"}
  Patient = TRUE
  MaxImages = 1
  MaxFaults = 1
INVARIANT RolledOutHasChange
INVARIANT FailedBuildIsNotDeployed
INVARIANT TimeoutMeansLostWatch
PROPERTY PushesEnd
CHECK_DEADLOCK FALSE
