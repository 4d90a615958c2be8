CONSTANTS
  Terminals = {t1, t2}
  Projects = {p1, p2}
  Apps = {app}
  None = None
  Jobs = {"create", "set", "delete", "list", "push", "app delete"}
  MaxCommands = 2
  MaxFaults = 1
SPECIFICATION FairSpec
INVARIANT DeletedMeansGone
INVARIANT SweptClean
PROPERTY WorksWhereTold
PROPERTY DeleteReturns
CHECK_DEADLOCK FALSE
