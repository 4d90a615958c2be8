CONSTANTS
  Terminals = {t1}
  Projects = {p1, p2}
  Apps = {app}
  None = None
  Jobs = {"delete"}
  MaxCommands = 1
  MaxFaults = 0
SPECIFICATION PatientSpec
PROPERTY DeleteReturns
CHECK_DEADLOCK FALSE
