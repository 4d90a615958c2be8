SPECIFICATION Spec
CONSTANTS
  Terminals = {t1}
  Params <- ProjectParams
  Prefs = {}
  Typed = {}
  Values = {v1, v2}
  Bad = bad
  EnvNames = {e1}
  Names = {n1}
  Places = {p1}
  None = none
  Current = v1
  MaxCommands = 1
  MaxFaults = 0
PROPERTY ProjectAsChosen
CHECK_DEADLOCK FALSE
