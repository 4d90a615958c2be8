SPECIFICATION Spec
CONSTANTS
  Terminals = {t1}
  Params <- ListParams
  Prefs = {}
  Typed = {}
  Values = {v1}
  Bad = bad
  EnvNames = {e1}
  Names = {n1}
  Places = {p1}
  None = none
  Current = v1
  MaxCommands = 2
  MaxFaults = 0
INVARIANT StoragesHaveNames
CHECK_DEADLOCK FALSE
