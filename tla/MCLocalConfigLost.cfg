SPECIFICATION Spec
CONSTANTS
  Terminals = {t1, t2}
  Params <- TwoParams
  Prefs = {}
  Typed = {}
  Values = {v1}
  Bad = bad
  EnvNames = {e1, e2}
  Names = {n1}
  Places = {p1}
  None = none
  Current = v1
  MaxCommands = 3
  MaxFaults = 0
PROPERTY OldVarsKept
CHECK_DEADLOCK FALSE
