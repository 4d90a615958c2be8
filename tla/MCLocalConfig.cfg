SPECIFICATION Spec
CONSTANTS
  Terminals = {t1}
  Params <- OneParams
  Prefs <- OnePrefs
  Typed <- OneTyped
  Values = {v1, v2}
  Bad = bad
  EnvNames = {e1}
  Names = {n1, n2}
  Places = {p1, p2}
  None = none
  Current = v1
  MaxCommands = 4
  MaxFaults = 1
PROPERTY CommandsAreAtomic
CHECK_DEADLOCK FALSE
