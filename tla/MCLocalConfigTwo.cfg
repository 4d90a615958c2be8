SPECIFICATION Spec
CONSTANTS
  Terminals = {t1, t2}
  Params <- TwoParams
  Prefs = {}
  Typed <- TwoParams
  Values = {v1}
  Bad = bad
  EnvNames = {e1}
  Names = {n1, n2}
  Places = {p1, p2}
  None = none
  Current = v1
  MaxCommands = 4
  MaxFaults = 1
SYMMETRY Symmetry
INVARIANT EntriesUnique
INVARIANT EmptyOnlyWhileWritten
CHECK_DEADLOCK FALSE
