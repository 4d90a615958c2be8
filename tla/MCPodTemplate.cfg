SPECIFICATION TemplateSpec
CONSTANTS
  Types = {t1}
  Locations = {l1, l2}
  Storages = {a, b}
  Ports = {p1}
  Quantities = {q1}
  UserVars = {"s2i", "backup"}
  Secrets = {k1}
  None = None
SYMMETRY Symmetry
INVARIANT AsIfCreated
INVARIANT TemplateIsValid
INVARIANT OneValueEach
CHECK_DEADLOCK FALSE
