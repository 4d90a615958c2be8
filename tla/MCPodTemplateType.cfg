SPECIFICATION TemplateSpec
CONSTANTS
  Types = {t1, t2}
  Locations = {l1}
  Storages = {}
  Ports = {p1}
  Quantities = {q1}
  UserVars = {"s2i", "backup"}
  Secrets = {k1}
  None = None
INVARIANT AsIfCreated
CHECK_DEADLOCK FALSE
