\* What the documentation says of projects and the code does not do: TLC refutes
\* each of these alone; the ones that are not checked are commented out.
CONSTANTS
  Terminals = {t1, t2}
  Projects = {p1, p2}
  Apps = {app}
  None = None
  Jobs = {"create", "list", "push", "app delete"}
  MaxCommands = 2
  MaxFaults = 0
SPECIFICATION Spec
INVARIANT ReadyWhenSaid
\* INVARIANT DeletedAppIsGone
\* PROPERTY FlagIsAProject
\* PROPERTY ShownWhereTheyAre
CHECK_DEADLOCK FALSE
