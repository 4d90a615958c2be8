\* What the documentation says of a rollout and the code does not do: TLC refutes
\* each of these alone; the ones that are not checked are commented out.
SPECIFICATION Spec
CONSTANTS
  Clients = {c1}
  Sources = {"local", "git"}
  Patient = FALSE
  MaxImages = 1
  MaxFaults = 2
INVARIANT BuildIsAwaited
\* INVARIANT OkMeansAvailable
\* INVARIANT ErrorsAreReturned
\* INVARIANT NoVainWait
CHECK_DEADLOCK FALSE
