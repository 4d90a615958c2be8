\* What the documentation says of a push and the code does not do: TLC refutes
\* each of these alone; the ones that are not checked are commented out.
SPECIFICATION Spec
CONSTANTS
    s1 = s1
    s2 = s2
    s3 = s3
    u1 = u1
    u2 = u2
    small = small
    big = big
    alias = alias
    p1 = p1
    p2 = p2
    e1 = e1
    dev = dev
    k1 = k1
    None = None
    Canonical <- MCCanonical
    Sources = {"local", "git"}
    Storages = {s1, s2}
    Sizes = {small}
    Urls = {u1}
    Ports = {p1, p2}
    Envs = {e1}
    Refs = {dev}
    Secrets = {k1}
    MaxFaults = 1
INVARIANT EnvIsPushed
\* INVARIANT DeletableWhenItExists
\* INVARIANT CreatableWhenItDoesNot
\* INVARIANT PushedIsReachable
\* INVARIANT UrlPortIsPushed
\* INVARIANT RefIsBuilt
\* PROPERTY LinksSurviveGitPush
