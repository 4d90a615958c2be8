SPECIFICATION Spec
CONSTANTS
    s1 = s1
    s2 = s2
    s3 = s3
    u1 = u1
    u2 = u2
    small = small
    big = big
    alias = alias
    p1 = p1
    p2 = p2
    e1 = e1
    dev = dev
    k1 = k1
    None = None
    Canonical <- MCCanonical
    Sources = {"local", "git"}
    Storages = {s1, s2}
    Sizes = {small, big, alias}
    Urls = {u1}
    Ports = {p1}
    Envs = {}
    Refs = {}
    Secrets = {k1}
    MaxFaults = 1
SYMMETRY Symmetry
INVARIANT CleanMeansExact
INVARIANT PushedMatchesConfig
PROPERTY LinksSurviveLocalPush
PROPERTY StorageKept
PROPERTY CommandsReconcile
