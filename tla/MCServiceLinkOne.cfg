SPECIFICATION Spec
CONSTANTS
    u1 = u1
    u2 = u2
    u3 = u3
    front = front
    api = api
    db = db
    mq = mq
    front8080 = front8080
    Clients <- MCOneClient
    Components <- MCTwoComponents
    Services <- MCTwoServices
    ComponentSecrets <- MCComponentSecret
    MaxCommands = 7
    MaxFaults = 1
INVARIANTS
    NoDoubleLink
    LinksResolve
CHECK_DEADLOCK FALSE
