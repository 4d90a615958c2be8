SPECIFICATION FairSpec
CONSTANTS
    u1 = u1
    u2 = u2
    u3 = u3
    front = front
    api = api
    db = db
    mq = mq
    front8080 = front8080
    Clients <- MCTwoClients
    Components <- MCTwoComponents
    Services <- MCOneService
    ComponentSecrets <- MCComponentSecret
    MaxCommands = 4
    MaxFaults = 1
INVARIANT TypeOK
INVARIANT BindingHasInstance
INVARIANT OwnerInv
INVARIANT NoDoubleLink
INVARIANT LinksResolve
PROPERTY CommandsEnd
CHECK_DEADLOCK FALSE
