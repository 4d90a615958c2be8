SPECIFICATION Spec
CONSTANTS
    u1 = u1
    u2 = u2
    u3 = u3
    front = front
    api = api
    db = db
    mq = mq
    front8080 = front8080
    Clients <- MCOneClient
    Components <- MCOneComponent
    Services <- MCOneService
    ComponentSecrets <- MCNoComponentSecret
    MaxCommands = 3
    MaxFaults = 1
INVARIANT
    DeletableWhenListed
CHECK_DEADLOCK FALSE
