SPECIFICATION Spec
CONSTANTS
    u1 = u1
    u2 = u2
    u3 = u3
    front = front
    api = api
    db = db
    mq = mq
    front8080 = front8080
    Clients <- MCOneClient
    Components <- MCOneComponent
    Services <- MCTwoServices
    ComponentSecrets <- MCNoComponentSecret
    MaxCommands = 4
    MaxFaults = 0
INVARIANT
    LinkedIsListed
CHECK_DEADLOCK FALSE
