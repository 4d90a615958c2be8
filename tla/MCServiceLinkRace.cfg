SPECIFICATION Spec
CONSTANTS
    u1 = u1
    u2 = u2
    u3 = u3
    front = front
    api = api
    db = db
    mq = mq
    front8080 = front8080
    Clients <- MCTwoClients
    Components <- MCOneComponent
    Services <- MCOneService
    ComponentSecrets <- MCComponentSecret
    MaxCommands = 6
    MaxFaults = 0
PROPERTY
    LinkRemovedOnRequest
CHECK_DEADLOCK FALSE
