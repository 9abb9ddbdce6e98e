\* One endpoint, one emitter and two overlapping runs over two rows.
CONSTANTS
    Endpoints = {e1}
    Connections = {c1}
    Emitters = {m1}
    Runs = {r1, r2}
    Subscribes <- MCConnected
    MaxAttempts = 2
    Limit = 1
    MaxDeliveries = 2
    MaxFaults = 1
    None = None
SPECIFICATION FairSpec
INVARIANTS
    TypeOK
    GivenUpAfterAllTries
PROPERTIES
    ImplementsOutbox
    EveryDeliverySettles
CHECK_DEADLOCK FALSE
