\* Two endpoints, one connection, two emitters.
CONSTANTS
    Endpoints = {e1, e2}
    Connections = {c1}
    Emitters = {m1, m2}
    Runs = {}
    Subscribes <- MCLifecycle
    MaxAttempts = 1
    Limit = 1
    MaxDeliveries = 4
    MaxFaults = 0
    None = None
SPECIFICATION Spec
INVARIANTS
    OneExpiryPerEmitter
    SubscribersHearAlike
    RemovalWasAnnounced
SYMMETRY MCSymmetry
CHECK_DEADLOCK FALSE
