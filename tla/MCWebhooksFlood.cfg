\* One endpoint, one connection that expires, two emitters.
CONSTANTS
    Endpoints = {e1}
    Connections = {c1}
    Emitters = {m1, m2}
    Runs = {}
    Subscribes <- MCLifecycle
    MaxAttempts = 1
    Limit = 1
    MaxDeliveries = 2
    MaxFaults = 0
    None = None
SPECIFICATION Spec
INVARIANTS OneExpiryPerHour
CHECK_DEADLOCK FALSE
