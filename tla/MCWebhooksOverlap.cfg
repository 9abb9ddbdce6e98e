\* Two overlapping runs and one row: what a late update overwrites.
CONSTANTS
    Endpoints = {e1}
    Connections = {c1}
    Emitters = {m1}
    Runs = {r1, r2}
    Subscribes <- MCConnected
    MaxAttempts = 2
    Limit = 1
    MaxDeliveries = 1
    MaxFaults = 0
    None = None
SPECIFICATION FairSpec
PROPERTIES AcceptedStaysDelivered
CHECK_DEADLOCK FALSE
