\* A caller joins a run that was started for an older token of the same
\* connection, and is handed back the token it was refused with.
CONSTANTS
    i1 = i1
    i2 = i2
    a1 = a1
    a2 = a2
    b1 = b1
    NoOne = NoOne
    NoToken = NoToken
    Instances = {i1, i2}
    Callers = {a1, a2, b1}
    Home <- MCHome
    Reconnects = {}
    FirstGrant = g0
    MaxSerial = 1
    MaxFaults = 0
SPECIFICATION Spec
PROPERTIES ReplayIsFresh
CHECK_DEADLOCK FALSE
