\* Two instances, one of them with two callers; no reconnect; one fault; fairness.
CONSTANTS
    i1 = i1
    i2 = i2
    a1 = a1
    a2 = a2
    b1 = b1
    NoOne = NoOne
    NoToken = NoToken
    Instances = {i1, i2}
    Callers = {a1, a2, b1}
    Home <- MCHome
    Reconnects = {}
    FirstGrant = g0
    MaxSerial = 1
    MaxFaults = 1
SPECIFICATION FairSpec
INVARIANTS TypeOK SpentOnce HealthyNeverRefused RenewsStoredToken NoCallerAhead
PROPERTIES RenewalSettles
\* A deleted connection is the end of its story.
CHECK_DEADLOCK FALSE
