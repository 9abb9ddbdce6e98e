\* Two instances with one caller each, one reconnect, two faults.
CONSTANTS
    i1 = i1
    i2 = i2
    a1 = a1
    a2 = a2
    b1 = b1
    NoOne = NoOne
    NoToken = NoToken
    Instances = {i1, i2}
    Callers = {a1, b1}
    Home <- MCHomeTwo
    Reconnects = {k1}
    FirstGrant = g0
    MaxSerial = 1
    MaxFaults = 2
SPECIFICATION Spec
INVARIANTS StoreTracksProvider
PROPERTIES GrantChangedByReconnectOnly ImplementsStore
\* A deleted connection is the end of its story.
CHECK_DEADLOCK FALSE
