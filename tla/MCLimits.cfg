\* Two instances that share Redis, one request at a time on each, one key.
CONSTANTS
    i1 = i1
    i2 = i2
    r1 = r1
    r2 = r2
    k1 = k1
    client = client
    Redis = Redis
    Instances = {i1, i2}
    UseRedis = TRUE
    Requests = {r1, r2}
    Home <- MCHome
    Keys = {k1}
    Client = client
    Limit <- MCLimit
    Window = 2
    Mint = 2
    Cost = 3
    Burst = 1
    MaxTries = 2
    Skew <- MCSkew
    MaxSkew = 1
    MaxDelay = 1
    MaxTime = 4
    MaxRequests = 3
    MaxFaults = 1
SPECIFICATION Spec
INVARIANTS TypeOK BudgetKept ResetIsKept ProviderRateKept NeverSpins
\* Time and requests are bounded.
CHECK_DEADLOCK FALSE
