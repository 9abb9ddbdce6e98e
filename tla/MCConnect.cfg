\* Two requests at a time, one link, two authorizations, an OAuth service and a
\* service with keys, two accounts, one fault.
CONSTANTS
    r1 = r1
    r2 = r2
    s1 = s1
    x1 = x1
    x2 = x2
    oauth = oauth
    key = key
    None = None
    Requests = {r1, r2}
    Sessions = {s1}
    Flows = {x1, x2}
    OAuthServices = {oauth}
    KeyServices = {key}
    MaxAccounts = 2
    MaxFaults = 1
SPECIFICATION Spec
INVARIANTS
    TypeOK ReplayTakesOverlap DuplicateTakesOverlap SecondCredentialTakesOverlap
    LoserLeavesNothing AnnouncedIsConnected ResultWasConnected
PROPERTIES StoredLinkIsUsed
SYMMETRY RequestSymmetry
\* Every link and every authorization is used up in the end.
CHECK_DEADLOCK FALSE
