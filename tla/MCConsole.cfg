\* Two accounts, three keys, two links, at most six actions, two at a time; one is cut short.
CONSTANTS
    u1 = u1
    u2 = u2
    k1 = k1
    k2 = k2
    k3 = k3
    a1 = a1
    a2 = a2
    None = None
    Users = {u1, u2}
    Keys = {k1, k2, k3}
    Actions = {a1, a2}
    MaxLinks = 2
    MaxBegun = 6
    MaxFaults = 1
SPECIFICATION Spec
SYMMETRY Symmetry
INVARIANTS TypeOK OwnerLossTakesOverlap SecondFirstTakesOverlap LinkSetsOnePassword MoreLinksTakeOverlap OperatorResetStands OneKeyLives
\* Actions and links are bounded.
CHECK_DEADLOCK FALSE
