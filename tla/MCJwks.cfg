SPECIFICATION Spec
CONSTANTS
    Keys = {k1, k2}
    Requests = {r1, r2, r3}
    Ttl = 2
    Delay = 1
    MaxTime = 4
SYMMETRY Symmetry
INVARIANT TypeOK
INVARIANT WithdrawnRefused
INVARIANT PublishedKnown
CHECK_DEADLOCK FALSE
