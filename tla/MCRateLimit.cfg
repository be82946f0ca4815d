\* Four requests of two keys, two per window of 2, a wait of at most 1.
SPECIFICATION Spec
CONSTANTS
    Requests = {r1, r2, r3, r4}
    Keys = {k1, k2}
    Window = 2
    MaxRequests = 2
    Delay = 1
    MaxTime = 6
SYMMETRY Symmetry
INVARIANT TypeOK
INVARIANT AdmissionBound
INVARIANT LimitDeserved
CHECK_DEADLOCK FALSE
