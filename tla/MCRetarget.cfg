\* Four mints, a band of 1..2 mints per window of 2, levels 1..3.
SPECIFICATION FairSpec
CONSTANTS
    Mints = {m1, m2, m3, m4}
    Window = 2
    Low = 1
    High = 2
    DiffMin = 1
    DiffMax = 3
    MaxStep = 1
    Initial = 2
    LastMint = 2
    MaxTime = 5
INVARIANT TypeOK
INVARIANT NothingLiveEvicted
PROPERTY GentleMoves
PROPERTY CoolsDown
CHECK_DEADLOCK FALSE
