\* A check of one key while the bucket of the other holds outdated times only.
SPECIFICATION FairSpec
CONSTANTS
    Requests = {r1, r2}
    Keys = {k1, k2}
    Window = 1
    MaxRequests = 2
    Delay = 0
    MaxTime = 3
PROPERTY BucketsReclaimed
CHECK_DEADLOCK FALSE
