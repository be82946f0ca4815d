\* What a 409 says, without faults.
SPECIFICATION Spec
CONSTANTS
    Users = {u1}
    Challenges = {c1}
    Answers = {a1, a2}
    Requests = {r1}
    Rewards = {1}
    Ttl = 1
    Skews <- NoSkew
    MaxTime = 2
    PoolSize = 1
    Faults = FALSE
    None = None
INVARIANT ConflictMeansResolved
CHECK_DEADLOCK FALSE
