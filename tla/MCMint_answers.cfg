\* Two requests, two challenges, two connections, no faults; fair.
SPECIFICATION FairSpec
CONSTANTS
    Users = {u1, u2}
    Challenges = {c1, c2}
    Answers = {a1, a2}
    Requests = {r1, r2}
    Rewards = {1}
    Ttl = 1
    Skews <- NoSkew
    MaxTime = 1
    PoolSize = 2
    Faults = FALSE
    None = None
INVARIANT BalancesAddUp
INVARIANT ReportedBalance
INVARIANT ConflictIsFinal
PROPERTY Answered
CHECK_DEADLOCK FALSE
