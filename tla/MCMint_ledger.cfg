\* Three requests race for one challenge, with faults and a slow API clock.
SPECIFICATION Spec
CONSTANTS
    Users = {u1, u2}
    Challenges = {c1}
    Answers = {a1, a2}
    Requests = {r1, r2, r3}
    Rewards = {1, 2}
    Ttl = 1
    Skews <- ClockSkews
    MaxTime = 2
    PoolSize = 2
    Faults = TRUE
    None = None
SYMMETRY Symmetry
INVARIANT TypeOK
INVARIANT LedgerExact
INVARIANT UniqueNeverNeeded
INVARIANT OneWinner
INVARIANT ResolvedForCause
PROPERTY ImplementsLedger
CHECK_DEADLOCK FALSE
