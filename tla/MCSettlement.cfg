\* Two players, two publisher runs one after the other, two faults; fair.
SPECIFICATION FairSpec
CONSTANTS
    a1 = a1
    a2 = a2
    Accounts <- TwoPlayers
    Runs = {d1, d2}
    Calls = {c1}
    Overlap = FALSE
    Leaks = FALSE
    MaxEarned <- TwoAndOne
    MaxTxs = 4
    MaxFaults = 2
INVARIANT TypeOK
INVARIANT OnlyEarned
INVARIANT PublishedWasPosted
INVARIANT RootServed
INVARIANT ClaimableNotNegative
PROPERTY RootGrows
PROPERTY ImplementsPayout
PROPERTY EventuallyPublished
CHECK_DEADLOCK FALSE
