\* Two publisher runs that may overlap, no faults: what me.rs calls corruption.
SPECIFICATION Spec
CONSTANTS
    a1 = a1
    a2 = a2
    Accounts <- TwoPlayers
    Runs = {d1, d2}
    Calls = {c1}
    Overlap = TRUE
    Leaks = FALSE
    MaxEarned <- TwoAndOne
    MaxTxs = 2
    MaxFaults = 0
INVARIANT ClaimableNotNegative
CHECK_DEADLOCK FALSE
