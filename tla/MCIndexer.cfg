\* One claim in a block, chunks of two, a tip that is taken back by one block.
SPECIFICATION Spec
CONSTANTS
    Accounts = {a1, a2}
    Amounts = {1, 2, 3}
    BatchSize = 2
    PerBlock = 1
    SafeDepth = 1
    ReorgDepth = 1
    MaxTip = 5
    MaxFailures = 2
SYMMETRY Symmetry
INVARIANT TypeOK
INVARIANT ReorgSafe
INVARIANT CursorMeansApplied
INVARIANT CatchesUp
PROPERTY NoRegression
CHECK_DEADLOCK FALSE
