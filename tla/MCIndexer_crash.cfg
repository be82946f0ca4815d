\* Two claims in a block that a chunk may end between.
SPECIFICATION Spec
CONSTANTS
    Accounts = {a1, a2}
    Amounts = {1, 2}
    BatchSize = 1
    PerBlock = 2
    SafeDepth = 0
    ReorgDepth = 0
    MaxTip = 2
    MaxFailures = 1
SYMMETRY Symmetry
INVARIANT CrashSafe
CHECK_DEADLOCK FALSE
