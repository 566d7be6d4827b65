\* One account, one reorganization, nothing fails; no page ends among the
\* transactions that wait, or PendingIsPending would not hold.
CONSTANTS
    Accounts = {a}
    Hashes = {h1, h2}
    MaxHeight = 3
    MaxReorgs = 1
    MaxFailures = 0
    MaxCrashes = 0
    MaxErases = 0
    MaxPushes = 0
    EraseDuringSync = FALSE
    CutsWaiting = FALSE
    MayEvict = TRUE
    TellsCurrentBlock = TRUE
    ClientReportsBlock = TRUE
SPECIFICATION Spec
INVARIANTS TypeOK NothingSkipped NothingOrphaned PendingIsPending
PROPERTIES SuccessMeansSynchronized
SYMMETRY Symmetry
CHECK_DEADLOCK FALSE
