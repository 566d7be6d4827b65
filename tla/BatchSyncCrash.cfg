\* Three transactions, so that a listing takes two pages; the process dies once,
\* the data is erased once between jobs, the chain is reorganized once.
CONSTANTS
    Accounts = {a}
    Hashes = {h1, h2, h3}
    MaxHeight = 2
    MaxReorgs = 1
    MaxFailures = 0
    MaxCrashes = 1
    MaxErases = 1
    MaxPushes = 0
    EraseDuringSync = FALSE
    CutsWaiting = TRUE
    MayEvict = FALSE
    TellsCurrentBlock = FALSE
    ClientReportsBlock = TRUE
SPECIFICATION Spec
INVARIANTS NothingSkipped BlocksPresent
SYMMETRY Symmetry
CHECK_DEADLOCK FALSE
