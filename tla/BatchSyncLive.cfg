\* Three transactions; a reorganization, or a failure, a crash, an erasure and a
\* broadcast (LiveInit).  No symmetry: liveness is checked.
CONSTANTS
    Accounts = {a}
    Hashes = {1, 2, 3}
    MaxHeight = 2
    MaxReorgs = 1
    MaxFailures = 1
    MaxCrashes = 1
    MaxErases = 1
    MaxPushes = 1
    EraseDuringSync = FALSE
    CutsWaiting = TRUE
    MayEvict = FALSE
    TellsCurrentBlock = FALSE
    ClientReportsBlock = TRUE
SPECIFICATION LiveSpec
PROPERTIES JobEnds CatchesUp
CHECK_DEADLOCK FALSE
