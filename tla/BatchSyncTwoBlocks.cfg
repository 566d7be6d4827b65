\* A recovery has more than one block to delete.
CONSTANTS
    Accounts = {a}
    Hashes = {h1}
    MaxHeight = 2
    MaxReorgs = 1
    MaxFailures = 0
    MaxCrashes = 0
    MaxErases = 0
    MaxPushes = 0
    EraseDuringSync = FALSE
    CutsWaiting = TRUE
    MayEvict = TRUE
    TellsCurrentBlock = TRUE
    ClientReportsBlock = TRUE
SPECIFICATION FairSpec
PROPERTIES JobEnds
CHECK_DEADLOCK FALSE
