\* The explorer refuses an orphaned block with status 404.
CONSTANTS
    Accounts = {a}
    Hashes = {h1}
    MaxHeight = 2
    MaxReorgs = 1
    MaxFailures = 0
    MaxCrashes = 0
    MaxErases = 0
    MaxPushes = 0
    EraseDuringSync = FALSE
    CutsWaiting = TRUE
    MayEvict = TRUE
    TellsCurrentBlock = TRUE
    ClientReportsBlock = FALSE
SPECIFICATION FairSpec
PROPERTIES OrphansLeave
CHECK_DEADLOCK FALSE
