\* What requestTransactionsFromExplorer leaves to the recovery.  Fair, as the
\* application synchronizes again and again.
CONSTANTS
    Txs = {t1}
    Indexings <- OneIndex
    Halves = {1}
    ObservableRange = 1
    MaxHeight = 2
    MaxReorgs = 1
    MaxTroubles = 0
    MaxResizes = 0
SPECIFICATION FairSpec
PROPERTIES OrphansLeave
CHECK_DEADLOCK FALSE
