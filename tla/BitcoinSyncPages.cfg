\* Three transactions on one index, so that a listing takes two pages.
CONSTANTS
    Txs = {t1, t2, t3}
    Indexings <- OneIndex
    Halves = {1}
    ObservableRange = 1
    MaxHeight = 2
    MaxReorgs = 1
    MaxTroubles = 1
    MaxResizes = 0
SPECIFICATION Spec
INVARIANTS NothingSkipped
SYMMETRY Symmetry
CHECK_DEADLOCK FALSE
