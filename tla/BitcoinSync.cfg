\* Two transactions, on two indices with a gap between them; the half batch size changes once.
CONSTANTS
    Txs = {t1, t2}
    Indexings <- WithAGap
    Halves = {1, 2}
    ObservableRange = 2
    MaxHeight = 2
    MaxReorgs = 1
    MaxTroubles = 1
    MaxResizes = 1
SPECIFICATION Spec
INVARIANTS TypeOK NothingSkipped UsedIsNotFresh
PROPERTIES DiscoversWithinGap
SYMMETRY Symmetry
CHECK_DEADLOCK FALSE
