\* Legacy addresses of Bitcoin; the recipient's are the shortest and the longest.
CONSTANTS
    Coins = {c1, c2, c3}
    Values = {30, 48, 300, 600, 1692, 1800, 1892, 12000}
    Heights = {1, 2}
    Amounts = {1028, 1500, 4000}
    Fees = {1, 30}
    OutputSizes = {32, 34}
    InputSize = 148
    ChangeSize = 34
    Dust = 3000
    DustPolicy = "PER_KBYTE"
    TotalTries = 9
SPECIFICATION Spec
INVARIANTS TypeOK FeeIsFair EnoughIsAccepted BestIsFound
SYMMETRY Symmetry
CHECK_DEADLOCK FALSE
