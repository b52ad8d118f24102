SPECIFICATION Spec
CONSTANTS
    p1 = p1
    p2 = p2
    c1 = c1
    c2 = c2
    b1 = b1
    n1 = n1
    n2 = n2
    s1 = s1
    s2 = s2
    Products = {p1, p2}
    Categories = {c1, c2}
    Names = {n1, n2}
    Barcodes = {b1}
    Shas = {s1, s2}
    Requests <- Pool
    Workers = {w1, w2}
    MaxSends = 5
    Tick = 2
    Tolerance = 1
    None = None
    Malformed = Malformed
INVARIANTS TypeOK IndexNeverSurprises StockFollowsMovements NoLinkToDeleted ImageMatchesVersion
PROPERTIES RetryIsQuiet NewerEditWins
CHECK_DEADLOCK FALSE
SYMMETRY WorkerSymmetry
