\* A cancellation that read the stock before a checkout took some of it.
SPECIFICATION Spec
CONSTANTS
    v1 = v1
    v2 = v2
    c1 = c1
    c2 = c2
    p1 = p1
    p2 = p2
    None = None
    Variants = {v1, v2}
    Customers = {c1, c2}
    Workers = {p1, p2}
    LinesOf <- MCLinesOf
    Opening = 2
    Capacity = 1
    UsageLimit = 1
    Deltas <- MCDeltas
    Targets = {}
    CancelPaths = {"customer"}
    MayEdit = FALSE
    MaxMoves = 2
    MaxFills = 2
    MaxEdits = 1
    MaxStock = 8
INVARIANT StockIsLedgerSum
CHECK_DEADLOCK FALSE
