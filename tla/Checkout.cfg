\* Two customers, the warehouse and the import, two handlers at a time.
SPECIFICATION Spec
CONSTANTS
    v1 = v1
    v2 = v2
    c1 = c1
    c2 = c2
    p1 = p1
    p2 = p2
    None = None
    Variants = {v1, v2}
    Customers = {c1, c2}
    Workers = {p1, p2}
    LinesOf <- MCLinesOf
    Opening = 2
    Capacity = 1
    UsageLimit = 1
    Deltas <- MCDeltas
    Targets = {1}
    CancelPaths = {"customer", "ops"}
    MayEdit = TRUE
    MaxMoves = 2
    MaxFills = 1
    MaxEdits = 1
    MaxStock = 8
SYMMETRY Symmetry
INVARIANTS
    TypeOK
    DriftOnlyByBlindWrites
    SlotCountsOrders
    CouponCounted
PROPERTIES
    StockIsLedger
CHECK_DEADLOCK FALSE
