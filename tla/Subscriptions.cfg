\* Two subscriptions, one delivery date, a task and its replay, one crash.
SPECIFICATION Spec
CONSTANTS
    s1 = s1
    s2 = s2
    c1 = c1
    c2 = c2
    p1 = p1
    p2 = p2
    None = None
    Newest <- MCNewest
    Customers = {c1, c2}
    OwnerOf <- MCOwnerOf
    Workers = {p1, p2}
    Enrolled <- MCEnrolled
    Plans <- MCPlans
    Ranges <- MCRanges
    Quantities = {1}
    Weekend = {3}
    Dates = {2}
    LastDay = 2
    OpeningStock = 3
    OpeningBalance = 1
    MaxChanges = 3
    MaxReplays = 1
    MaxCrashes = 1
SYMMETRY Symmetry
INVARIANTS
    TypeOK
    OneOrderADay
    BooksBalance
PROPERTIES
    StopsWhenAsked
    ImplementsDay
    ForecastIsDrawn
CHECK_DEADLOCK FALSE
