\* Two handlers at a time.
SPECIFICATION Spec
CONSTANTS
    p1 = p1
    p2 = p2
    l1 = l1
    l2 = l2
    None = None
    Workers = {p1, p2}
    Lines = {l1}
    Methods = {"online", "wallet"}
    MaxAttempts = 2
    MaxCrashes = 0
    AutoAssigned = FALSE
    MockGateway = FALSE
    Subscribed = {"captured"}
INVARIANTS
    PaidOnlyIfTaken
    CreditedBackOnce
SYMMETRY Symmetry
CHECK_DEADLOCK FALSE
