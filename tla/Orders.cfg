\* Handlers one after the other; tasks and events as late as they like.
SPECIFICATION Spec
CONSTANTS
    p1 = p1
    p2 = p2
    l1 = l1
    l2 = l2
    None = None
    Workers = {p1}
    Lines = {l1, l2}
    Methods = {"cod", "online", "wallet"}
    MaxAttempts = 2
    MaxCrashes = 1
    AutoAssigned = TRUE
    MockGateway = TRUE
    Subscribed = {"authorized", "captured", "failed", "refunded"}
INVARIANTS
    TypeOK
    ReturnedOnce
    PaidBackOnce
    CancelledIsSettled
    ConfirmedIsBacked
    AssignmentAgrees
PROPERTIES
    ForwardOnly
CHECK_DEADLOCK FALSE
