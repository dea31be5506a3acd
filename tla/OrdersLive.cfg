\* What must happen eventually, handlers one after the other.
SPECIFICATION FairSpec
CONSTANTS
    p1 = p1
    p2 = p2
    l1 = l1
    l2 = l2
    None = None
    Workers = {p1}
    Lines = {l1}
    Methods = {"cod", "online", "wallet"}
    MaxAttempts = 1
    MaxCrashes = 1
    AutoAssigned = TRUE
    MockGateway = FALSE
    Subscribed = {"authorized", "captured", "failed", "refunded"}
PROPERTIES
    RefundReachesGateway
    PaidIsCaptured
CHECK_DEADLOCK FALSE
