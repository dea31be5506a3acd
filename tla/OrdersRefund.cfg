\* A second confirmation of a payment that has been refunded.
SPECIFICATION Spec
CONSTANTS
    p1 = p1
    p2 = p2
    l1 = l1
    l2 = l2
    None = None
    Workers = {p1}
    Lines = {l1}
    Methods = {"online"}
    MaxAttempts = 1
    MaxCrashes = 0
    AutoAssigned = FALSE
    MockGateway = FALSE
    Subscribed = {"authorized", "captured", "failed", "refunded"}
PROPERTY RefundStands
CHECK_DEADLOCK FALSE
