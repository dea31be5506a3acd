\* The auto-assign task against a cancellation.
SPECIFICATION Spec
CONSTANTS
    p1 = p1
    p2 = p2
    l1 = l1
    l2 = l2
    None = None
    Workers = {p1}
    Lines = {l1}
    Methods = {"cod"}
    MaxAttempts = 1
    MaxCrashes = 0
    AutoAssigned = TRUE
    MockGateway = FALSE
    Subscribed = {"authorized", "captured", "failed", "refunded"}
INVARIANT CancelledLeavesQueue
CHECK_DEADLOCK FALSE
