\* The documented promise against two confirmations that read the same top-up.
SPECIFICATION Spec
CONSTANTS
    w1 = w1
    t1 = t1
    p1 = p1
    p2 = p2
    None = None
    Wallets = {w1}
    Topups = {t1}
    Workers = {p1, p2}
    OwnerOf <- MCOwnerOf
    TopupAmount = 2
    Amounts = {2}
    MaxEntries = 2
    MaxCrashes = 0
    MockGateway = FALSE
INVARIANT NoDoubleCredit
CHECK_DEADLOCK FALSE
