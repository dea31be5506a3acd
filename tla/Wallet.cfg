\* Everything about one top-up, a spend and a refund racing on two workers.
SPECIFICATION FairSpec
CONSTANTS
    w1 = w1
    t1 = t1
    p1 = p1
    p2 = p2
    None = None
    Wallets = {w1}
    Topups = {t1}
    Workers = {p1, p2}
    OwnerOf <- MCOwnerOf
    TopupAmount = 2
    Amounts = {2}
    MaxEntries = 2
    MaxCrashes = 1
    MockGateway = TRUE
INVARIANTS
    TypeOK
    LedgerExplainsBalance
    CreditedOnlyIfPaid
    DoubleCreditOnlyIfOverlapped
    SuccessIsCredited
PROPERTIES
    PaidIsCredited
    ImplementsLedger
CHECK_DEADLOCK FALSE
