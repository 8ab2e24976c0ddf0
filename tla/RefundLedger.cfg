SPECIFICATION Spec
CONSTANTS
    ann = ann
    bob = bob
    cid = cid
    usd = usd
    first = first
    second = second
    Address = {ann, bob, cid}
    Admin = cid
    Customers = {ann}
    Deputies = {bob}
    Token = {usd}
    Payment = {first, second}
    Terms <- TwoPayments
    DisputeWindow = 1
    AutoRejectWindow = 2
    AppealWindow = 1
    CancelWindow = 1
    Cooldown = 1
    HasFeeRecipient = TRUE
    FirstFee = 200
    FirstTiers <- NoTiers
    TierTable <- Tables
    FeeRate = {0, 201}
    Amount = {60}
    Extra = {1}
    MaxRefunds = 2
    MaxExtension = 1
    MaxTime = 3
INVARIANTS
    TypeOK
    QueueAgrees
    StatsAgree
    RefundedAmountAgrees
    PaidOnceUnlessAppealed
    OpenRefundsHeld
PROPERTIES
    SettledStays
    PauseFreezesRefunds
CHECK_DEADLOCK FALSE
