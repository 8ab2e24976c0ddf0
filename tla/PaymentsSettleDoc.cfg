SPECIFICATION Spec
CONSTANTS
    ann = ann
    bob = bob
    cid = cid
    usd = usd
    eur = eur
    k = k
    Address = {ann, bob, cid}
    Admin = cid
    Customers = {ann}
    Merchants = {bob}
    Token = {usd, eur}
    Amount = {50}
    Split <- Splits
    ExecuteAfter = {0, 2}
    Key = {}
    NoKey = NoKey
    Request <- TwoRequests
    Portion = {50}
    Selection <- Lists
    Price <- Prices
    Slippage = {0}
    UsdcToken = {usd, eur}
    FirstFee = 100
    FeeRate = {0, 501}
    TierTable <- Tiers
    FirstTimeout = 2
    Timeout = {0, 1}
    FirstLimit <- NoLimit
    Limit <- NoLimits
    BatchSize = {0, 1}
    Plan <- NoPlans
    KeyLife = 1
    BucketSize = 1
    Mode = {}
    Vetted = {}
    Outages = {2}
    None = None
    Genesis = 1
    MaxTime = 3
    MaxPayments = 2
    MaxSubscriptions = 0
INVARIANTS
    NoDoubleSettlement
CHECK_DEADLOCK FALSE
