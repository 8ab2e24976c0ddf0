SPECIFICATION Spec
CONSTANTS
    ann = ann
    bob = bob
    cid = cid
    usd = usd
    eur = eur
    k = k
    Address = {ann, bob, cid}
    Admin = cid
    Customers = {ann}
    Merchants = {bob}
    Token = {usd}
    Amount = {}
    Split <- NoSplit
    ExecuteAfter = {0}
    Key = {k}
    NoKey = NoKey
    Request <- OneRequest
    Portion = {}
    Selection <- NoLists
    Price = {None}
    Slippage = {}
    UsdcToken = {}
    FirstFee = 100
    FeeRate = {}
    TierTable <- NoTiers
    FirstTimeout = 1
    Timeout = {}
    FirstLimit <- OnePerTwo
    Limit <- OtherLimits
    BatchSize = {}
    Plan <- Plans
    KeyLife = 3
    BucketSize = 1
    Mode = {FALSE}
    Vetted = {bob}
    Outages = {}
    None = None
    Genesis = 3
    MaxTime = 7
    MaxPayments = 3
    MaxSubscriptions = 1
INVARIANTS
    VolumeIsRecent
    RateHeld
    KeyMakesOne
    ChargesPaced
CHECK_DEADLOCK FALSE
