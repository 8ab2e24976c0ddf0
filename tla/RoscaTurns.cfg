SPECIFICATION Spec
CONSTANTS
    ann = ann
    bob = bob
    cid = cid
    usd = usd
    eur = eur
    Address = {ann, bob}
    Founders = {ann, bob}
    FirstOrder <- InOrder
    Joiners = {}
    Token = {usd}
    Base = usd
    Contribution = 2
    RoundDuration = 1
    MaxDefaults = 2
    Penalty = 1
    SkipFee = 1
    MaxSkips = 1
    ExitPenaltyBps = 5000
    HasFeeRecipient = FALSE
    FirstFee = 0
    FirstCap = 3
    Unlimited = Unlimited
    Amount = {1, 2}
    Premium = {}
    Reward = {}
    Tier = {5000}
    Rate = {}
    Limit = {}
    FeeRate = {}
    Cap = {}
    Weighting <- NoWeights
    MaxHeld = 4
    MaxPool = 2
    MaxRound = 2
    MaxTime = 3
    Sharing = {}
    Listed = {}
    Skippers = {}
    Leavers = {}
    Investors = {ann}
    Fallen = {}
    Outages = {0, 1}
INVARIANTS
    SuspensionAgrees
    WindowKept
PROPERTIES
    MarksHold
    PauseFreezesGroup
CHECK_DEADLOCK FALSE
