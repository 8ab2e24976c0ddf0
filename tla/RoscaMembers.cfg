SPECIFICATION Spec
CONSTANTS
    ann = ann
    bob = bob
    cid = cid
    usd = usd
    eur = eur
    Address = {ann, bob, cid}
    Founders = {ann, bob}
    FirstOrder <- InOrder
    Joiners = {cid}
    Token = {usd}
    Base = usd
    Contribution = 1
    RoundDuration = 0
    MaxDefaults = 1
    Penalty = 0
    SkipFee = 0
    MaxSkips = 1
    ExitPenaltyBps = 5000
    HasFeeRecipient = FALSE
    FirstFee = 0
    FirstCap = 3
    Unlimited = Unlimited
    Amount = {1}
    Premium = {}
    Reward = {}
    Tier = {}
    Rate = {}
    Limit = {}
    FeeRate = {100, 501}
    Cap = {2}
    Weighting <- NoWeights
    MaxHeld = 4
    MaxPool = 2
    MaxRound = 2
    MaxTime = 1
    Sharing = {}
    Listed = {}
    Skippers = {bob}
    Leavers = {ann}
    Investors = {}
    Fallen = {cid}
    Outages = {}
INVARIANTS
    TypeOK
    SeatsMatchMembers
PROPERTIES
    PayeeInGoodStanding
CHECK_DEADLOCK FALSE
