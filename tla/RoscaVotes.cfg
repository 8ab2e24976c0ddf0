SPECIFICATION GovernanceSpec
CONSTANTS
    ann = ann
    bob = bob
    cid = cid
    usd = usd
    Address = {ann, bob, cid}
    Founders = {ann, bob, cid}
    FirstOrder <- InOrder
    Joiners = {}
    Token = {usd}
    Base = usd
    Contribution = 1
    RoundDuration = 0
    MaxDefaults = 1
    Penalty = 0
    SkipFee = 0
    MaxSkips = 0
    ExitPenaltyBps = 5000
    HasFeeRecipient = FALSE
    FirstFee = 0
    FirstCap = 3
    Unlimited = Unlimited
    Amount = {1}
    Premium = {}
    Reward = {}
    Tier = {}
    Rate = {}
    Limit = {}
    FeeRate = {}
    Cap = {2}
    Weighting <- NoWeights
    MaxHeld = 4
    MaxPool = 2
    MaxRound = 1
    MaxTime = 1
    Sharing = {}
    Listed = {}
    Skippers = {}
    Leavers = {}
    Investors = {}
    Fallen = {cid}
    Outages = {}
    Motion <- Motions
    Creators = {ann}
    Weighing = {TRUE, FALSE}
    TypeQuorum = {3000}
    QuorumFor = {"PenaltyAppeal"}
    Delegators = {cid}
    NoOne = NoOne
    NoData = NoData
    MaxProposals = 1
INVARIANTS
    VoicesCountOnce
PROPERTIES
    StandingNeedsVote
    KeepsGroup
CHECK_DEADLOCK FALSE
