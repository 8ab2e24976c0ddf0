SPECIFICATION Spec
CONSTANTS
    ann = ann
    bob = bob
    cid = cid
    usd = usd
    eur = eur
    Address = {ann, bob}
    Founders = {ann, bob}
    FirstOrder <- InOrder
    Joiners = {}
    Token = {usd, eur}
    Base = usd
    Contribution = 100
    RoundDuration = 0
    MaxDefaults = 1
    Penalty = 0
    SkipFee = 1
    MaxSkips = 0
    ExitPenaltyBps = 5000
    HasFeeRecipient = TRUE
    FirstFee = 400
    FirstCap = 3
    Unlimited = Unlimited
    Amount = {100}
    Premium = {50}
    Reward = {90}
    Tier = {5000}
    Rate = {20000000}
    Limit = {60}
    FeeRate = {}
    Cap = {}
    Weighting <- BobOnly
    MaxHeld = 4
    MaxPool = 90
    MaxRound = 1
    MaxTime = 0
    Sharing = {"Weighted"}
    Listed = {eur}
    Skippers = {}
    Leavers = {ann}
    Investors = {bob}
    Fallen = {}
    Outages = {}
INVARIANTS
    PotHeld
CHECK_DEADLOCK FALSE
