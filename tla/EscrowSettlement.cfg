SPECIFICATION Spec
CONSTANTS
    ann = ann
    bob = bob
    cid = cid
    dan = dan
    usd = usd
    eur = eur
    NoAddress = NoAddress
    Address = {ann, bob, cid}
    Admins = {cid, bob}
    Buyers = {ann, bob}
    Heirs = {}
    Token = {usd, eur}
    Terms <- SettlementTerms
    Deadline = {1}
    Portion = {0, 50, 100}
    Allowance = {}
    FeeRate = {200, 201}
    MaxEscrows = 2
    MaxTime = 2
    MaxEvidence = 0
    ExtensionWindow = 1
INVARIANTS
    TypeOK
    Conservation
    Solvency
    DisputeRecordAgrees
    SettlementSplit
PROPERTIES
    SettledIsFinal
    PauseFreezesFunds
    KeepsCustody
CHECK_DEADLOCK FALSE
