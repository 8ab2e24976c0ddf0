SPECIFICATION LiveSpec
CONSTANTS
    ann = ann
    bob = bob
    cid = cid
    dan = dan
    usd = usd
    eur = eur
    NoAddress = NoAddress
    Address = {ann, bob, cid}
    Admins = {cid}
    Buyers = {ann}
    Heirs = {bob}
    Token = {usd}
    Terms <- InactivityTerms
    Deadline = {3, 4}
    Portion = {1, 2}
    Allowance = {1}
    FeeRate = {}
    MaxEscrows = 1
    MaxTime = 2
    MaxEvidence = 1
    ExtensionWindow = 1
PROPERTIES
    EveryEscrowSettles
CHECK_DEADLOCK FALSE
