SPECIFICATION DeskSpec
CONSTANTS
    ann = ann
    bob = bob
    cid = cid
    usd = usd
    NoAddress = NoAddress
    Address = {ann, bob, cid}
    Admins = {cid}
    Buyers = {ann}
    Heirs = {}
    Token = {usd}
    Terms <- Plans
    Deadline = {1}
    Portion = {}
    Allowance = {1}
    FeeRate = {}
    MaxEscrows = 3
    MaxTime = 1
    MaxEvidence = 0
    ExtensionWindow = 1
    Config <- Configs
    Authors = {bob}
    Pooled = {bob, cid}
    Sellers = {bob}
    Price = {2}
    Named = {{0}}
    MaxTemplates = 1
INVARIANTS
    RenewalPlanKept
    OpenForAWhile
    TakeTurns
CHECK_DEADLOCK FALSE
