---------------------------- MODULE AhjoorRefund ----------------------------
(***************************************************************************)
(* The refund contract (contracts/ahjoor-refund): a customer asks for a    *)
(* refund of a completed payment and places the amount in the contract;    *)
(* the admin, delegates of the merchant, the clock and an appeal decide    *)
(* whether it is processed, cancelled or rejected.                         *)
(*                                                                         *)
(* A call runs to its end or panics without effect.  Three calls may be    *)
(* made by anybody once their time has come (auto_approve_refund,          *)
(* auto_cancel_expired_request, auto_reject_stale_refund), and nothing     *)
(* orders them.  The initial state is the one initialize leaves.           *)
(***************************************************************************)
EXTENDS Integers, Sequences, FiniteSets, FiniteSetsExt

CONSTANTS
    Address,                \* accounts
    Admin,                  \* the admin given to initialize
    Customers,              \* bound: those that ask for refunds
    Deputies,               \* bound: those a merchant makes a delegate
    Token,                  \* token contracts
    Payment,                \* external: payments of the payment contract
    Terms,                  \* external: what get_payment says of each
    DisputeWindow,          \* dispute_window
    AutoRejectWindow,       \* auto_reject_window_seconds
    AppealWindow,           \* appeal_window_seconds
    CancelWindow,           \* customer_cancel_window_seconds
    Cooldown,               \* refund_cooldown_seconds
    HasFeeRecipient,        \* whether a fee recipient was configured
    FirstFee,               \* refund_fee_bps
    FirstTiers,             \* refund_tiers
    TierTable,              \* tables the admin sets
    FeeRate,                \* fees the admin sets
    Amount,                 \* amounts a customer or merchant names
    Extra,                  \* extensions the admin grants
    MaxRefunds,             \* bound: refunds ever recorded
    MaxExtension,           \* bound: extension of one refund
    MaxTime                 \* bound: last timestamp

BasisPoints == 10000
MaxFeeBps == 200
MaxDelegates == 5
MaxBatch == 20

Ids == 0 .. MaxRefunds - 1

PaymentType ==
    [customer : Address, merchant : Address, amount : Nat \ {0}, token : Token,
     createdAt : Nat]

(* A tier: payments at most so old are refunded up to such a share. *)
TierType == [age : Nat, bps : Nat]

ASSUME RefundConstants ==
    /\ Admin \in Address
    /\ Customers \subseteq Address /\ Deputies \subseteq Address
    /\ Payment # {}
    /\ Terms \in [Payment -> PaymentType]
    /\ DisputeWindow \in Nat /\ AppealWindow \in Nat /\ CancelWindow \in Nat
    /\ AutoRejectWindow \in Nat \ {0}
    /\ Cooldown \in Nat
    /\ HasFeeRecipient \in BOOLEAN
    /\ FirstFee \in 0 .. MaxFeeBps
    /\ FirstTiers \in Seq(TierType)
    /\ TierTable \subseteq Seq(TierType)
    /\ FeeRate \subseteq Nat
    /\ Amount \subseteq Int
    /\ Extra \subseteq Nat
    /\ MaxRefunds \in Nat /\ MaxExtension \in Nat /\ MaxTime \in Nat

VARIABLES
    now,                    \* ledger timestamp
    paused,                 \* DataKey::Paused
    tiers,                  \* DataKey::RefundTiers
    feeBps,                 \* DataKey::RefundFeeBps
    whitelist,              \* DataKey::AutoApprovedMerchants
    delegates,              \* DataKey::MerchantDelegates
    lastRequest,            \* DataKey::LastRefundRequest, 0 when there is none
    nextId,                 \* DataKey::RefundCounter
    refund,                 \* DataKey::Refund(id); status "None" when absent
    extension,              \* DataKey::RefundDeadlineExtension(id)
    pending,                \* DataKey::PendingRefundQueue, without its order
    refundedAmount,         \* DataKey::RefundedAmount(payment)
    stats,                  \* DataKey::GlobalRefundStats; each merchant's alike
    completed,              \* external: payments with status Completed
    balance,                \* external: the contract's balance of each token
    taken,                  \* history: placed in the contract for the refund
    released,               \* history: paid on its account, the fee included
    appealed                \* history: refunds that have been appealed

configVars == <<tiers, feeBps, whitelist, delegates>>
requestVars == <<nextId, lastRequest, taken>>
recordVars == <<refund, pending, stats, refundedAmount>>
vars == <<now, paused, configVars, requestVars, recordVars, extension,
          completed, balance, released, appealed>>

-----------------------------------------------------------------------------
Waiting == {"Requested", "Approved"}
Settled == {"Processed", "Cancelled"}
Status == Waiting \cup Settled \cup {"None", "Rejected", "UnderAppeal"}

(* bySilence: auto_approved_source is "dispute_window". *)
RefundType ==
    [payment : Payment, customer : Address, amount : Nat, status : Status,
     requestedAt : Nat, rejectedAt : Nat, bySilence : BOOLEAN]

StatsType ==
    [requested : Nat, approved : Nat, rejected : Nat, processed : Nat, total : Nat]

Has(r, s) == refund[r].status = s
In(S) == {r \in Ids : refund[r].status \in S}

MerchantOf(r) == Terms[refund[r].payment].merchant
TokenOf(r) == Terms[refund[r].payment].token

AmountOf(S) == SumFunctionOnSet([r \in Ids |-> refund[r].amount], S)

-----------------------------------------------------------------------------
(* Parts several calls share *)

SetStatus(r, s) == refund' = [refund EXCEPT ![r].status = s]

Reject(r) ==
    /\ refund' = [refund EXCEPT ![r].status = "Rejected", ![r].rejectedAt = now]
    /\ stats' = [stats EXCEPT !.rejected = @ + 1]

Dequeue(r) == pending' = pending \ {r}

(* The whole amount goes back to the customer. *)
GiveBack(r) ==
    LET x == refund[r].amount
    IN  /\ x <= balance[TokenOf(r)]
        /\ balance' = [balance EXCEPT ![TokenOf(r)] = @ - x]
        /\ released' = [released EXCEPT ![r] = @ + x]

FeeOn(x) == (x * feeBps) \div BasisPoints

OutflowFeeOnTop(r) == refund[r].amount + FeeOn(refund[r].amount)     \* mutant

(* The fee is kept from the customer also when nobody is to receive it; it *)
(* then stays in the contract.                                             *)
Outflow(r) ==
    IF HasFeeRecipient THEN refund[r].amount
    ELSE refund[r].amount - FeeOn(refund[r].amount)

(* The amounts less the fee go to the customers of a set of refunds. *)
PayAll(S) ==
    LET out(t) == SumFunctionOnSet([r \in Ids |-> Outflow(r)], {r \in S : TokenOf(r) = t})
    IN  /\ \A t \in Token : out(t) <= balance[t]
        /\ balance' = [t \in Token |-> balance[t] - out(t)]
        /\ released' = [r \in Ids |->
                          IF r \in S THEN released[r] + refund[r].amount
                          ELSE released[r]]

CountProcessed(S) ==
    stats' = [stats EXCEPT !.processed = @ + Cardinality(S), !.total = @ + AmountOf(S)]

RecordRefunded(S) ==
    refundedAmount' = [p \in Payment |->
        refundedAmount[p] + AmountOf({r \in S : refund[r].payment = p})]

-----------------------------------------------------------------------------
(* Asking for a refund *)

Matching(p) == {i \in DOMAIN tiers : now - Terms[p].createdAt <= tiers[i].age}

(* What the first tier that fits leaves of the payment. *)
TierRoom(p) ==
    (Terms[p].amount * tiers[Min(Matching(p))].bps) \div BasisPoints - refundedAmount[p]

EffectiveAmount(p, a) == IF tiers # <<>> /\ a > TierRoom(p) THEN TierRoom(p) ELSE a

Refundable(p, a) ==
    /\ a > 0
    /\ p \in completed
    /\ tiers # <<>> => Matching(p) # {} /\ TierRoom(p) > 0
    /\ EffectiveAmount(p, a) + refundedAmount[p] <= Terms[p].amount

CooledDown(c) ==
    Cooldown > 0 /\ lastRequest[c] > 0 => now - lastRequest[c] >= Cooldown

(* The record create calls store under the next identifier. *)
Record(p, c, x, s) ==
    /\ nextId < MaxRefunds
    /\ nextId' = nextId + 1
    /\ refund' = [refund EXCEPT ![nextId] =
                    [payment |-> p, customer |-> c, amount |-> x, status |-> s,
                     requestedAt |-> now, rejectedAt |-> 0, bySilence |-> FALSE]]

(* Whoever asks places the amount in the contract; that he is the customer  *)
(* of the payment is not asked.  Nor do other open requests for the payment *)
(* count: refundedAmount knows of processed ones only.                      *)
RequestRefund(c, p, a) ==
    LET x == EffectiveAmount(p, a)
        approved == Terms[p].merchant \in whitelist
    IN  /\ ~paused
        /\ CooledDown(c)
        /\ Refundable(p, a)
        /\ Record(p, c, x, IF approved THEN "Approved" ELSE "Requested")
        /\ balance' = [balance EXCEPT ![Terms[p].token] = @ + x]
        /\ taken' = [taken EXCEPT ![nextId] = x]
        /\ pending' = IF approved THEN pending ELSE pending \cup {nextId}
        /\ stats' = [stats EXCEPT !.requested = @ + 1]
        /\ lastRequest' = IF Cooldown > 0 THEN [lastRequest EXCEPT ![c] = now]
                          ELSE lastRequest
        /\ UNCHANGED <<now, paused, configVars, extension, refundedAmount,
                       completed, released, appealed>>

(* The tokens go straight from the merchant to the payment's customer, and  *)
(* the payment need not be completed.                                       *)
MerchantRefund(p, a) ==
    /\ ~paused
    /\ a > 0
    /\ a <= Terms[p].amount - refundedAmount[p]
    /\ Record(p, Terms[p].customer, a, "Processed")
    /\ refundedAmount' = [refundedAmount EXCEPT ![p] = @ + a]
    /\ stats' = [stats EXCEPT !.requested = @ + 1, !.processed = @ + 1, !.total = @ + a]
    /\ UNCHANGED <<now, paused, configVars, lastRequest, taken, extension, pending,
                   completed, balance, released, appealed>>

-----------------------------------------------------------------------------
(* Deciding a request *)

MayDecide(a, r) == a = Admin \/ a \in delegates[MerchantOf(r)]

ApproveRefund(a, r) ==
    /\ ~paused
    /\ MayDecide(a, r)
    /\ Has(r, "Requested")
    /\ SetStatus(r, "Approved")
    /\ Dequeue(r)
    /\ stats' = [stats EXCEPT !.approved = @ + 1]
    /\ UNCHANGED <<now, paused, configVars, requestVars, extension, refundedAmount,
                   completed, balance, released, appealed>>

(* The money stays in the contract, whether or not an appeal follows. *)
RejectRefund(a, r) ==
    /\ ~paused
    /\ MayDecide(a, r)
    /\ Has(r, "Requested")
    /\ Reject(r)
    /\ Dequeue(r)
    /\ UNCHANGED <<now, paused, configVars, requestVars, extension, refundedAmount,
                   completed, balance, released, appealed>>

ProcessInternal(S) ==
    /\ ~paused
    /\ \A r \in S : Has(r, "Approved")
    /\ refund' = [r \in Ids |-> IF r \in S THEN [refund[r] EXCEPT !.status = "Processed"]
                                ELSE refund[r]]
    /\ PayAll(S)
    /\ RecordRefunded(S)
    /\ CountProcessed(S)
    /\ UNCHANGED <<now, paused, configVars, requestVars, extension, pending,
                   completed, appealed>>

ProcessRefund(r) == ProcessInternal({r})

(* A batch that names a refund twice fails. *)
BulkProcessRefunds(S) ==
    /\ Cardinality(S) \in 1 .. MaxBatch
    /\ ProcessInternal(S)

AutoApproveTwice(r) ==                      \* mutant: the status stays
    /\ ~paused
    /\ Has(r, "Requested")
    /\ now >= refund[r].requestedAt + DisputeWindow
    /\ PayAll({r})
    /\ CountProcessed({r})
    /\ UNCHANGED <<now, paused, configVars, requestVars, extension, refund, pending,
                   refundedAmount, completed, appealed>>

(* Anybody, when the dispute window is over.  The refund stays in the       *)
(* pending queue and does not enter the cumulative amount of its payment.   *)
AutoApproveRefund(r) ==
    /\ ~paused
    /\ Has(r, "Requested")
    /\ now >= refund[r].requestedAt + DisputeWindow
    /\ refund' = [refund EXCEPT ![r].status = "Processed", ![r].bySilence = TRUE]
    /\ PayAll({r})
    /\ CountProcessed({r})
    /\ UNCHANGED <<now, paused, configVars, requestVars, extension, pending,
                   refundedAmount, completed, appealed>>

Cancel(r) ==
    /\ ~paused
    /\ Has(r, "Requested")
    /\ GiveBack(r)
    /\ SetStatus(r, "Cancelled")
    /\ Dequeue(r)
    /\ UNCHANGED <<now, paused, configVars, requestVars, extension, stats,
                   refundedAmount, completed, appealed>>

CancelRefundRequest(c, r) ==
    /\ c = refund[r].customer
    /\ Cancel(r)

AutoCancelExpiredRequest(r) ==
    /\ now >= refund[r].requestedAt + CancelWindow
    /\ Cancel(r)

AutoRejectWhilePaused(r) ==                 \* mutant: no look at the pause
    /\ Has(r, "Requested")
    /\ now >= refund[r].requestedAt + AutoRejectWindow + extension[r]
    /\ GiveBack(r)
    /\ Reject(r)
    /\ Dequeue(r)
    /\ UNCHANGED <<now, paused, configVars, requestVars, extension, refundedAmount,
                   completed, appealed>>

AutoRejectQueued(r) ==                      \* mutant: left in the queue
    /\ ~paused
    /\ Has(r, "Requested")
    /\ now >= refund[r].requestedAt + AutoRejectWindow + extension[r]
    /\ GiveBack(r)
    /\ Reject(r)
    /\ UNCHANGED <<now, paused, configVars, requestVars, extension, refundedAmount,
                   completed, pending, appealed>>

(* Anybody, when nothing has happened for long; unlike reject_refund this   *)
(* pays the customer back.                                                  *)
AutoRejectStaleRefund(r) ==
    /\ ~paused
    /\ Has(r, "Requested")
    /\ now >= refund[r].requestedAt + AutoRejectWindow + extension[r]
    /\ GiveBack(r)
    /\ Reject(r)
    /\ Dequeue(r)
    /\ UNCHANGED <<now, paused, configVars, requestVars, extension, refundedAmount,
                   completed, appealed>>

ExtendRefundDeadline(r, x) ==
    /\ Has(r, "Requested")
    /\ extension[r] + x <= MaxExtension
    /\ extension' = [extension EXCEPT ![r] = @ + x]
    /\ UNCHANGED <<now, paused, configVars, requestVars, recordVars,
                   completed, balance, released, appealed>>

-----------------------------------------------------------------------------
(* Appeals *)

AppealOf(r, statuses) ==
    /\ ~paused
    /\ refund[r].status \in statuses
    /\ now <= refund[r].rejectedAt + AppealWindow
    /\ SetStatus(r, "UnderAppeal")
    /\ appealed' = appealed \cup {r}
    /\ UNCHANGED <<now, paused, configVars, requestVars, extension, pending, stats,
                   refundedAmount, completed, balance, released>>

AppealCancelled(c, r) ==                    \* mutant: cancelled ones as well
    c = refund[r].customer /\ AppealOf(r, {"Rejected", "Cancelled"})

(* However it came to be rejected, and whether or not it was paid back. *)
AppealRefund(c, r) == c = refund[r].customer /\ AppealOf(r, {"Rejected"})

GrantAppealUnrecorded(r) ==                 \* mutant: the payment is not debited
    /\ SetStatus(r, "Processed")
    /\ PayAll({r})
    /\ CountProcessed({r})
    /\ UNCHANGED refundedAmount

GrantAppeal(r) ==
    /\ SetStatus(r, "Processed")
    /\ PayAll({r})
    /\ RecordRefunded({r})
    /\ CountProcessed({r})

RefuseAppeal(r) ==
    /\ GiveBack(r)
    /\ Reject(r)
    /\ UNCHANGED refundedAmount

ResolveAppeal(r) ==
    /\ ~paused
    /\ Has(r, "UnderAppeal")
    /\ GrantAppeal(r) \/ RefuseAppeal(r)
    /\ UNCHANGED <<now, paused, configVars, requestVars, extension, pending,
                   completed, appealed>>

-----------------------------------------------------------------------------
(* Settings, the clock and the payment contract *)

(* validate_refund_tiers *)
ValidTiers(ts) ==
    /\ \A i \in 2 .. Len(ts) : ts[i - 1].age <= ts[i].age
    /\ \A i \in 1 .. Len(ts) : ts[i].bps <= BasisPoints

SetRefundTiers(ts) ==
    /\ ValidTiers(ts)
    /\ tiers' = ts
    /\ UNCHANGED <<now, paused, feeBps, whitelist, delegates, requestVars, recordVars,
                   extension, completed, balance, released, appealed>>

UpdateFeeUncapped(f) ==                     \* mutant: any fee
    /\ feeBps' = f
    /\ UNCHANGED <<now, paused, tiers, whitelist, delegates, requestVars, recordVars,
                   extension, completed, balance, released, appealed>>

UpdateRefundFee(f) ==
    /\ f <= MaxFeeBps
    /\ feeBps' = f
    /\ UNCHANGED <<now, paused, tiers, whitelist, delegates, requestVars, recordVars,
                   extension, completed, balance, released, appealed>>

(* add_to_auto_approve and remove_from_auto_approve *)
ChangeAutoApprove(m) ==
    /\ whitelist' = IF m \in whitelist THEN whitelist \ {m} ELSE whitelist \cup {m}
    /\ UNCHANGED <<now, paused, tiers, feeBps, delegates, requestVars, recordVars,
                   extension, completed, balance, released, appealed>>

AddDelegate(m, d) ==
    /\ ~paused
    /\ Cardinality(delegates[m]) < MaxDelegates
    /\ d \notin delegates[m]
    /\ delegates' = [delegates EXCEPT ![m] = @ \cup {d}]
    /\ UNCHANGED <<now, paused, tiers, feeBps, whitelist, requestVars, recordVars,
                   extension, completed, balance, released, appealed>>

RemoveDelegate(m, d) ==
    /\ ~paused
    /\ d \in delegates[m]
    /\ delegates' = [delegates EXCEPT ![m] = @ \ {d}]
    /\ UNCHANGED <<now, paused, tiers, feeBps, whitelist, requestVars, recordVars,
                   extension, completed, balance, released, appealed>>

(* By the admin, or by the expiry of the temporary storage entry. *)
WaiveCooldown(c) ==
    /\ lastRequest' = [lastRequest EXCEPT ![c] = 0]
    /\ UNCHANGED <<now, paused, configVars, nextId, taken, recordVars, extension,
                   completed, balance, released, appealed>>

(* pause_contract and resume_contract *)
SetPaused ==
    /\ paused' = ~paused
    /\ UNCHANGED <<now, configVars, requestVars, recordVars, extension,
                   completed, balance, released, appealed>>

(* Completed is a terminal status of the payment contract. *)
PaymentCompletes(p) ==
    /\ Terms[p].createdAt <= now
    /\ completed' = completed \cup {p}
    /\ UNCHANGED <<now, paused, configVars, requestVars, recordVars, extension,
                   balance, released, appealed>>

Tick ==
    /\ now < MaxTime
    /\ now' = now + 1
    /\ UNCHANGED <<paused, configVars, requestVars, recordVars, extension,
                   completed, balance, released, appealed>>

-----------------------------------------------------------------------------
NoRefund ==
    [payment |-> CHOOSE p \in Payment : TRUE, customer |-> Admin, amount |-> 0,
     status |-> "None", requestedAt |-> 0, rejectedAt |-> 0, bySilence |-> FALSE]

Init ==
    /\ now = 1 /\ paused = FALSE
    /\ ValidTiers(FirstTiers) /\ tiers = FirstTiers
    /\ feeBps = FirstFee
    /\ whitelist = {} /\ delegates = [m \in Address |-> {}]
    /\ nextId = 0 /\ lastRequest = [c \in Address |-> 0]
    /\ refund = [r \in Ids |-> NoRefund]
    /\ extension = [r \in Ids |-> 0]
    /\ pending = {}
    /\ refundedAmount = [p \in Payment |-> 0]
    /\ stats = [requested |-> 0, approved |-> 0, rejected |-> 0, processed |-> 0, total |-> 0]
    /\ completed = {}
    /\ balance = [t \in Token |-> 0]
    /\ taken = [r \in Ids |-> 0] /\ released = [r \in Ids |-> 0]
    /\ appealed = {}

Ask ==
    \E p \in Payment, a \in Amount :
        \/ \E c \in Customers : RequestRefund(c, p, a)
        \/ MerchantRefund(p, a)

Decide(r) ==
    \/ \E a \in Address : ApproveRefund(a, r) \/ RejectRefund(a, r)
    \/ ProcessRefund(r)
    \/ AutoApproveRefund(r)
    \/ AutoCancelExpiredRequest(r)
    \/ AutoRejectStaleRefund(r)
    \/ \E x \in Extra : ExtendRefundDeadline(r, x)
    \/ \E c \in Address : CancelRefundRequest(c, r) \/ AppealRefund(c, r)
    \/ ResolveAppeal(r)

Configure ==
    \/ \E ts \in TierTable : SetRefundTiers(ts)
    \/ \E f \in FeeRate : UpdateRefundFee(f)
    \/ \E p \in Payment : ChangeAutoApprove(Terms[p].merchant)
    \/ \E p \in Payment, d \in Deputies :
           AddDelegate(Terms[p].merchant, d) \/ RemoveDelegate(Terms[p].merchant, d)
    \/ \E c \in Customers : WaiveCooldown(c)
    \/ SetPaused

Next ==
    \/ Ask
    \/ \E r \in Ids : Decide(r)
    \/ \E S \in SUBSET Ids : BulkProcessRefunds(S)
    \/ Configure
    \/ \E p \in Payment : PaymentCompletes(p)
    \/ Tick

Spec == Init /\ [][Next]_vars

-----------------------------------------------------------------------------
(* Invariants *)

(* Every variable holds a value of its kind; the fee is within its cap.    *)
TypeOK ==
    /\ now \in Nat /\ paused \in BOOLEAN
    /\ tiers \in Seq(TierType) /\ ValidTiers(tiers)
    /\ feeBps \in 0 .. MaxFeeBps
    /\ whitelist \subseteq Address
    /\ delegates \in [Address -> SUBSET Address]
    /\ \A m \in Address : Cardinality(delegates[m]) <= MaxDelegates
    /\ nextId \in 0 .. MaxRefunds
    /\ lastRequest \in [Address -> Nat]
    /\ refund \in [Ids -> RefundType]
    /\ extension \in [Ids -> Nat]
    /\ pending \subseteq Ids
    /\ refundedAmount \in [Payment -> Nat]
    /\ stats \in StatsType
    /\ completed \subseteq Payment
    /\ balance \in [Token -> Nat]
    /\ taken \in [Ids -> Nat] /\ released \in [Ids -> Nat]
    /\ appealed \subseteq Ids

(* The pending queue is written by the request and by five of the six calls *)
(* that end one: it holds every request without a decision and, beside      *)
(* them, only refunds auto_approve_refund has processed.                    *)
QueueAgrees == pending = {r \in Ids : Has(r, "Requested") \/ refund[r].bySilence}

(* The statistics, counted up call by call, say what the records say: one   *)
(* request each, one processing each with its amount, at most one approval  *)
(* for every refund that is approved or processed other than by silence     *)
(* (those of a whitelisted merchant, merchant refunds and granted appeals   *)
(* are not counted as approvals), and at least one rejection for every      *)
(* refund that is rejected or appealed (each refused appeal counts again).  *)
StatsAgree ==
    /\ stats.requested = nextId
    /\ stats.processed = Cardinality(In({"Processed"}))
    /\ stats.total = AmountOf(In({"Processed"}))
    /\ stats.approved
         <= Cardinality({r \in In({"Approved", "Processed"}) : ~refund[r].bySilence})
    /\ stats.rejected >= Cardinality(In({"Rejected", "UnderAppeal"}))

(* What a payment is said to have been refunded is the sum of its processed *)
(* refunds, whichever way they came about, but for those auto_approve_refund*)
(* processed.                                                               *)
RefundedAmountAgrees ==
    \A p \in Payment :
        refundedAmount[p] =
            AmountOf({r \in In({"Processed"}) :
                        refund[r].payment = p /\ ~refund[r].bySilence})

(* A refund that was never appealed pays out once, and everything: nothing  *)
(* while it waits, all that was placed in the contract when it is settled.  *)
(* An administrator's rejection keeps it, a stale request's returns it.     *)
PaidOnceUnlessAppealed ==
    \A r \in Ids \ appealed :
        \/ Has(r, "Rejected") /\ released[r] \in {0, taken[r]}
        \/ refund[r].status \in Settled /\ released[r] = taken[r]
        \/ refund[r].status \in Waiting \cup {"None"} /\ released[r] = 0

(* As long as no appeal has made the contract pay a refund twice, it holds  *)
(* the amounts of all requests that wait, are rejected unpaid or appealed.  *)
OpenRefundsHeld ==
    (\A r \in Ids : released[r] <= taken[r]) =>
        \A t \in Token :
            AmountOf({r \in Ids : /\ TokenOf(r) = t
                                  /\ refund[r].status \notin Settled
                                  /\ released[r] = 0}) <= balance[t]

-----------------------------------------------------------------------------
(* Action properties *)

(* A processed or cancelled refund keeps its record and is paid nothing     *)
(* more, whoever calls what later.                                          *)
SettledStays ==
    [][\A r \in Ids : refund[r].status \in Settled =>
          refund'[r] = refund[r] /\ released'[r] = released[r]]_vars

(* While the contract is paused no record, no queue, no statistic and no    *)
(* money moves; windows run on, and the admin may move a deadline.          *)
PauseFreezesRefunds ==
    [][paused /\ paused' => UNCHANGED <<recordVars, nextId, balance, released>>]_vars

(* resolve_appeal: "final rejection, funds returned to customer, no further *)
(* appeal".  What was rejected on appeal is not appealed again.             *)
FinalRejectionIsFinal ==
    [][\A r \in appealed : Has(r, "Rejected") => refund'[r].status = "Rejected"]_vars

=============================================================================
