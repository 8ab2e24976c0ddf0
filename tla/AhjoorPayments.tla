--------------------------- MODULE AhjoorPayments ---------------------------
(***************************************************************************)
(* The payment contract (contracts/ahjoor-payments): a customer pays into  *)
(* the contract, and the payment is completed, expired, cancelled, refunded *)
(* in part or as a whole, or disputed and decided.  Subscriptions are      *)
(* charged by anybody once their interval has passed.                      *)
(*                                                                         *)
(* A call runs to its end or panics without effect.  Most calls are the    *)
(* admin's; execute_scheduled_payment, expire_payment and                  *)
(* charge_subscription are anybody's once their time has come.  The ledger *)
(* sequence, which rate limits and volume buckets count in, and the        *)
(* timestamp are one clock here.  The initial state is the one initialize  *)
(* leaves.                                                                 *)
(***************************************************************************)
EXTENDS Integers, Sequences, FiniteSets, FiniteSetsExt

CONSTANTS
    Address,                \* accounts
    Admin,                  \* the admin given to initialize
    Customers,              \* bound: those that pay or subscribe
    Merchants,              \* bound: those that are paid
    Token,                  \* token contracts
    Amount,                 \* amounts in USDC paid in any token
    Split,                  \* lists of recipients offered; <<>> for none
    ExecuteAfter,           \* schedules asked for; 0 for at once
    Key,                    \* idempotency keys
    NoKey,
    Request,                \* requests of which batches are made
    Portion,                \* amounts of partial refunds
    Selection,              \* lists of payments the admin settles together
    Price,                  \* external: answers of the oracle, None without one
    Slippage,               \* slippage_bps a customer accepts
    UsdcToken,              \* tokens the admin sets as usdc_token
    FirstFee,               \* fee_bps given to initialize
    FeeRate,                \* fees the admin sets
    TierTable,              \* fee tiers the admin sets
    FirstTimeout,           \* payment_timeout
    Timeout,                \* timeouts the admin sets
    FirstLimit,             \* rate_limit_config
    Limit,                  \* rate limits the admin sets
    BatchSize,              \* batch sizes the admin sets
    Plan,                   \* subscriptions asked for
    KeyLife,                \* ledgers an idempotency key is kept
    BucketSize,             \* ledger_bucket_size
    Mode,                   \* bound: values of the open mode the admin sets
    Vetted,                 \* bound: merchants approved and revoked
    Outages,                \* bound: times at which the contract is paused
    None,
    Genesis,                \* the time of deployment
    MaxTime,                \* bound: last time
    MaxPayments,            \* bound: payments ever made
    MaxSubscriptions        \* bound: subscriptions ever made

BasisPoints == 10000
MaxFeeBps == 500
PricePrecision == 10000000
DefaultMaxBatchSize == 20
MaxSettlementBatchSize == 50

Ids == 0 .. MaxPayments - 1
Subs == 0 .. MaxSubscriptions - 1
Bucket(t) == t \div BucketSize
Buckets == 0 .. Bucket(MaxTime)

LimitType == [max : Nat \ {0}, window : Nat \ {0}]
TierType == [min : Nat, bps : Nat]
SplitType == Seq([to : Address, bps : Nat])

ASSUME PaymentConstants ==
    /\ Admin \in Address
    /\ Customers \subseteq Address /\ Merchants \subseteq Address
    /\ Mode \subseteq BOOLEAN /\ Vetted \subseteq Merchants /\ Outages \subseteq Nat
    /\ Amount \subseteq Int /\ Portion \subseteq Int
    /\ Split \subseteq SplitType
    /\ ExecuteAfter \subseteq Nat
    /\ NoKey \notin Key
    /\ Token # {}
    /\ None \notin Token /\ None \notin Address /\ None \notin Int
    /\ UsdcToken \subseteq Token
    /\ Request \subseteq [merchant : Merchants, amount : Int, token : Token]
    /\ Selection \subseteq Seq(Ids)
    /\ Price \subseteq Int \cup {None}
    /\ Slippage \subseteq Nat
    /\ FirstFee \in 0 .. MaxFeeBps /\ FeeRate \subseteq Nat
    /\ TierTable \subseteq Seq(TierType)
    /\ FirstTimeout \in Nat \ {0} /\ Timeout \subseteq Nat
    /\ FirstLimit \in LimitType
    /\ Limit \subseteq [max : Nat, window : Nat]
    /\ IsFiniteSet(Limit)                   \* two fields of 32 bits
    /\ BatchSize \subseteq Nat
    /\ Plan \subseteq [subscriber : Customers, merchant : Merchants, amount : Int,
                       token : Token, interval : Nat, max : Nat]
    /\ KeyLife \in Nat /\ BucketSize \in Nat \ {0}
    /\ Genesis \in Nat \ {0} /\ MaxTime \in Nat /\ Genesis <= MaxTime
    /\ MaxPayments \in Nat /\ MaxSubscriptions \in Nat

VARIABLES
    now,                    \* ledger timestamp and sequence
    paused,                 \* DataKey::Paused
    feeBps,                 \* DataKey::FeeBps
    feeTiers,               \* DataKey::FeeTiers
    timeout,                \* DataKey::PaymentTimeout
    limit,                  \* DataKey::RateLimitConfig
    maxBatch,               \* DataKey::MaxBatchSize
    openMode,               \* DataKey::MerchantOpenMode
    approved,               \* merchants with DataKey::MerchantApproved
    usdc,                   \* DataKey::UsdcToken, None before set_oracle
    nextId,                 \* DataKey::PaymentCounter
    payment,                \* DataKey::Payment(id); status "None" when absent
    settled,                \* payments with DataKey::Settled
    receipt,                \* DataKey::PaymentReceipt: when completed, 0 without one
    dispute,                \* DataKey::Dispute(id); only a view reads it
    keyOf,                  \* DataKey::IdempotencyKey, None when absent
    usage,                  \* DataKey::CustomerRateLimit; count 0 when absent
    volume,                 \* DataKey::MerchantVolumeBucket
    stats,                  \* DataKey::GlobalStats; each merchant's alike
    nextSub,                \* DataKey::SubscriptionCounter
    subscription,           \* DataKey::Subscription(id); state "None" when absent
    balance,                \* external: the contract's balance of each token
    taken,                  \* history: what was taken in for the payment, and as what
    paid,                   \* history: what left on its account, in its token
    namedTwice,             \* history: payments named twice in one settlement
    made,                   \* history: the key each payment was made under
    started                 \* history: when each subscription was first charged

configVars == <<feeBps, feeTiers, timeout, limit, maxBatch, openMode, approved, usdc>>
entryVars == <<nextId, keyOf, usage, taken, made>>
recordVars == <<payment, settled, dispute, stats, balance, paid, namedTwice>>
completionVars == <<receipt, volume>>
subVars == <<nextSub, subscription, started>>
vars == <<now, paused, configVars, entryVars, recordVars, completionVars,
          subVars>>

-----------------------------------------------------------------------------
Open == {"Pending", "ScheduledPending", "Disputed"}
Closed == {"Completed", "Refunded", "Expired"}

PaymentType ==
    [customer : Address, merchant : Address, amount : Nat, token : Token,
     status : Open \cup Closed \cup {"None"}, createdAt : Nat, expiresAt : Nat,
     refunded : Nat, split : SplitType, executeAfter : Nat]

SubscriptionType ==
    [subscriber : Address, merchant : Address, amount : Nat, token : Token,
     interval : Nat, last : Nat, max : Nat, count : Nat,
     state : {"None", "Active", "Cancelled"}]

StatsType ==
    [created : Nat, completed : Nat, refunded : Nat, expired : Nat,
     volumeCompleted : [Token -> Nat], volumeRefunded : [Token -> Nat]]

Has(p, s) == payment[p].status = s
In(S) == {p \in Ids : payment[p].status \in S}
AmountOf(S) == SumFunctionOnSet([p \in Ids |-> payment[p].amount], S)

-----------------------------------------------------------------------------
(* Parts several calls share *)

ApprovedMerchant(m) == openMode \/ m \in approved

SetStatus(p, s) == payment' = [payment EXCEPT ![p].status = s]

(* x of the payment's token leaves on its account; the token contract       *)
(* refuses when the balance is short.                                       *)
PayOut(p, x) ==
    LET t == payment[p].token
    IN  /\ x <= balance[t]
        /\ balance' = [balance EXCEPT ![t] = @ - x]
        /\ paid' = [paid EXCEPT ![p] = @ + x]

CountCreated(n) == stats' = [stats EXCEPT !.created = @ + n]

CountWholeRefund(p, x) ==                                          \* mutant
    stats' = [stats EXCEPT !.refunded = @ + 1,
                           !.volumeRefunded[payment[p].token] = @ + payment[p].amount]

CountRefunded(p, x) ==
    stats' = [stats EXCEPT !.refunded = @ + 1,
                           !.volumeRefunded[payment[p].token] = @ + x]

(* enforce_rate_limit: windows follow one another, the next beginning with  *)
(* the first payment after the last one ended.                              *)
WindowOver(c) == usage[c].count = 0 \/ now - usage[c].start >= limit.window

UsageNeverReset(c, n) ==                                           \* mutant
    [count |-> IF WindowOver(c) THEN n ELSE usage[c].count + n, start |-> usage[c].start]

UsageAfter(c, n) ==
    IF WindowOver(c) THEN [count |-> n, start |-> now]
    ELSE [usage[c] EXCEPT !.count = @ + n]

EnforceRateLimit(c, n) ==
    /\ UsageAfter(c, n).count <= limit.max
    /\ usage' = [usage EXCEPT ![c] = UsageAfter(c, n)]

(* The record of a payment, and its place under the next identifier.        *)
Record(c, r, split, after) ==
    [customer |-> c, merchant |-> r.merchant, amount |-> r.amount, token |-> r.token,
     status |-> IF after > now THEN "ScheduledPending" ELSE "Pending",
     createdAt |-> now, expiresAt |-> now + timeout, refunded |-> 0,
     split |-> split, executeAfter |-> after]

Receive(t, x) == balance' = [balance EXCEPT ![t] = @ + x]

Store(rec, given, key, multi) ==
    /\ nextId < MaxPayments
    /\ nextId' = nextId + 1
    /\ payment' = [payment EXCEPT ![nextId] = rec]
    /\ taken' = [taken EXCEPT ![nextId] =
                    [token |-> given.token, amount |-> given.amount,
                     owed |-> rec.amount, multi |-> multi]]
    /\ made' = [made EXCEPT ![nextId] = key]

-----------------------------------------------------------------------------
(* Paying in *)

ValidSplit(s) ==
    /\ \A i \in DOMAIN s : s[i].bps > 0
    /\ s # <<>> => SumFunctionOnSet([i \in DOMAIN s |-> s[i].bps], DOMAIN s) = BasisPoints

(* A key that is known returns the payment made under it: no step.  It is   *)
(* not asked whose payment that is.                                         *)
CreatePayment(c, r, split, after, k) ==
    /\ ~paused
    /\ k # NoKey => keyOf[k] = None
    /\ EnforceRateLimit(c, 1)
    /\ r.amount > 0
    /\ ValidSplit(split)
    /\ ApprovedMerchant(r.merchant)
    /\ Receive(r.token, r.amount)
    /\ Store(Record(c, r, split, after), r, k, FALSE)
    /\ keyOf' = IF k = NoKey THEN keyOf ELSE [keyOf EXCEPT ![k] = nextId]
    /\ CountCreated(1)
    /\ UNCHANGED <<now, paused, configVars, completionVars, subVars,
                   settled, dispute, paid, namedTwice>>

(* Two payments in one call: one that is refused refuses both. *)
CreatePaymentsBatch(c, r1, r2) ==
    LET given(r) == [token |-> r.token, amount |-> r.amount, owed |-> r.amount,
                     multi |-> FALSE]
    IN  /\ ~paused
        /\ EnforceRateLimit(c, 2)
        /\ 2 <= maxBatch
        /\ r1.amount > 0 /\ r2.amount > 0
        /\ ApprovedMerchant(r1.merchant) /\ ApprovedMerchant(r2.merchant)
        /\ balance' = [t \in Token |-> balance[t]
                          + (IF r1.token = t THEN r1.amount ELSE 0)
                          + (IF r2.token = t THEN r2.amount ELSE 0)]
        /\ nextId + 1 < MaxPayments
        /\ nextId' = nextId + 2
        /\ payment' = [payment EXCEPT ![nextId] = Record(c, r1, <<>>, 0),
                                      ![nextId + 1] = Record(c, r2, <<>>, 0)]
        /\ taken' = [taken EXCEPT ![nextId] = given(r1), ![nextId + 1] = given(r2)]
        /\ CountCreated(2)
        /\ UNCHANGED <<now, paused, configVars, completionVars, subVars,
                       settled, dispute, paid, namedTwice, keyOf, made>>

(* What an amount in USDC costs in another token, rounded down; the price   *)
(* of the oracle has seven digits.                                          *)
Required(x, price) == (x * PricePrecision) \div price

WithinSlippage(x, price, slip) ==
    LET effective == (Required(x, price) * price) \div PricePrecision
    IN  ((x - effective) * BasisPoints) \div x <= slip

(* The payment is recorded in USDC whatever is taken in.  Only a payment in *)
(* USDC asks whether the merchant is approved, and neither is counted in    *)
(* the statistics.  The oracle's answer is None when it has none or an old  *)
(* one.                                                                     *)
CreatePaymentMultiToken(c, m, x, t, price, slip) ==
    LET r == [merchant |-> m, amount |-> x, token |-> usdc]
        cost == IF t = usdc THEN x ELSE Required(x, price)
    IN  /\ ~paused
        /\ usdc # None
        /\ x > 0
        /\ slip <= BasisPoints
        /\ t = usdc => ApprovedMerchant(m)
        /\ t # usdc => /\ price # None
                       /\ price > 0
                       /\ cost > 0
                       /\ WithinSlippage(x, price, slip)
        /\ EnforceRateLimit(c, 1)
        /\ Receive(t, cost)
        /\ Store(Record(c, r, <<>>, 0), [token |-> t, amount |-> cost], NoKey, TRUE)
        /\ UNCHANGED <<now, paused, configVars, completionVars, subVars,
                       settled, dispute, stats, paid, namedTwice, keyOf>>

KeyLapsesAtOnce(k) ==                                              \* mutant
    /\ keyOf[k] # None
    /\ keyOf' = [keyOf EXCEPT ![k] = None]
    /\ UNCHANGED <<now, paused, configVars, recordVars, completionVars, subVars,
                   nextId, usage, taken, made>>

(* A key is forgotten when its temporary entry has run out. *)
KeyLapses(k) ==
    /\ keyOf[k] # None
    /\ now >= payment[keyOf[k]].createdAt + KeyLife
    /\ keyOf' = [keyOf EXCEPT ![k] = None]
    /\ UNCHANGED <<now, paused, configVars, recordVars, completionVars, subVars,
                   nextId, usage, taken, made>>

-----------------------------------------------------------------------------
(* Completion *)

(* The volume of the last four buckets.  Before the fourth bucket the first *)
(* one is counted for each that is missing (saturating_sub).                *)
RollingWithFive(m) ==                                              \* mutant
    LET b == Bucket(now)
        v(i) == volume[m][IF i <= b THEN b - i ELSE 0]
    IN  v(0) + v(1) + v(2) + v(3) + v(4)

RollingVolume(m) ==
    LET b == Bucket(now)
        v(i) == volume[m][IF i <= b THEN b - i ELSE 0]
    IN  v(0) + v(1) + v(2) + v(3)

(* The last tier whose volume is reached. *)
FeeForVolume(v) ==
    LET reached == {i \in DOMAIN feeTiers : v >= feeTiers[i].min}
    IN  IF reached = {} THEN feeBps ELSE feeTiers[Max(reached)].bps

ShareOf(x, s) == (x * s.bps) \div BasisPoints

OutflowWithoutDust(p, x) ==                                        \* mutant
    IF payment[p].split = <<>> THEN x
    ELSE LET s == payment[p].split
         IN  SumFunctionOnSet([i \in DOMAIN s |-> ShareOf(x, s[i])], DOMAIN s)

(* What the recipients get of the net amount, and the merchant what is left *)
(* by rounding, or all of it when there are no recipients.                  *)
Distributed(p, x) ==
    LET s == payment[p].split
        shared == SumFunctionOnSet([i \in DOMAIN s |-> ShareOf(x, s[i])], DOMAIN s)
    IN  IF s = <<>> THEN x
        ELSE IF shared < x THEN shared + (x - shared) ELSE shared

CompleteInternal(p) ==
    LET m == payment[p].merchant
        t == payment[p].token
        gross == payment[p].amount
        fee == (gross * FeeForVolume(RollingVolume(m) + gross)) \div BasisPoints
        net == gross - fee
    IN  /\ now < payment[p].expiresAt
        /\ PayOut(p, fee + Distributed(p, net))
        /\ payment' = [payment EXCEPT ![p].status = "Completed", ![p].amount = net]
        /\ settled' = settled \cup {p}
        /\ receipt' = [receipt EXCEPT ![p] = now]
        /\ volume' = [volume EXCEPT ![m][Bucket(now)] = @ + gross]
        /\ stats' = [stats EXCEPT !.completed = @ + 1, !.volumeCompleted[t] = @ + net]
        /\ UNCHANGED <<now, paused, configVars, entryVars, subVars, dispute,
                       namedTwice>>

CompletePayment(p) ==
    /\ ~paused
    /\ Has(p, "Pending")
    /\ CompleteInternal(p)

ExecuteScheduledPayment(p) ==
    /\ ~paused
    /\ Has(p, "ScheduledPending")
    /\ now >= payment[p].executeAfter
    /\ CompleteInternal(p)

-----------------------------------------------------------------------------
(* Settling, refunding and disputing *)

(* One transfer pays the merchant for completed payments that have not been *)
(* paid out, which are those a dispute released.  Each entry of the list is *)
(* checked before any is marked, so one that appears twice counts twice.    *)
SettleMerchantPayments(m, batch) ==
    LET first == payment[batch[1]]
        named == {batch[i] : i \in DOMAIN batch}
        times(p) == Cardinality({i \in DOMAIN batch : batch[i] = p})
        total == SumFunctionOnSet([i \in DOMAIN batch |-> payment[batch[i]].amount],
                                  DOMAIN batch)
    IN  /\ ~paused
        /\ batch # <<>> /\ Len(batch) <= MaxSettlementBatchSize
        /\ \A i \in DOMAIN batch :
              /\ Has(batch[i], "Completed")
              /\ payment[batch[i]].merchant = m
              /\ payment[batch[i]].token = first.token
              /\ batch[i] \notin settled
        /\ total <= balance[first.token]
        /\ balance' = [balance EXCEPT ![first.token] = @ - total]
        /\ paid' = [p \in Ids |-> IF p \in named THEN paid[p] + payment[p].amount * times(p)
                                  ELSE paid[p]]
        /\ namedTwice' = namedTwice \cup {p \in named : times(p) > 1}
        /\ settled' = settled \cup named
        /\ UNCHANGED <<now, paused, configVars, entryVars, completionVars,
                       subVars, payment, dispute, stats>>

(* The whole amount goes back, whatever was refunded before. *)
GiveBack(p, s) ==
    /\ PayOut(p, payment[p].amount)
    /\ SetStatus(p, s)

CancelScheduledPayment(c, p) ==
    /\ ~paused
    /\ Has(p, "ScheduledPending")
    /\ payment[p].customer = c
    /\ now < payment[p].executeAfter
    /\ GiveBack(p, "Refunded")
    /\ CountRefunded(p, payment[p].amount)
    /\ UNCHANGED <<now, paused, configVars, entryVars, completionVars, subVars,
                   settled, dispute, namedTwice>>

ExpireAnyOpen(p) ==                                                 \* mutant
    /\ ~paused
    /\ payment[p].status \in Open \cup {"Completed"}
    /\ now >= payment[p].expiresAt
    /\ GiveBack(p, "Expired")
    /\ stats' = [stats EXCEPT !.expired = @ + 1]
    /\ UNCHANGED <<now, paused, configVars, entryVars, completionVars, subVars,
                   settled, dispute, namedTwice>>

ExpirePayment(p) ==
    /\ ~paused
    /\ Has(p, "Pending")
    /\ now >= payment[p].expiresAt
    /\ GiveBack(p, "Expired")
    /\ stats' = [stats EXCEPT !.expired = @ + 1]
    /\ UNCHANGED <<now, paused, configVars, entryVars, completionVars, subVars,
                   settled, dispute, namedTwice>>

RefundWhilePaused(p, x) ==                                          \* mutant
    LET back == payment[p].refunded + x
    IN  /\ x > 0
        /\ payment[p].status \in {"Pending", "Disputed"}
        /\ back <= payment[p].amount
        /\ PayOut(p, x)
        /\ payment' = [payment EXCEPT
              ![p].refunded = back,
              ![p].status = IF back >= payment[p].amount THEN "Refunded" ELSE @]
        /\ CountRefunded(p, x)
        /\ UNCHANGED <<now, paused, configVars, entryVars, completionVars,
                       subVars, settled, dispute, namedTwice>>

PartialRefund(p, x) ==
    LET back == payment[p].refunded + x
    IN  /\ ~paused
        /\ x > 0
        /\ payment[p].status \in {"Pending", "Disputed"}
        /\ back <= payment[p].amount
        /\ PayOut(p, x)
        /\ payment' = [payment EXCEPT
              ![p].refunded = back,
              ![p].status = IF back >= payment[p].amount THEN "Refunded" ELSE @]
        /\ CountRefunded(p, x)
        /\ UNCHANGED <<now, paused, configVars, entryVars, completionVars,
                       subVars, settled, dispute, namedTwice>>

DisputePayment(c, p) ==
    /\ ~paused
    /\ Has(p, "Pending")
    /\ payment[p].customer = c
    /\ SetStatus(p, "Disputed")
    /\ dispute' = [dispute EXCEPT ![p] = "Raised"]
    /\ UNCHANGED <<now, paused, configVars, entryVars, completionVars, subVars,
                   settled, stats, balance, paid, namedTwice>>

(* A release pays nothing yet: the payment waits to be settled, without a   *)
(* fee, a receipt or a place in the statistics.                             *)
ResolveDispute(p, release) ==
    /\ ~paused
    /\ Has(p, "Disputed")
    /\ IF release
       THEN /\ SetStatus(p, "Completed")
            /\ settled' = settled \ {p}
            /\ UNCHANGED <<stats, balance, paid>>
       ELSE /\ GiveBack(p, "Refunded")
            /\ CountRefunded(p, payment[p].amount)
            /\ UNCHANGED settled
    /\ dispute' = [dispute EXCEPT ![p] = IF @ = "None" THEN @ ELSE "Resolved"]
    /\ UNCHANGED <<now, paused, configVars, entryVars, completionVars, subVars,
                   namedTwice>>

-----------------------------------------------------------------------------
(* Subscriptions *)

(* A subscriber signs once; there is no first charge yet. *)
CreateSubscription(q) ==
    /\ ~paused
    /\ q.amount > 0 /\ q.interval > 0
    /\ ApprovedMerchant(q.merchant)
    /\ nextSub < MaxSubscriptions
    /\ nextSub' = nextSub + 1
    /\ subscription' = [subscription EXCEPT ![nextSub] =
          [subscriber |-> q.subscriber, merchant |-> q.merchant, amount |-> q.amount,
           token |-> q.token, interval |-> q.interval, last |-> 0, max |-> q.max,
           count |-> 0, state |-> "Active"]]
    /\ UNCHANGED <<now, paused, configVars, entryVars, recordVars,
                   completionVars, started>>

DueEarly(s) ==                                                     \* mutant
    LET q == subscription[s]
    IN  q.last > 0 => now >= q.last + q.interval - 1

Due(s) ==
    LET q == subscription[s]
    IN  q.last > 0 => now >= q.last + q.interval

(* The amount passes through the contract, from subscriber to merchant.     *)
(* Whether the merchant is still approved is not asked.                     *)
ChargeSubscription(s) ==
    LET q == subscription[s]
    IN  /\ ~paused
        /\ q.state = "Active"
        /\ q.max > 0 => q.count < q.max
        /\ Due(s)
        /\ subscription' = [subscription EXCEPT ![s].last = now, ![s].count = @ + 1]
        /\ started' = IF q.count = 0 THEN [started EXCEPT ![s] = now] ELSE started
        /\ UNCHANGED <<now, paused, configVars, entryVars, recordVars,
                       completionVars, nextSub>>

CancelSubscription(c, s) ==
    /\ ~paused
    /\ subscription[s].state # "None"
    /\ c \in {subscription[s].subscriber, subscription[s].merchant}
    /\ subscription' = [subscription EXCEPT ![s].state = "Cancelled"]
    /\ UNCHANGED <<now, paused, configVars, entryVars, recordVars,
                   completionVars, nextSub, started>>

-----------------------------------------------------------------------------
(* What the admin sets *)

ledgerVars == <<entryVars, recordVars, completionVars, subVars>>

UpdateFeeUncapped(f) ==                                            \* mutant
    /\ ~paused
    /\ feeBps' = f
    /\ UNCHANGED <<now, paused, ledgerVars, feeTiers, timeout, limit, maxBatch, openMode,
                   approved, usdc>>

UpdateFee(f) ==
    /\ ~paused
    /\ f <= MaxFeeBps
    /\ feeBps' = f
    /\ UNCHANGED <<now, paused, ledgerVars, feeTiers, timeout, limit, maxBatch,
                   openMode, approved, usdc>>

ValidTiers(s) ==
    /\ \A i \in DOMAIN s : s[i].bps <= MaxFeeBps
    /\ \A i, j \in DOMAIN s : i < j => s[i].min < s[j].min

UpdateFeeTiers(s) ==
    /\ ~paused
    /\ ValidTiers(s)
    /\ feeTiers' = s
    /\ UNCHANGED <<now, paused, ledgerVars, feeBps, timeout, limit, maxBatch,
                   openMode, approved, usdc>>

UpdateRateLimitConfig(l) ==
    /\ ~paused
    /\ l.max > 0 /\ l.window > 0
    /\ limit' = l
    /\ UNCHANGED <<now, paused, ledgerVars, feeBps, feeTiers, timeout, maxBatch,
                   openMode, approved, usdc>>

SetPaymentTimeout(d) ==
    /\ ~paused
    /\ d > 0
    /\ timeout' = d
    /\ UNCHANGED <<now, paused, ledgerVars, feeBps, feeTiers, limit, maxBatch,
                   openMode, approved, usdc>>

SetMaxBatchSize(n) ==
    /\ ~paused
    /\ n > 0
    /\ maxBatch' = n
    /\ UNCHANGED <<now, paused, ledgerVars, feeBps, feeTiers, timeout, limit,
                   openMode, approved, usdc>>

(* It may be set again: what is paid in afterwards is recorded in the new    *)
(* token.                                                                   *)
SetOracle(t) ==
    /\ ~paused
    /\ usdc' = t
    /\ UNCHANGED <<now, paused, ledgerVars, feeBps, feeTiers, timeout, limit,
                   maxBatch, openMode, approved>>

(* set_merchant_open_mode *)
SetOpenMode(open) ==
    /\ ~paused
    /\ openMode' = open
    /\ UNCHANGED <<now, paused, ledgerVars, feeBps, feeTiers, timeout, limit,
                   maxBatch, approved, usdc>>

(* approve_merchant and revoke_merchant *)
ChangeApproval(list) ==
    /\ ~paused
    /\ approved' = list
    /\ UNCHANGED <<now, paused, ledgerVars, feeBps, feeTiers, timeout, limit,
                   maxBatch, openMode, usdc>>

ApproveMerchant(m) == ChangeApproval(approved \cup {m})
RevokeMerchant(m) == ChangeApproval(approved \ {m})

PauseContract ==
    /\ ~paused
    /\ now \in Outages
    /\ paused' = TRUE
    /\ UNCHANGED <<now, configVars, ledgerVars>>

ResumeContract ==
    /\ paused
    /\ paused' = FALSE
    /\ UNCHANGED <<now, configVars, ledgerVars>>

-----------------------------------------------------------------------------
Tick ==
    /\ now < MaxTime
    /\ now' = now + 1
    /\ UNCHANGED <<paused, configVars, ledgerVars>>

-----------------------------------------------------------------------------
AnyToken == CHOOSE t \in Token : TRUE

NoPayment ==
    [customer |-> Admin, merchant |-> Admin, amount |-> 0, token |-> AnyToken,
     status |-> "None", createdAt |-> 0, expiresAt |-> 0, refunded |-> 0,
     split |-> <<>>, executeAfter |-> 0]

NoSubscription ==
    [subscriber |-> Admin, merchant |-> Admin, amount |-> 0, token |-> AnyToken,
     interval |-> 0, last |-> 0, max |-> 0, count |-> 0, state |-> "None"]

InitConfig ==
    /\ feeBps = FirstFee /\ feeTiers = <<>>
    /\ timeout = FirstTimeout /\ limit = FirstLimit /\ maxBatch = DefaultMaxBatchSize
    /\ openMode = TRUE /\ approved = {} /\ usdc = None

InitLedger ==
    /\ nextId = 0
    /\ payment = [p \in Ids |-> NoPayment]
    /\ settled = {}
    /\ receipt = [p \in Ids |-> 0]
    /\ dispute = [p \in Ids |-> "None"]
    /\ keyOf = [k \in Key |-> None]
    /\ usage = [c \in Customers |-> [count |-> 0, start |-> 0]]
    /\ volume = [m \in Merchants |-> [b \in Buckets |-> 0]]
    /\ stats = [created |-> 0, completed |-> 0, refunded |-> 0, expired |-> 0,
                volumeCompleted |-> [t \in Token |-> 0],
                volumeRefunded |-> [t \in Token |-> 0]]
    /\ balance = [t \in Token |-> 0]
    /\ taken = [p \in Ids |-> [token |-> AnyToken, amount |-> 0, owed |-> 0,
                                multi |-> FALSE]]
    /\ paid = [p \in Ids |-> 0]
    /\ namedTwice = {}
    /\ made = [p \in Ids |-> NoKey]

InitSubs ==
    /\ nextSub = 0
    /\ subscription = [s \in Subs |-> NoSubscription]
    /\ started = [s \in Subs |-> 0]

Init ==
    /\ now = Genesis
    /\ paused = FALSE
    /\ InitConfig
    /\ InitLedger
    /\ InitSubs

CreateStep ==
    \/ \E c \in Customers, r \in Request, s \in Split, after \in ExecuteAfter,
          k \in Key \cup {NoKey} : CreatePayment(c, r, s, after, k)
    \/ \E c \in Customers, r1, r2 \in Request : CreatePaymentsBatch(c, r1, r2)
    \/ \E c \in Customers, m \in Merchants, x \in Amount, t \in Token,
          price \in Price, slip \in Slippage :
            CreatePaymentMultiToken(c, m, x, t, price, slip)
    \/ \E k \in Key : KeyLapses(k)

PaymentStep ==
    \/ \E p \in Ids : CompletePayment(p)
    \/ \E p \in Ids : ExecuteScheduledPayment(p)
    \/ \E m \in Merchants, batch \in Selection : SettleMerchantPayments(m, batch)
    \/ \E c \in Address, p \in Ids : CancelScheduledPayment(c, p)
    \/ \E p \in Ids : ExpirePayment(p)
    \/ \E p \in Ids, x \in Portion : PartialRefund(p, x)
    \/ \E c \in Address, p \in Ids : DisputePayment(c, p)
    \/ \E p \in Ids, release \in BOOLEAN : ResolveDispute(p, release)

SubscriptionStep ==
    \/ \E q \in Plan : CreateSubscription(q)
    \/ \E s \in Subs : ChargeSubscription(s)
    \/ \E c \in Address, s \in Subs : CancelSubscription(c, s)

ConfigStep ==
    \/ \E f \in FeeRate : UpdateFee(f)
    \/ \E s \in TierTable : UpdateFeeTiers(s)
    \/ \E l \in Limit : UpdateRateLimitConfig(l)
    \/ \E d \in Timeout : SetPaymentTimeout(d)
    \/ \E n \in BatchSize : SetMaxBatchSize(n)
    \/ \E t \in UsdcToken : SetOracle(t)
    \/ \E open \in Mode : SetOpenMode(open)
    \/ \E m \in Vetted : ApproveMerchant(m)
    \/ \E m \in Vetted : RevokeMerchant(m)

AdminStep ==
    \/ PauseContract
    \/ ResumeContract

Next ==
    \/ CreateStep
    \/ PaymentStep
    \/ SubscriptionStep
    \/ ConfigStep
    \/ AdminStep
    \/ Tick

Spec == Init /\ [][Next]_vars

-----------------------------------------------------------------------------
(* Invariants *)

TypeOK ==
    /\ now \in Genesis .. MaxTime /\ paused \in BOOLEAN
    /\ feeBps \in 0 .. MaxFeeBps /\ feeTiers \in Seq(TierType) /\ ValidTiers(feeTiers)
    /\ timeout \in Nat \ {0} /\ limit \in LimitType /\ maxBatch \in Nat \ {0}
    /\ openMode \in BOOLEAN /\ approved \subseteq Merchants /\ usdc \in Token \cup {None}
    /\ nextId \in 0 .. MaxPayments
    /\ payment \in [Ids -> PaymentType]
    /\ \A p \in Ids : p < nextId <=> ~Has(p, "None")
    /\ settled \subseteq In({"Completed"})
    /\ receipt \in [Ids -> 0 .. MaxTime]
    /\ dispute \in [Ids -> {"None", "Raised", "Resolved"}]
    /\ keyOf \in [Key -> Ids \cup {None}]
    /\ usage \in [Customers -> [count : Nat, start : Nat]]
    /\ volume \in [Merchants -> [Buckets -> Nat]]
    /\ stats \in StatsType
    /\ nextSub \in 0 .. MaxSubscriptions
    /\ subscription \in [Subs -> SubscriptionType]
    /\ balance \in [Token -> Nat]
    /\ paid \in [Ids -> Nat]

PaidOut(p) ==
    \/ payment[p].status \in {"Refunded", "Expired"}
    \/ Has(p, "Completed") /\ p \in settled

(* Given back by partial refunds alone. *)
BackInParts(p) == Has(p, "Refunded") /\ payment[p].refunded >= payment[p].amount

(* Never named twice in a settlement, and taken in in the token it is       *)
(* recorded in: the payments the code keeps account of.                     *)
Traced(p) == p \notin namedTwice /\ taken[p].token = payment[p].token

(* Each payment of that kind pays out exactly what was taken in for it, the  *)
(* fee, the shares and the rounding included, and once: whichever of the     *)
(* completion, the schedule, the expiry, the cancellation, the decision and  *)
(* the settlement ends it, and before that nothing but its partial refunds.  *)
(* Those end it when they come to the whole; otherwise the code takes them   *)
(* off nothing, and they are paid beside the whole.                          *)
PaysWhatItTook ==
    \A p \in Ids : Traced(p) =>
        paid[p] = payment[p].refunded
                  + (IF PaidOut(p) /\ ~BackInParts(p) THEN taken[p].amount ELSE 0)

(* The statistics agree with the payments: every call counts its own, and    *)
(* only completions with a receipt are completions.  Refunds count what the  *)
(* customer got, so a payment refunded in part and then as a whole counts    *)
(* for more than it was.                                                     *)
StatsAgree ==
    LET stored == {p \in Ids : p < nextId}
        done == {p \in Ids : receipt[p] > 0}
        whole == {p \in In({"Refunded"}) : payment[p].refunded < payment[p].amount}
        of(S, t) == {p \in S : payment[p].token = t}
    IN  /\ stats.created = Cardinality({p \in stored : ~taken[p].multi})
        /\ stats.completed = Cardinality(done)
        /\ stats.expired = Cardinality(In({"Expired"}))
        /\ \A t \in Token :
              /\ stats.volumeCompleted[t] = AmountOf(of(done, t))
              /\ stats.volumeRefunded[t] =
                    AmountOf(of(whole, t))
                    + SumFunctionOnSet([p \in Ids |-> payment[p].refunded], of(stored, t))

(* From the fourth bucket on, the volume that chooses a merchant's fee is    *)
(* that of his payments completed in the last four buckets, each once and    *)
(* with its fee.                                                             *)
VolumeIsRecent ==
    Bucket(now) >= 3 =>
        \A m \in Merchants :
            RollingVolume(m) =
                SumFunctionOnSet([p \in Ids |-> taken[p].owed],
                    {p \in Ids : /\ payment[p].merchant = m
                                 /\ receipt[p] > 0
                                 /\ Bucket(receipt[p]) > Bucket(now) - 4})

(* A rate limit holds for any stretch of time, up to the factor of two that  *)
(* windows one after the other allow: whatever the admin sets meanwhile, a   *)
(* customer makes in the shortest window no more than two times the largest  *)
(* number of payments.                                                       *)
RateHeld ==
    LET Limits == {FirstLimit} \cup (Limit \cap LimitType)
        most == Max({l.max : l \in Limits})
        shortest == Min({l.window : l \in Limits})
    IN  \A c \in Customers, t \in Genesis .. now :
            Cardinality({p \in Ids : /\ p < nextId
                                    /\ payment[p].customer = c
                                    /\ payment[p].createdAt \in t .. t + shortest - 1})
                <= 2 * most

(* Two payments under one idempotency key are at least the life of the key   *)
(* apart.                                                                    *)
KeyMakesOne ==
    \A p, q \in Ids :
        p < q /\ made[p] # NoKey /\ made[p] = made[q] =>
            payment[q].createdAt >= payment[p].createdAt + KeyLife

(* Whoever asks for the charges and whenever: n charges of a subscription    *)
(* take at least n - 1 intervals, and there are never more than agreed.      *)
ChargesPaced ==
    \A s \in Subs :
        LET q == subscription[s]
        IN  /\ q.count > 0 => q.last >= started[s] + (q.count - 1) * q.interval
            /\ q.max > 0 => q.count <= q.max

(* What "double merchant settlement" means: no completed payment has paid    *)
(* out more than was owed and what was refunded of it.                       *)
NoDoubleSettlement ==
    \A p \in In({"Completed"}) : paid[p] <= taken[p].owed + payment[p].refunded

-----------------------------------------------------------------------------
(* Action properties *)

(* A payment that is over stays as it is, and once its money has left        *)
(* nothing leaves on its account again.                                      *)
ClosedStays ==
    [][\A p \in Ids : payment[p].status \in Closed =>
          /\ payment'[p] = payment[p]
          /\ PaidOut(p) => paid'[p] = paid[p] /\ PaidOut(p)']_vars

(* While the contract is paused no payment, subscription, balance or setting *)
(* moves; only keys are forgotten and the clock runs on.                     *)
PauseFreezesPayments ==
    [][paused /\ paused' =>
          UNCHANGED <<configVars, recordVars, completionVars, subVars,
                      nextId, usage, taken, made>>]_vars
=============================================================================
