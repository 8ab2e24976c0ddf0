------------------------ MODULE AhjoorPaymentsProofs ------------------------
(***************************************************************************)
(* Theorems about AhjoorPayments: the types, the finality of payments, the *)
(* pause, the pace of subscriptions, the keys of repeated calls, what was  *)
(* paid out against what was taken, the volume a merchant's fee is read    *)
(* from, the statistics, the rate limits, the balances and the schedules   *)
(* that are missed.                                                        *)
(*                                                                         *)
(* StepMovesPayments reduces every call to one of four things it may do to *)
(* the payments; finality follows from that.  StepIsOneOf does the same    *)
(* with the amounts: a step makes payments, moves one, settles a batch or  *)
(* leaves them alone, and every theorem about sums is proved per case.     *)
(***************************************************************************)
EXTENDS AhjoorPayments, SequenceTheorems, Sums, TLAPS

Maps ==
    /\ \E A : payment \in [Ids -> A]
    /\ \E A : paid \in [Ids -> A]

(* Finality is inductive once it is known that identifiers ahead are unused: *)
(* a new payment then takes nobody's place.                                  *)
PaymentInv ==
    /\ Maps
    /\ nextId \in Nat
    /\ \A p \in Ids : p >= nextId => Has(p, "None")

(* What a call may do to the payments. *)
Keep == UNCHANGED <<payment, paid, settled, nextId>>

Add ==
    /\ nextId' \in Nat /\ nextId' >= nextId
    /\ \A q \in Ids : q < nextId \/ q >= nextId' => payment'[q] = payment[q]
    /\ UNCHANGED <<paid, settled>>

Touch(p) ==
    /\ payment[p].status \in Open
    /\ \A q \in Ids \ {p} : /\ payment'[q] = payment[q]
                            /\ paid'[q] = paid[q]
                            /\ q \in settled <=> q \in settled'
    /\ UNCHANGED nextId

Settling ==
    /\ \A q \in Ids : ~Has(q, "Completed") \/ q \in settled => paid'[q] = paid[q]
    /\ settled \subseteq settled'
    /\ UNCHANGED <<payment, nextId>>

Motion == Maps' /\ (Keep \/ Add \/ Settling \/ \E p \in Ids : Touch(p))

-----------------------------------------------------------------------------
(* Updates of one entry *)

LEMMA OneRecordChanges ==
    ASSUME Maps, NEW p \in Ids, NEW x, payment' = [payment EXCEPT ![p] = x]
    PROVE  /\ \E A : payment' \in [Ids -> A]
           /\ \A q \in Ids \ {p} : payment'[q] = payment[q]
<1>1. PICK A : payment \in [Ids -> A]
  BY DEF Maps
<1>2. payment' \in [Ids -> A \cup {x}]
  BY <1>1
<1>3. \A q \in Ids \ {p} : payment'[q] = payment[q]
  BY <1>1
<1>4. QED
  BY <1>2, <1>3

LEMMA PayOutChanges ==
    ASSUME Maps, NEW p \in Ids, NEW x, PayOut(p, x)
    PROVE  /\ \E A : paid' \in [Ids -> A]
           /\ \A q \in Ids \ {p} : paid'[q] = paid[q]
<1>1. PICK A : paid \in [Ids -> A]
  BY DEF Maps
<1>2. paid' = [paid EXCEPT ![p] = paid[p] + x]
  BY DEF PayOut
<1>3. paid' \in [Ids -> A \cup {paid[p] + x}]
  BY <1>1, <1>2
<1>4. \A q \in Ids \ {p} : paid'[q] = paid[q]
  BY <1>1, <1>2
<1>5. QED
  BY <1>3, <1>4

(* A call that pays out for one open payment and changes its record. *)
LEMMA PaidTouch ==
    ASSUME PaymentInv, NEW p \in Ids, NEW x, NEW r,
           payment[p].status \in Open,
           payment' = [payment EXCEPT ![p] = r],
           PayOut(p, x),
           settled' = settled \/ settled' = settled \cup {p},
           UNCHANGED nextId
    PROVE  Motion
<1>1. Maps
  BY DEF PaymentInv
<1>2. Maps'
  BY <1>1, OneRecordChanges, PayOutChanges DEF Maps
<1>3. \A q \in Ids \ {p} : payment'[q] = payment[q]
  BY <1>1, OneRecordChanges
<1>4. \A q \in Ids \ {p} : paid'[q] = paid[q]
  BY <1>1, PayOutChanges
<1>5. Touch(p)
  BY <1>3, <1>4 DEF Touch
<1>6. QED
  BY <1>2, <1>5 DEF Motion

(* A call that changes the record of one open payment and pays nothing. *)
LEMMA UnpaidTouch ==
    ASSUME PaymentInv, NEW p \in Ids, NEW r,
           payment[p].status \in Open,
           payment' = [payment EXCEPT ![p] = r],
           UNCHANGED <<paid, nextId>>,
           settled' = settled \/ settled' = settled \ {p}
    PROVE  Motion
<1>1. Maps
  BY DEF PaymentInv
<1>2. Maps'
  BY <1>1, OneRecordChanges DEF Maps
<1>3. \A q \in Ids \ {p} : payment'[q] = payment[q]
  BY <1>1, OneRecordChanges
<1>4. Touch(p)
  BY <1>3 DEF Touch
<1>5. QED
  BY <1>2, <1>4 DEF Motion

-----------------------------------------------------------------------------
(* The calls *)

LEMMA StoreMotion ==
    ASSUME PaymentInv, NEW rec, NEW given, NEW key, NEW multi,
           Store(rec, given, key, multi), UNCHANGED <<paid, settled>>
    PROVE  Motion
<1>1. nextId \in Ids /\ nextId \in Nat
  BY PaymentConstants DEF Store, PaymentInv, Ids
<1>2. Maps /\ payment' = [payment EXCEPT ![nextId] = rec]
  BY DEF Store, PaymentInv
<1>3. /\ \E A : payment' \in [Ids -> A]
      /\ \A q \in Ids \ {nextId} : payment'[q] = payment[q]
  BY <1>1, <1>2, OneRecordChanges
<1>4. Maps'
  BY <1>2, <1>3 DEF Maps
<1>5. nextId' = nextId + 1
  BY DEF Store
<1>6. Add
  BY <1>1, <1>3, <1>5 DEF Add, Ids
<1>7. QED
  BY <1>4, <1>6 DEF Motion

LEMMA BatchMotion ==
    ASSUME PaymentInv, NEW c, NEW r1, NEW r2, CreatePaymentsBatch(c, r1, r2)
    PROVE  Motion
<1> DEFINE x1 == Record(c, r1, <<>>, 0)
           x2 == Record(c, r2, <<>>, 0)
<1>1. nextId \in Ids /\ nextId + 1 \in Ids /\ nextId \in Nat /\ nextId' = nextId + 2
  BY PaymentConstants DEF CreatePaymentsBatch, PaymentInv, Ids
<1>2. payment' = [payment EXCEPT ![nextId] = x1, ![nextId + 1] = x2]
  BY DEF CreatePaymentsBatch
<1>3. UNCHANGED <<paid, settled>>
  BY DEF CreatePaymentsBatch
<1> HIDE DEF x1, x2
<1>4. PICK A : payment \in [Ids -> A]
  BY DEF PaymentInv, Maps
<1>5. payment' \in [Ids -> A \cup {x1, x2}]
  BY <1>1, <1>2, <1>4
<1>6. \A q \in Ids \ {nextId, nextId + 1} : payment'[q] = payment[q]
  BY <1>2, <1>4
<1>7. Add
  BY <1>1, <1>3, <1>6 DEF Add, Ids
<1>8. Maps'
  BY <1>3, <1>5 DEF Maps, PaymentInv
<1>9. QED
  BY <1>7, <1>8 DEF Motion

LEMMA CreateMotion ==
    ASSUME PaymentInv, CreateStep
    PROVE  Motion
<1>1. ASSUME NEW c \in Customers, NEW r \in Request, NEW s \in Split,
             NEW after \in ExecuteAfter, NEW k \in Key \cup {NoKey},
             CreatePayment(c, r, s, after, k)
      PROVE  Motion
  BY <1>1, StoreMotion DEF CreatePayment
<1>2. ASSUME NEW c \in Customers, NEW r1 \in Request, NEW r2 \in Request,
             CreatePaymentsBatch(c, r1, r2)
      PROVE  Motion
  BY <1>2, BatchMotion
<1>3. ASSUME NEW c \in Customers, NEW m \in Merchants, NEW x \in Amount, NEW t \in Token,
             NEW price \in Price, NEW slip \in Slippage,
             CreatePaymentMultiToken(c, m, x, t, price, slip)
      PROVE  Motion
  BY <1>3, StoreMotion DEF CreatePaymentMultiToken
<1>4. ASSUME NEW k \in Key, KeyLapses(k)
      PROVE  Motion
  BY <1>4 DEF KeyLapses, recordVars, Motion, Keep, PaymentInv, Maps
<1>5. QED
  BY <1>1, <1>2, <1>3, <1>4 DEF CreateStep

LEMMA CompletionMotion ==
    ASSUME PaymentInv, NEW p \in Ids, payment[p].status \in Open, CompleteInternal(p)
    PROVE  Motion
<1>1. PICK r, x : /\ payment' = [payment EXCEPT ![p] = r]
                  /\ PayOut(p, x)
  BY DEF CompleteInternal
<1>2. settled' = settled \cup {p} /\ UNCHANGED nextId
  BY DEF CompleteInternal, entryVars
<1>3. QED
  BY <1>1, <1>2, PaidTouch

LEMMA GiveBackMotion ==
    ASSUME PaymentInv, NEW p \in Ids, payment[p].status \in Open, NEW s, GiveBack(p, s),
           UNCHANGED <<nextId, settled>>
    PROVE  Motion
<1>1. payment' = [payment EXCEPT ![p] = [payment[p] EXCEPT !.status = s]]
  BY DEF GiveBack, SetStatus
<1>2. PayOut(p, payment[p].amount)
  BY DEF GiveBack
<1>3. QED
  BY <1>1, <1>2, PaidTouch

LEMMA SettleMotion ==
    ASSUME PaymentInv, NEW m, NEW batch \in Selection, SettleMerchantPayments(m, batch)
    PROVE  Motion
<1> DEFINE named == {batch[i] : i \in DOMAIN batch}
           more(p) == paid[p] + payment[p].amount
                        * Cardinality({i \in DOMAIN batch : batch[i] = p})
<1>1. /\ paid' = [p \in Ids |-> IF p \in named THEN more(p) ELSE paid[p]]
      /\ settled' = settled \cup named
      /\ \A i \in DOMAIN batch : Has(batch[i], "Completed") /\ batch[i] \notin settled
      /\ UNCHANGED <<payment, nextId>>
  BY DEF SettleMerchantPayments, entryVars
<1> HIDE DEF more
<1>2. \A q \in named : Has(q, "Completed") /\ q \notin settled
  BY <1>1
<1> HIDE DEF named
<1>3. Settling
  BY <1>1, <1>2 DEF Settling
<1>4. \E A : paid' \in [Ids -> A]
  <2>1. paid' \in [Ids -> {paid'[p] : p \in Ids}]
    BY <1>1
  <2>2. QED
    BY <2>1
<1>5. Maps'
  BY <1>1, <1>4 DEF Maps, PaymentInv
<1>6. QED
  BY <1>3, <1>5 DEF Motion

LEMMA PaymentMotion ==
    ASSUME PaymentInv, PaymentStep
    PROVE  Motion
<1>1. ASSUME NEW p \in Ids, CompletePayment(p)
      PROVE  Motion
  BY <1>1, CompletionMotion DEF CompletePayment, Has, Open
<1>2. ASSUME NEW p \in Ids, ExecuteScheduledPayment(p)
      PROVE  Motion
  BY <1>2, CompletionMotion DEF ExecuteScheduledPayment, Has, Open
<1>3. ASSUME NEW m \in Merchants, NEW batch \in Selection, SettleMerchantPayments(m, batch)
      PROVE  Motion
  BY <1>3, SettleMotion
<1>4. ASSUME NEW c \in Address, NEW p \in Ids, CancelScheduledPayment(c, p)
      PROVE  Motion
  BY <1>4, GiveBackMotion DEF CancelScheduledPayment, Has, Open, entryVars
<1>5. ASSUME NEW p \in Ids, ExpirePayment(p)
      PROVE  Motion
  BY <1>5, GiveBackMotion DEF ExpirePayment, Has, Open, entryVars
<1>6. ASSUME NEW p \in Ids, NEW x \in Portion, PartialRefund(p, x)
      PROVE  Motion
  <2>1. PICK r : payment' = [payment EXCEPT ![p] = r]
    BY <1>6 DEF PartialRefund
  <2>2. PayOut(p, x) /\ UNCHANGED <<nextId, settled>> /\ payment[p].status \in Open
    BY <1>6 DEF PartialRefund, Open, entryVars
  <2>3. QED
    BY <2>1, <2>2, PaidTouch
<1>7. ASSUME NEW c \in Address, NEW p \in Ids, DisputePayment(c, p)
      PROVE  Motion
  <2>1. payment' = [payment EXCEPT ![p] = [payment[p] EXCEPT !.status = "Disputed"]]
    BY <1>7 DEF DisputePayment, SetStatus
  <2>2. UNCHANGED <<paid, nextId, settled>> /\ payment[p].status \in Open
    BY <1>7 DEF DisputePayment, Has, Open, entryVars
  <2>3. QED
    BY <2>1, <2>2, UnpaidTouch
<1>8. ASSUME NEW p \in Ids, NEW release \in BOOLEAN, ResolveDispute(p, release)
      PROVE  Motion
  <2>1. payment[p].status \in Open /\ UNCHANGED nextId
    BY <1>8 DEF ResolveDispute, Has, Open, entryVars
  <2>2. CASE release
    <3>1. payment' = [payment EXCEPT ![p] = [payment[p] EXCEPT !.status = "Completed"]]
      BY <1>8, <2>2 DEF ResolveDispute, SetStatus
    <3>2. settled' = settled \ {p} /\ UNCHANGED paid
      BY <1>8, <2>2 DEF ResolveDispute
    <3>3. QED
      BY <2>1, <3>1, <3>2, UnpaidTouch
  <2>3. CASE ~release
    <3>1. GiveBack(p, "Refunded") /\ UNCHANGED settled
      BY <1>8, <2>3 DEF ResolveDispute
    <3>2. QED
      BY <2>1, <3>1, GiveBackMotion
  <2>4. QED
    BY <2>2, <2>3
<1>9. QED
  BY <1>1, <1>2, <1>3, <1>4, <1>5, <1>6, <1>7, <1>8 DEF PaymentStep

(* Subscriptions, settings, the pause and the clock leave payments alone. *)
LEMMA OtherStepsKeep ==
    ASSUME SubscriptionStep \/ ConfigStep \/ AdminStep \/ Tick \/ UNCHANGED vars
    PROVE  Keep
<1>1. CASE SubscriptionStep
  BY <1>1 DEF SubscriptionStep, CreateSubscription, ChargeSubscription, CancelSubscription,
              Keep, entryVars, recordVars
<1>2. CASE ConfigStep
  BY <1>2 DEF ConfigStep, UpdateFee, UpdateFeeTiers, UpdateRateLimitConfig,
              SetPaymentTimeout, SetMaxBatchSize, SetOracle, SetOpenMode, ApproveMerchant,
              RevokeMerchant, ChangeApproval, Keep, ledgerVars, entryVars, recordVars
<1>3. CASE AdminStep
  BY <1>3 DEF AdminStep, PauseContract, ResumeContract, Keep, ledgerVars, entryVars,
              recordVars
<1>4. CASE Tick
  BY <1>4 DEF Tick, Keep, ledgerVars, entryVars, recordVars
<1>5. CASE UNCHANGED vars
  BY <1>5 DEF vars, Keep, entryVars, recordVars
<1>6. QED
  BY <1>1, <1>2, <1>3, <1>4, <1>5

(* Every step does one of the four things to the payments. *)
LEMMA StepMovesPayments ==
    ASSUME PaymentInv, [Next]_vars
    PROVE  Motion
<1>1. CASE CreateStep
  BY <1>1, CreateMotion
<1>2. CASE PaymentStep
  BY <1>2, PaymentMotion
<1>3. CASE SubscriptionStep \/ ConfigStep \/ AdminStep \/ Tick \/ UNCHANGED vars
  <2>1. Keep
    BY <1>3, OtherStepsKeep
  <2>2. QED
    BY <2>1 DEF Motion, Keep, PaymentInv, Maps
<1>4. QED
  BY <1>1, <1>2, <1>3 DEF Next

-----------------------------------------------------------------------------
(* Finality *)

LEMMA InitPayments == Init => PaymentInv
<1>1. SUFFICES ASSUME Init
               PROVE  PaymentInv
  OBVIOUS
<1>2. payment = [p \in Ids |-> NoPayment] /\ paid = [p \in Ids |-> 0] /\ nextId = 0
  BY <1>1 DEF Init, InitLedger
<1>3. payment \in [Ids -> {NoPayment}] /\ paid \in [Ids -> {0}]
  BY <1>2
<1>4. \A p \in Ids : Has(p, "None")
  BY <1>2 DEF Has, NoPayment
<1>5. QED
  BY <1>2, <1>3, <1>4 DEF PaymentInv, Maps

LEMMA MotionKeepsPayments ==
    ASSUME PaymentInv, Motion
    PROVE  PaymentInv'
<1>1. Maps'
  BY DEF Motion
<1>2. CASE Keep \/ Settling
  BY <1>1, <1>2 DEF PaymentInv, Keep, Settling, Has
<1>3. CASE Add
  BY <1>1, <1>3 DEF PaymentInv, Add, Has, Ids
<1>4. ASSUME NEW p \in Ids, Touch(p)
      PROVE  PaymentInv'
  <2>1. ~(p >= nextId)
    BY <1>4 DEF Touch, PaymentInv, Has, Open
  <2>2. QED
    BY <1>1, <1>4, <2>1 DEF PaymentInv, Touch, Has
<1>5. QED
  BY <1>2, <1>3, <1>4 DEF Motion

ClosedStaysAt(p) ==
    payment[p].status \in Closed =>
        /\ payment'[p] = payment[p]
        /\ PaidOut(p) => paid'[p] = paid[p] /\ PaidOut(p)'

LEMMA MotionKeepsClosed ==
    ASSUME PaymentInv, Motion, NEW p \in Ids
    PROVE  ClosedStaysAt(p)
<1>1. SUFFICES ASSUME payment[p].status \in Closed
               PROVE  /\ payment'[p] = payment[p]
                      /\ PaidOut(p) => paid'[p] = paid[p] /\ PaidOut(p)'
  BY DEF ClosedStaysAt
<1>2. CASE Keep
  BY <1>2 DEF Keep, PaidOut, Has
<1>3. CASE Add
  <2>1. ~(p >= nextId)
    BY <1>1 DEF PaymentInv, Has, Closed
  <2>2. payment'[p] = payment[p]
    BY <1>3, <2>1 DEF Add, Ids, PaymentInv
  <2>3. QED
    BY <1>3, <2>2 DEF Add, PaidOut, Has
<1>4. CASE Settling
  BY <1>4 DEF Settling, PaidOut, Has
<1>5. ASSUME NEW q \in Ids, Touch(q)
      PROVE  /\ payment'[p] = payment[p]
             /\ PaidOut(p) => paid'[p] = paid[p] /\ PaidOut(p)'
  <2>1. p # q
    BY <1>1, <1>5 DEF Touch, Open, Closed
  <2>2. payment'[p] = payment[p] /\ paid'[p] = paid[p] /\ (p \in settled <=> p \in settled')
    BY <1>5, <2>1 DEF Touch
  <2>3. QED
    BY <2>2 DEF PaidOut, Has
<1>6. QED
  BY <1>2, <1>3, <1>4, <1>5 DEF Motion

(* A payment that is over stays as it is, and nothing leaves on its account *)
(* once it has been paid out: no order of completion, schedule, expiry,     *)
(* cancellation, decision and settlement ends a payment twice.              *)
THEOREM PaymentsEndOnce == Spec => ClosedStays
<1>1. Init => PaymentInv
  BY InitPayments
<1>2. PaymentInv /\ [Next]_vars => PaymentInv'
  BY StepMovesPayments, MotionKeepsPayments
<1>3. PaymentInv /\ [Next]_vars =>
        [\A p \in Ids : payment[p].status \in Closed =>
            /\ payment'[p] = payment[p]
            /\ PaidOut(p) => paid'[p] = paid[p] /\ PaidOut(p)']_vars
  BY StepMovesPayments, MotionKeepsClosed DEF ClosedStaysAt
<1>4. QED
  BY <1>1, <1>2, <1>3, PTL DEF Spec, ClosedStays

-----------------------------------------------------------------------------
(* What a pause freezes *)

Still ==
    UNCHANGED <<configVars, recordVars, completionVars, subVars, nextId, usage, taken, made>>

(* Of the calls that pay in none gets through; a key may be forgotten.      *)
LEMMA EntryWaits ==
    ASSUME CreateStep, paused
    PROVE  Still
<1>1. ASSUME NEW c \in Customers, NEW r \in Request, NEW s \in Split,
             NEW after \in ExecuteAfter, NEW k \in Key \cup {NoKey},
             CreatePayment(c, r, s, after, k)
      PROVE  Still
  BY <1>1 DEF CreatePayment
<1>2. ASSUME NEW c \in Customers, NEW r1 \in Request, NEW r2 \in Request,
             CreatePaymentsBatch(c, r1, r2)
      PROVE  Still
  BY <1>2 DEF CreatePaymentsBatch
<1>3. ASSUME NEW c \in Customers, NEW m \in Merchants, NEW x \in Amount, NEW t \in Token,
             NEW price \in Price, NEW slip \in Slippage,
             CreatePaymentMultiToken(c, m, x, t, price, slip)
      PROVE  Still
  BY <1>3 DEF CreatePaymentMultiToken
<1>4. ASSUME NEW k \in Key, KeyLapses(k)
      PROVE  Still
  BY <1>4 DEF KeyLapses, Still
<1>5. QED
  BY <1>1, <1>2, <1>3, <1>4 DEF CreateStep

LEMMA PaymentsWait ==
    ASSUME PaymentStep
    PROVE  ~paused
<1>1. ASSUME NEW p \in Ids, CompletePayment(p) \/ ExecuteScheduledPayment(p)
      PROVE  ~paused
  BY <1>1 DEF CompletePayment, ExecuteScheduledPayment
<1>2. ASSUME NEW m \in Merchants, NEW batch \in Selection, SettleMerchantPayments(m, batch)
      PROVE  ~paused
  BY <1>2 DEF SettleMerchantPayments
<1>3. ASSUME NEW c \in Address, NEW p \in Ids,
             CancelScheduledPayment(c, p) \/ DisputePayment(c, p)
      PROVE  ~paused
  BY <1>3 DEF CancelScheduledPayment, DisputePayment
<1>4. ASSUME NEW p \in Ids, ExpirePayment(p)
      PROVE  ~paused
  BY <1>4 DEF ExpirePayment
<1>5. ASSUME NEW p \in Ids, NEW x \in Portion, PartialRefund(p, x)
      PROVE  ~paused
  BY <1>5 DEF PartialRefund
<1>6. ASSUME NEW p \in Ids, NEW release \in BOOLEAN, ResolveDispute(p, release)
      PROVE  ~paused
  BY <1>6 DEF ResolveDispute
<1>7. QED
  BY <1>1, <1>2, <1>3, <1>4, <1>5, <1>6 DEF PaymentStep

LEMMA OthersWait ==
    ASSUME SubscriptionStep \/ ConfigStep
    PROVE  ~paused
<1>1. ASSUME SubscriptionStep
      PROVE  ~paused
  <2>1. ASSUME NEW q \in Plan, CreateSubscription(q)
        PROVE  ~paused
    BY <2>1 DEF CreateSubscription
  <2>2. ASSUME NEW s \in Subs, ChargeSubscription(s)
        PROVE  ~paused
    BY <2>2 DEF ChargeSubscription
  <2>3. ASSUME NEW c \in Address, NEW s \in Subs, CancelSubscription(c, s)
        PROVE  ~paused
    BY <2>3 DEF CancelSubscription
  <2>4. QED
    BY <1>1, <2>1, <2>2, <2>3 DEF SubscriptionStep
<1>2. ASSUME ConfigStep
      PROVE  ~paused
  <2>1. CASE \/ \E f \in FeeRate : UpdateFee(f)
             \/ \E s \in TierTable : UpdateFeeTiers(s)
             \/ \E l \in Limit : UpdateRateLimitConfig(l)
    BY <2>1 DEF UpdateFee, UpdateFeeTiers, UpdateRateLimitConfig
  <2>2. CASE \/ \E d \in Timeout : SetPaymentTimeout(d)
             \/ \E n \in BatchSize : SetMaxBatchSize(n)
             \/ \E t \in UsdcToken : SetOracle(t)
    BY <2>2 DEF SetPaymentTimeout, SetMaxBatchSize, SetOracle
  <2>3. CASE \/ \E open \in Mode : SetOpenMode(open)
             \/ \E m \in Vetted : ApproveMerchant(m)
             \/ \E m \in Vetted : RevokeMerchant(m)
    BY <2>3 DEF SetOpenMode, ApproveMerchant, RevokeMerchant, ChangeApproval
  <2>4. QED
    BY <1>2, <2>1, <2>2, <2>3 DEF ConfigStep
<1>3. QED
  BY <1>1, <1>2

(* While the contract is paused nothing moves but keys and the clock, for    *)
(* any settings, amounts and number of payments: every call asks.            *)
THEOREM PauseHoldsPayments == Spec => PauseFreezesPayments
<1>1. ASSUME [Next]_vars, paused, paused'
      PROVE  Still
  <2>1. CASE CreateStep
    BY <1>1, <2>1, EntryWaits
  <2>2. CASE PaymentStep
    BY <1>1, <2>2, PaymentsWait
  <2>3. CASE SubscriptionStep \/ ConfigStep
    BY <1>1, <2>3, OthersWait
  <2>4. CASE AdminStep
    BY <1>1, <2>4 DEF AdminStep, PauseContract, ResumeContract
  <2>5. CASE Tick
    BY <2>5 DEF Tick, Still, ledgerVars, entryVars
  <2>6. CASE UNCHANGED vars
    BY <2>6 DEF vars, Still, entryVars
  <2>7. QED
    BY <1>1, <2>1, <2>2, <2>3, <2>4, <2>5, <2>6 DEF Next
<1>2. [Next]_vars =>
        [paused /\ paused' =>
            UNCHANGED <<configVars, recordVars, completionVars, subVars,
                        nextId, usage, taken, made>>]_vars
  BY <1>1 DEF Still
<1>3. QED
  BY <1>2, PTL DEF Spec, PauseFreezesPayments

-----------------------------------------------------------------------------
(* The pace of subscriptions *)

SubscriptionRecord ==
    [subscriber : Address, merchant : Address, amount : Nat, token : Token \cup {AnyToken},
     interval : Nat, last : Nat, max : Nat, count : Nat,
     state : {"None", "Active", "Cancelled"}]

(* Pace alone is not inductive: a charged subscription must be known by its *)
(* last charge, which the code tells from none by not being zero.           *)
Paced(q, first) ==
    /\ q.count > 0 => q.last > 0 /\ q.last >= first + (q.count - 1) * q.interval
    /\ q.max > 0 => q.count <= q.max

PaceInv ==
    /\ now \in Nat \ {0} /\ nextSub \in Nat
    /\ subscription \in [Subs -> SubscriptionRecord]
    /\ started \in [Subs -> Nat]
    /\ \A s \in Subs : Paced(subscription[s], started[s])

LEMMA OneMoreInterval ==
    ASSUME NEW a \in Nat, NEW n \in Nat, NEW i \in Nat, NEW last \in Nat, NEW t \in Nat,
           last >= a + (n - 1) * i, t >= last + i
    PROVE  t >= a + ((n + 1) - 1) * i
<1>1. (n - 1) * i + i = n * i /\ (n - 1) * i \in Int /\ n * i \in Int
  OBVIOUS
<1>2. (n + 1) - 1 = n
  OBVIOUS
<1> DEFINE x == (n - 1) * i
           y == n * i
<1>3. x + i = y /\ x \in Int /\ y \in Int /\ last >= a + x
  BY <1>1
<1> HIDE DEF x, y
<1>4. t >= a + y
  BY <1>3
<1>5. QED
  BY <1>2, <1>4 DEF y

LEMMA OneSubscription ==
    ASSUME PaceInv, NEW s \in Subs, NEW q \in SubscriptionRecord, NEW first \in Nat,
           subscription' = [subscription EXCEPT ![s] = q],
           started' = [started EXCEPT ![s] = first],
           Paced(q, first),
           UNCHANGED now, nextSub' \in Nat
    PROVE  PaceInv'
<1>1. subscription' \in [Subs -> SubscriptionRecord] /\ started' \in [Subs -> Nat]
  BY DEF PaceInv
<1>2. \A r \in Subs \ {s} : subscription'[r] = subscription[r] /\ started'[r] = started[r]
  BY DEF PaceInv
<1>3. subscription'[s] = q /\ started'[s] = first
  BY DEF PaceInv
<1>4. \A r \in Subs : Paced(subscription'[r], started'[r])
  BY <1>2, <1>3 DEF PaceInv
<1>5. QED
  BY <1>1, <1>4 DEF PaceInv

LEMMA CreationPaced ==
    ASSUME PaceInv, NEW q \in Plan, CreateSubscription(q)
    PROVE  PaceInv'
<1> DEFINE r == [subscriber |-> q.subscriber, merchant |-> q.merchant, amount |-> q.amount,
                 token |-> q.token, interval |-> q.interval, last |-> 0, max |-> q.max,
                 count |-> 0, state |-> "Active"]
<1>1. nextSub \in Subs /\ nextSub' \in Nat /\ UNCHANGED <<now, started>>
  BY PaymentConstants DEF CreateSubscription, PaceInv, Subs
<1>2. subscription' = [subscription EXCEPT ![nextSub] = r]
  BY DEF CreateSubscription
<1>3. r \in SubscriptionRecord
  <2>1. /\ q.subscriber \in Address /\ q.merchant \in Address
        /\ q.amount \in Int /\ q.amount > 0 /\ q.token \in Token
        /\ q.interval \in Nat /\ q.max \in Nat
    BY PaymentConstants DEF CreateSubscription
  <2>2. QED
    BY <2>1 DEF SubscriptionRecord
<1>4. started[nextSub] \in Nat /\ started' = [started EXCEPT ![nextSub] = started[nextSub]]
  BY <1>1 DEF PaceInv
<1>5. Paced(r, started[nextSub])
  <2>1. r.count = 0 /\ r.max \in Nat
    BY <1>3 DEF SubscriptionRecord
  <2> HIDE DEF r
  <2>2. QED
    BY <2>1 DEF Paced
<1> HIDE DEF r
<1>6. QED
  BY <1>1, <1>2, <1>3, <1>4, <1>5, OneSubscription

LEMMA ChargePaced ==
    ASSUME PaceInv, NEW s \in Subs, ChargeSubscription(s)
    PROVE  PaceInv'
<1> DEFINE q == subscription[s]
           r == [q EXCEPT !.last = now, !.count = q.count + 1]
           first == IF q.count = 0 THEN now ELSE started[s]
<1>1. /\ q \in SubscriptionRecord /\ started[s] \in Nat /\ now \in Nat /\ now > 0
      /\ Paced(q, started[s])
  BY DEF PaceInv
<1>2. /\ q.max > 0 => q.count < q.max
      /\ q.last > 0 => now >= q.last + q.interval
      /\ UNCHANGED <<now, nextSub>>
  BY DEF ChargeSubscription, Due
<1>3. subscription' = [subscription EXCEPT ![s] = r]
  BY <1>1 DEF ChargeSubscription, PaceInv
<1>4. started' = [started EXCEPT ![s] = first]
  BY <1>1 DEF ChargeSubscription, PaceInv
<1> HIDE DEF q
<1>5. q.count \in Nat /\ q.interval \in Nat /\ q.max \in Nat /\ q.last \in Nat
  BY <1>1 DEF SubscriptionRecord
<1>6. /\ r \in SubscriptionRecord /\ r.last = now /\ r.count = q.count + 1
      /\ r.interval = q.interval /\ r.max = q.max
  <2> DEFINE n == q.count + 1
             z == [q EXCEPT !.last = now]
  <2>1. n \in Nat
    BY <1>5
  <2>2. z \in SubscriptionRecord /\ z.last = now /\ z.interval = q.interval /\ z.max = q.max
    BY <1>1 DEF SubscriptionRecord
  <2>3. r = [z EXCEPT !.count = n]
    OBVIOUS
  <2> HIDE DEF r, n, z
  <2>4. r \in SubscriptionRecord /\ r.last = now /\ r.count = n
        /\ r.interval = q.interval /\ r.max = q.max
    BY <2>1, <2>2, <2>3 DEF SubscriptionRecord
  <2>5. QED
    BY <2>4 DEF n
<1> HIDE DEF r
<1>7. first \in Nat
  BY <1>1
<1>8. now >= first + ((q.count + 1) - 1) * q.interval
  <2>1. CASE q.count = 0
    BY <1>1, <1>5, <2>1
  <2>2. CASE q.count # 0
    <3>1. q.last > 0 /\ q.last >= started[s] + (q.count - 1) * q.interval
      BY <1>1, <1>5, <2>2 DEF Paced
    <3>2. first = started[s]
      BY <2>2
    <3>3. QED
      BY <1>1, <1>2, <1>5, <3>1, <3>2, OneMoreInterval
  <2>3. QED
    BY <2>1, <2>2
<1> HIDE DEF first
<1>9. Paced(r, first)
  BY <1>1, <1>2, <1>5, <1>6, <1>8 DEF Paced
<1>10. nextSub' \in Nat
  BY <1>2 DEF PaceInv
<1>11. QED
  BY <1>2, <1>3, <1>4, <1>6, <1>7, <1>9, <1>10, OneSubscription

LEMMA CancellationPaced ==
    ASSUME PaceInv, NEW c, NEW s \in Subs, CancelSubscription(c, s)
    PROVE  PaceInv'
<1> DEFINE q == subscription[s]
           r == [q EXCEPT !.state = "Cancelled"]
<1>1. q \in SubscriptionRecord /\ started[s] \in Nat /\ Paced(q, started[s])
  BY DEF PaceInv
<1>2. subscription' = [subscription EXCEPT ![s] = r] /\ UNCHANGED <<now, nextSub, started>>
  BY DEF CancelSubscription
<1>3. started' = [started EXCEPT ![s] = started[s]] /\ nextSub' \in Nat
  BY <1>2 DEF PaceInv
<1> HIDE DEF q
<1>4. /\ r \in SubscriptionRecord /\ r.last = q.last /\ r.count = q.count
      /\ r.interval = q.interval /\ r.max = q.max
  BY <1>1 DEF SubscriptionRecord
<1> HIDE DEF r
<1>5. Paced(r, started[s])
  BY <1>1, <1>4 DEF Paced
<1>6. QED
  BY <1>1, <1>2, <1>3, <1>4, <1>5, OneSubscription

(* No other call touches subscriptions or the clock. *)
LEMMA OthersKeepSubscriptions ==
    ASSUME CreateStep \/ PaymentStep \/ ConfigStep \/ AdminStep \/ UNCHANGED vars
    PROVE  UNCHANGED <<now, subVars>>
<1>1. CASE CreateStep
  <2>1. ASSUME NEW c \in Customers, NEW r \in Request, NEW s \in Split,
               NEW after \in ExecuteAfter, NEW k \in Key \cup {NoKey},
               CreatePayment(c, r, s, after, k)
        PROVE  UNCHANGED <<now, subVars>>
    BY <2>1 DEF CreatePayment
  <2>2. ASSUME NEW c \in Customers, NEW r1 \in Request, NEW r2 \in Request,
               CreatePaymentsBatch(c, r1, r2)
        PROVE  UNCHANGED <<now, subVars>>
    BY <2>2 DEF CreatePaymentsBatch
  <2>3. ASSUME NEW c \in Customers, NEW m \in Merchants, NEW x \in Amount,
               NEW t \in Token, NEW price \in Price, NEW slip \in Slippage,
               CreatePaymentMultiToken(c, m, x, t, price, slip)
        PROVE  UNCHANGED <<now, subVars>>
    BY <2>3 DEF CreatePaymentMultiToken
  <2>4. ASSUME NEW k \in Key, KeyLapses(k)
        PROVE  UNCHANGED <<now, subVars>>
    BY <2>4 DEF KeyLapses
  <2>5. QED
    BY <1>1, <2>1, <2>2, <2>3, <2>4 DEF CreateStep
<1>2. CASE PaymentStep
  <2>1. ASSUME NEW p \in Ids, CompletePayment(p) \/ ExecuteScheduledPayment(p)
        PROVE  UNCHANGED <<now, subVars>>
    BY <2>1 DEF CompletePayment, ExecuteScheduledPayment, CompleteInternal
  <2>2. ASSUME NEW m \in Merchants, NEW batch \in Selection,
               SettleMerchantPayments(m, batch)
        PROVE  UNCHANGED <<now, subVars>>
    BY <2>2 DEF SettleMerchantPayments
  <2>3. ASSUME NEW c \in Address, NEW p \in Ids,
               CancelScheduledPayment(c, p) \/ DisputePayment(c, p)
        PROVE  UNCHANGED <<now, subVars>>
    BY <2>3 DEF CancelScheduledPayment, DisputePayment
  <2>4. ASSUME NEW p \in Ids, ExpirePayment(p)
        PROVE  UNCHANGED <<now, subVars>>
    BY <2>4 DEF ExpirePayment
  <2>5. ASSUME NEW p \in Ids, NEW x \in Portion, PartialRefund(p, x)
        PROVE  UNCHANGED <<now, subVars>>
    BY <2>5 DEF PartialRefund
  <2>6. ASSUME NEW p \in Ids, NEW release \in BOOLEAN, ResolveDispute(p, release)
        PROVE  UNCHANGED <<now, subVars>>
    BY <2>6 DEF ResolveDispute
  <2>7. QED
    BY <1>2, <2>1, <2>2, <2>3, <2>4, <2>5, <2>6 DEF PaymentStep
<1>3. CASE ConfigStep
  <2>1. UNCHANGED <<now, ledgerVars>>
    BY <1>3 DEF ConfigStep, UpdateFee, UpdateFeeTiers, UpdateRateLimitConfig,
       SetPaymentTimeout, SetMaxBatchSize, SetOracle, SetOpenMode, ApproveMerchant,
       RevokeMerchant, ChangeApproval
  <2>2. QED
    BY <2>1 DEF ledgerVars
<1>4. CASE AdminStep
  BY <1>4 DEF AdminStep, PauseContract, ResumeContract, ledgerVars
<1>5. CASE UNCHANGED vars
  BY <1>5 DEF vars
<1>6. QED
  BY <1>1, <1>2, <1>3, <1>4, <1>5

(* Whatever the interval, the terms and the moments at which anybody asks    *)
(* for a charge: n charges of a subscription span at least n - 1 intervals,  *)
(* and there are never more than the subscriber signed for.                  *)
THEOREM SubscriptionsArePaced == Spec => []ChargesPaced
<1>1. Init => PaceInv
  <2>1. SUFFICES ASSUME Init
                 PROVE  PaceInv
    OBVIOUS
  <2>2. /\ subscription = [s \in Subs |-> NoSubscription]
        /\ started = [s \in Subs |-> 0] /\ nextSub = 0 /\ now = Genesis
    BY <2>1 DEF Init, InitSubs
  <2>3. NoSubscription \in SubscriptionRecord
    BY PaymentConstants DEF NoSubscription, SubscriptionRecord
  <2>4. NoSubscription.count = 0 /\ NoSubscription.max = 0
    BY DEF NoSubscription
  <2>5. QED
    BY <2>2, <2>3, <2>4, PaymentConstants DEF PaceInv, Paced
<1>2. ASSUME PaceInv, [Next]_vars
      PROVE  PaceInv'
  <2>1. CASE CreateStep \/ PaymentStep \/ ConfigStep \/ AdminStep \/ UNCHANGED vars
    <3>1. UNCHANGED <<now, subscription, started, nextSub>>
      BY <2>1, OthersKeepSubscriptions DEF subVars
    <3>2. QED
      BY <1>2, <3>1 DEF PaceInv
  <2>2. CASE SubscriptionStep
    BY <1>2, <2>2, CreationPaced, ChargePaced, CancellationPaced DEF SubscriptionStep
  <2>3. CASE Tick
    <3>1. now' = now + 1 /\ UNCHANGED <<subscription, started, nextSub>>
      BY <2>3 DEF Tick, ledgerVars, subVars
    <3>2. QED
      BY <1>2, <3>1 DEF PaceInv
  <2>4. QED
    BY <1>2, <2>1, <2>2, <2>3 DEF Next
<1>3. PaceInv => ChargesPaced
  BY DEF PaceInv, Paced, ChargesPaced
<1>4. QED
  BY <1>1, <1>2, <1>3, PTL DEF Spec

-----------------------------------------------------------------------------
(* Idempotency keys *)

(* Payments carry the time of their creation; of the other fields nothing   *)
(* is needed.                                                               *)
PaymentOver(A) ==
    [customer : A, merchant : A, amount : A, token : A, status : A,
     createdAt : Nat, expiresAt : A, refunded : A, split : A, executeAfter : A]

PaymentsShaped == \E A : payment \in [Ids -> PaymentOver(A)]

(* The payment last made under a key holds it until the life of the key is  *)
(* over: whoever made a payment under it before lost the key for age.       *)
KeyInv ==
    /\ PaymentsShaped
    /\ now \in Nat /\ nextId \in Nat
    /\ keyOf \in [Key -> Ids \cup {None}]
    /\ made \in [Ids -> Key \cup {NoKey}]
    /\ \A p \in Ids : p >= nextId => made[p] = NoKey
    /\ \A p \in Ids : made[p] # NoKey =>
          keyOf[made[p]] = p \/ now >= payment[p].createdAt + KeyLife
    /\ KeyMakesOne

(* A step that gives no key and takes none. *)
KeysStay ==
    /\ PaymentsShaped'
    /\ now' \in Nat /\ now' >= now
    /\ nextId' \in Nat /\ nextId' >= nextId
    /\ UNCHANGED <<keyOf, made>>
    /\ \A p \in Ids : p < nextId => payment'[p].createdAt = payment[p].createdAt

LEMMA ShapeWidens ==
    ASSUME NEW A, NEW B
    PROVE  PaymentOver(A) \subseteq PaymentOver(A \cup B)
BY DEF PaymentOver

LEMMA OneShapedChanges ==
    ASSUME PaymentsShaped, NEW p \in Ids, NEW B, NEW x \in PaymentOver(B),
           payment' = [payment EXCEPT ![p] = x]
    PROVE  /\ PaymentsShaped'
           /\ payment'[p] = x
           /\ \A q \in Ids \ {p} : payment'[q] = payment[q]
<1>1. PICK A : payment \in [Ids -> PaymentOver(A)]
  BY DEF PaymentsShaped
<1>2. PaymentOver(A) \subseteq PaymentOver(A \cup B) /\ x \in PaymentOver(A \cup B)
  <2>1. PaymentOver(B) \subseteq PaymentOver(B \cup A) /\ B \cup A = A \cup B
    BY ShapeWidens
  <2>2. QED
    BY <2>1, ShapeWidens
<1>3. payment' \in [Ids -> PaymentOver(A \cup B)]
  BY <1>1, <1>2
<1>4. QED
  BY <1>1, <1>3 DEF PaymentsShaped

LEMMA RecordShaped ==
    ASSUME NEW c, NEW r, NEW split, NEW after, now \in Nat
    PROVE  /\ \E B : Record(c, r, split, after) \in PaymentOver(B)
           /\ Record(c, r, split, after).createdAt = now
<1> DEFINE x == Record(c, r, split, after)
           B == {x.customer, x.merchant, x.amount, x.token, x.status, x.expiresAt,
                 x.refunded, x.split, x.executeAfter}
<1>1. x \in PaymentOver(B)
  BY DEF Record, PaymentOver
<1>2. x.createdAt = now
  BY DEF Record
<1>3. QED
  BY <1>1, <1>2

(* Changes of status, amount and refunds leave the creation time alone. *)
DatedLike(f, g, B) ==
    /\ f \in [Ids -> PaymentOver(B)]
    /\ \A q \in Ids : f[q].createdAt = g[q].createdAt

LEMMA OneFieldChanges ==
    ASSUME NEW g, NEW B, NEW f, DatedLike(f, g, B), NEW p \in Ids, NEW v \in B
    PROVE  /\ DatedLike([f EXCEPT ![p].status = v], g, B)
           /\ DatedLike([f EXCEPT ![p].amount = v], g, B)
           /\ DatedLike([f EXCEPT ![p].refunded = v], g, B)
<1>1. DatedLike([f EXCEPT ![p].status = v], g, B)
  BY DEF DatedLike, PaymentOver
<1>2. DatedLike([f EXCEPT ![p].amount = v], g, B)
  BY DEF DatedLike, PaymentOver
<1>3. DatedLike([f EXCEPT ![p].refunded = v], g, B)
  BY DEF DatedLike, PaymentOver
<1>4. QED
  BY <1>1, <1>2, <1>3

LEMMA AlteringKeepsDates ==
    ASSUME PaymentsShaped, NEW p \in Ids, NEW a, NEW s, NEW b,
           \/ payment' = [payment EXCEPT ![p].status = s]
           \/ payment' = [payment EXCEPT ![p].status = s, ![p].amount = a]
           \/ payment' = [payment EXCEPT ![p].refunded = b, ![p].status = s]
    PROVE  /\ PaymentsShaped'
           /\ \A q \in Ids : payment'[q].createdAt = payment[q].createdAt
<1>1. PICK A : payment \in [Ids -> PaymentOver(A)]
  BY DEF PaymentsShaped
<1> DEFINE B == A \cup {a, s, b}
           x == [payment EXCEPT ![p].status = s]
           y == [payment EXCEPT ![p].refunded = b]
<1>2. DatedLike(payment, payment, B) /\ a \in B /\ s \in B /\ b \in B
  BY <1>1, ShapeWidens DEF DatedLike
<1> HIDE DEF B
<1>3. DatedLike(x, payment, B) /\ DatedLike(y, payment, B)
  BY <1>2, OneFieldChanges
<1>4. \/ payment' = x
      \/ payment' = [x EXCEPT ![p].amount = a]
      \/ payment' = [y EXCEPT ![p].status = s]
  OBVIOUS
<1> HIDE DEF x, y
<1>5. /\ DatedLike([x EXCEPT ![p].amount = a], payment, B)
      /\ DatedLike([y EXCEPT ![p].status = s], payment, B)
  BY <1>2, <1>3, OneFieldChanges
<1>6. DatedLike(payment', payment, B)
  BY <1>3, <1>4, <1>5
<1>7. QED
  BY <1>6 DEF DatedLike, PaymentsShaped

(* Completion, settlement, refunds, expiry and disputes. *)
LEMMA PaymentsKeepDates ==
    ASSUME PaymentsShaped, PaymentStep
    PROVE  /\ PaymentsShaped'
           /\ \A q \in Ids : payment'[q].createdAt = payment[q].createdAt
           /\ UNCHANGED <<now, entryVars>>
<1>1. ASSUME NEW p \in Ids, CompletePayment(p) \/ ExecuteScheduledPayment(p)
      PROVE  /\ PaymentsShaped'
             /\ \A q \in Ids : payment'[q].createdAt = payment[q].createdAt
             /\ UNCHANGED <<now, entryVars>>
  <2>1. /\ \E a : payment' = [payment EXCEPT ![p].status = "Completed", ![p].amount = a]
        /\ UNCHANGED <<now, entryVars>>
    BY <1>1 DEF CompletePayment, ExecuteScheduledPayment, CompleteInternal
  <2>2. QED
    BY <2>1, AlteringKeepsDates
<1>2. ASSUME NEW m \in Merchants, NEW batch \in Selection,
             SettleMerchantPayments(m, batch)
      PROVE  UNCHANGED <<now, entryVars, payment>>
  BY <1>2 DEF SettleMerchantPayments
<1>3. ASSUME NEW p \in Ids, NEW c \in Address, NEW release \in BOOLEAN,
             \/ CancelScheduledPayment(c, p) \/ ExpirePayment(p)
             \/ DisputePayment(c, p) \/ ResolveDispute(p, release)
      PROVE  /\ PaymentsShaped'
             /\ \A q \in Ids : payment'[q].createdAt = payment[q].createdAt
             /\ UNCHANGED <<now, entryVars>>
  <2>1. /\ \E s : payment' = [payment EXCEPT ![p].status = s]
        /\ UNCHANGED <<now, entryVars>>
    BY <1>3 DEF CancelScheduledPayment, ExpirePayment, DisputePayment, ResolveDispute,
                GiveBack, SetStatus
  <2>2. QED
    BY <2>1, AlteringKeepsDates
<1>4. ASSUME NEW p \in Ids, NEW x \in Portion, PartialRefund(p, x)
      PROVE  /\ PaymentsShaped'
             /\ \A q \in Ids : payment'[q].createdAt = payment[q].createdAt
             /\ UNCHANGED <<now, entryVars>>
  <2>1. /\ \E b, s : payment' = [payment EXCEPT ![p].refunded = b, ![p].status = s]
        /\ UNCHANGED <<now, entryVars>>
    BY <1>4 DEF PartialRefund
  <2>2. QED
    BY <2>1, AlteringKeepsDates
<1>5. CASE UNCHANGED <<now, entryVars, payment>>
  BY <1>5 DEF PaymentsShaped
<1>6. Admin \in Address
  BY PaymentConstants
<1>7. QED
  BY <1>1, <1>2, <1>3, <1>4, <1>5, <1>6 DEF PaymentStep

LEMMA PaymentsKeepKeys == KeyInv /\ PaymentStep => KeysStay
BY PaymentsKeepDates DEF KeysStay, KeyInv, entryVars

LEMMA OthersKeepKeys ==
    ASSUME KeyInv, SubscriptionStep \/ ConfigStep \/ AdminStep \/ Tick \/ UNCHANGED vars
    PROVE  KeysStay
<1>1. UNCHANGED <<payment, nextId, keyOf, made>>
  <2>1. CASE SubscriptionStep
    BY <2>1 DEF SubscriptionStep, CreateSubscription, ChargeSubscription,
                CancelSubscription, entryVars, recordVars
  <2>2. CASE ConfigStep
    BY <2>2 DEF ConfigStep, UpdateFee, UpdateFeeTiers, UpdateRateLimitConfig,
                SetPaymentTimeout, SetMaxBatchSize, SetOracle, SetOpenMode,
                ApproveMerchant, RevokeMerchant, ChangeApproval, ledgerVars, entryVars,
                recordVars
  <2>3. CASE AdminStep \/ Tick
    BY <2>3 DEF AdminStep, PauseContract, ResumeContract, Tick, ledgerVars, entryVars,
                recordVars
  <2>4. CASE UNCHANGED vars
    BY <2>4 DEF vars, entryVars, recordVars
  <2>5. QED
    BY <2>1, <2>2, <2>3, <2>4
<1>2. now' = now \/ now' = now + 1
  <2>1. CASE SubscriptionStep
    BY <2>1 DEF SubscriptionStep, CreateSubscription, ChargeSubscription,
                CancelSubscription
  <2>2. CASE ConfigStep
    BY <2>2 DEF ConfigStep, UpdateFee, UpdateFeeTiers, UpdateRateLimitConfig,
                SetPaymentTimeout, SetMaxBatchSize, SetOracle, SetOpenMode,
                ApproveMerchant, RevokeMerchant, ChangeApproval
  <2>3. CASE AdminStep \/ Tick \/ UNCHANGED vars
    BY <2>3 DEF AdminStep, PauseContract, ResumeContract, Tick, vars
  <2>4. QED
    BY <2>1, <2>2, <2>3
<1>3. QED
  BY <1>1, <1>2 DEF KeysStay, KeyInv, PaymentsShaped

(* The next payment, whatever it is made under. *)
LEMMA StoreShaped ==
    ASSUME KeyInv, NEW B, NEW rec \in PaymentOver(B), NEW given, NEW key, NEW multi,
           Store(rec, given, key, multi)
    PROVE  /\ PaymentsShaped'
           /\ nextId \in Ids /\ nextId' = nextId + 1
           /\ payment'[nextId] = rec
           /\ \A q \in Ids \ {nextId} : payment'[q] = payment[q]
           /\ made' = [made EXCEPT ![nextId] = key]
<1>1. /\ nextId \in Ids /\ nextId' = nextId + 1
      /\ payment' = [payment EXCEPT ![nextId] = rec]
      /\ made' = [made EXCEPT ![nextId] = key]
  BY PaymentConstants DEF Store, KeyInv, Ids
<1>2. QED
  BY <1>1, OneShapedChanges DEF KeyInv

LEMMA BatchKeepsKeys ==
    ASSUME KeyInv, NEW c, NEW r1, NEW r2, CreatePaymentsBatch(c, r1, r2)
    PROVE  KeysStay
<1> DEFINE x1 == Record(c, r1, <<>>, 0)
           x2 == Record(c, r2, <<>>, 0)
<1>1. nextId \in Ids /\ nextId + 1 \in Ids /\ nextId \in Nat /\ nextId' = nextId + 2
  BY PaymentConstants DEF CreatePaymentsBatch, KeyInv, Ids
<1>2. /\ payment' = [payment EXCEPT ![nextId] = x1, ![nextId + 1] = x2]
      /\ UNCHANGED <<now, keyOf, made>>
  BY DEF CreatePaymentsBatch
<1>3. \E B : x1 \in PaymentOver(B)
  BY RecordShaped DEF KeyInv
<1>4. \E B : x2 \in PaymentOver(B)
  BY RecordShaped DEF KeyInv
<1> HIDE DEF x1, x2
<1>5. PICK A : payment \in [Ids -> PaymentOver(A)]
  BY DEF KeyInv, PaymentsShaped
<1>6. PICK B1 : x1 \in PaymentOver(B1)
  BY <1>3
<1>7. PICK B2 : x2 \in PaymentOver(B2)
  BY <1>4
<1>8. /\ x1 \in PaymentOver(A \cup B1 \cup B2)
      /\ x2 \in PaymentOver(A \cup B1 \cup B2)
      /\ \A q \in Ids : payment[q] \in PaymentOver(A \cup B1 \cup B2)
  BY <1>5, <1>6, <1>7 DEF PaymentOver
<1>9. payment' \in [Ids -> PaymentOver(A \cup B1 \cup B2)]
  BY <1>1, <1>2, <1>5, <1>8
<1>10. \A q \in Ids : q < nextId => payment'[q] = payment[q]
  BY <1>1, <1>2, <1>5 DEF Ids
<1>11. PaymentsShaped'
  BY <1>9 DEF PaymentsShaped
<1>12. /\ now' \in Nat /\ now' >= now
       /\ nextId' \in Nat /\ nextId' >= nextId
  BY <1>1, <1>2 DEF KeyInv
<1>13. UNCHANGED <<keyOf, made>>
  BY <1>2
<1>14. QED
  BY <1>10, <1>11, <1>12, <1>13 DEF KeysStay

LEMMA MultiKeepsKeys ==
    ASSUME KeyInv, NEW c, NEW m, NEW x, NEW t, NEW price, NEW slip,
           CreatePaymentMultiToken(c, m, x, t, price, slip)
    PROVE  KeysStay
<1>1. PICK r, given : /\ Store(Record(c, r, <<>>, 0), given, NoKey, TRUE)
                      /\ UNCHANGED <<now, keyOf>>
  BY DEF CreatePaymentMultiToken
<1> DEFINE rec == Record(c, r, <<>>, 0)
<1>a. Store(rec, given, NoKey, TRUE)
  BY <1>1
<1>b. PICK B : rec \in PaymentOver(B)
  BY RecordShaped DEF KeyInv
<1> HIDE DEF rec
<1>2. /\ PaymentsShaped'
      /\ nextId \in Ids /\ nextId' = nextId + 1
      /\ \A q \in Ids \ {nextId} : payment'[q] = payment[q]
      /\ made' = [made EXCEPT ![nextId] = NoKey]
  BY <1>a, <1>b, StoreShaped
<1>3. made[nextId] = NoKey
  BY <1>2 DEF KeyInv, Ids
<1>4. made' = made
  BY <1>2, <1>3 DEF KeyInv
<1>5. QED
  BY <1>1, <1>2, <1>4 DEF KeysStay, KeyInv, Ids

LEMMA StayingKeys ==
    ASSUME KeyInv, KeysStay
    PROVE  KeyInv'
<1>1. \A p \in Ids : made[p] # NoKey => payment'[p].createdAt = payment[p].createdAt
  BY DEF KeyInv, KeysStay, Ids
<1>2. \A p \in Ids : payment[p].createdAt \in Nat
  BY DEF KeyInv, PaymentsShaped, PaymentOver
<1>3. KeyMakesOne'
  BY <1>1 DEF KeyInv, KeysStay, KeyMakesOne
<1>4. \A p \in Ids : p >= nextId' => made[p] = NoKey
  BY DEF KeyInv, KeysStay, Ids
<1>5. \A p \in Ids : made[p] # NoKey =>
         keyOf[made[p]] = p \/ now' >= payment'[p].createdAt + KeyLife
  BY <1>1, <1>2, PaymentConstants DEF KeyInv, KeysStay
<1>6. QED
  BY <1>3, <1>4, <1>5 DEF KeyInv, KeysStay

LEMMA CreationKeys ==
    ASSUME KeyInv, NEW c, NEW r, NEW split, NEW after, NEW k \in Key \cup {NoKey},
           CreatePayment(c, r, split, after, k)
    PROVE  KeyInv'
<1> DEFINE rec == Record(c, r, split, after)
<1>a. Store(rec, r, k, FALSE)
  BY DEF CreatePayment
<1>b. PICK B : rec \in PaymentOver(B)
  BY RecordShaped DEF KeyInv
<1>c. rec.createdAt = now
  BY RecordShaped DEF KeyInv
<1> HIDE DEF rec
<1>1. /\ k # NoKey => keyOf[k] = None
      /\ keyOf' = IF k = NoKey THEN keyOf ELSE [keyOf EXCEPT ![k] = nextId]
      /\ now' = now
  BY DEF CreatePayment
<1>2. /\ PaymentsShaped'
      /\ nextId \in Ids /\ nextId' = nextId + 1
      /\ payment'[nextId].createdAt = now
      /\ \A q \in Ids \ {nextId} : payment'[q] = payment[q]
      /\ made' = [made EXCEPT ![nextId] = k]
  BY <1>a, <1>b, <1>c, StoreShaped
<1>3. /\ now \in Nat /\ nextId \in Nat
      /\ keyOf \in [Key -> Ids \cup {None}] /\ made \in [Ids -> Key \cup {NoKey}]
      /\ None \notin Ids /\ NoKey \notin Key
      /\ made[nextId] = NoKey
  BY <1>2, PaymentConstants DEF KeyInv, Ids
<1>4. /\ made'[nextId] = k
      /\ \A q \in Ids \ {nextId} : made'[q] = made[q]
      /\ made' \in [Ids -> Key \cup {NoKey}]
  BY <1>2, <1>3
<1>5. /\ keyOf' \in [Key -> Ids \cup {None}]
      /\ k # NoKey => keyOf'[k] = nextId
      /\ \A j \in Key \ {k} : keyOf'[j] = keyOf[j]
  BY <1>1, <1>2, <1>3
<1>6. \A p \in Ids \ {nextId} : k # NoKey /\ made[p] = k =>
         now >= payment[p].createdAt + KeyLife
  BY <1>1, <1>3 DEF KeyInv
<1>7. \A p \in Ids : made'[p] # NoKey =>
         keyOf'[made'[p]] = p \/ now >= payment'[p].createdAt + KeyLife
  <2> SUFFICES ASSUME NEW p \in Ids, made'[p] # NoKey
               PROVE  keyOf'[made'[p]] = p \/ now >= payment'[p].createdAt + KeyLife
    OBVIOUS
  <2>1. CASE p = nextId
    BY <1>4, <1>5, <2>1
  <2>2. CASE p # nextId /\ made[p] = k
    BY <1>2, <1>4, <1>6, <2>2
  <2>3. CASE p # nextId /\ made[p] # k
    <3>1. /\ made'[p] = made[p] /\ payment'[p] = payment[p]
          /\ made[p] \in Key \ {k}
      BY <1>2, <1>3, <1>4, <2>3
    <3>2. keyOf'[made[p]] = keyOf[made[p]]
      BY <1>5, <3>1
    <3>3. made[p] # NoKey
      BY <3>1
    <3>4. keyOf[made[p]] = p \/ now >= payment[p].createdAt + KeyLife
      BY <3>3 DEF KeyInv
    <3>5. QED
      BY <3>1, <3>2, <3>4
  <2>4. QED
    BY <2>1, <2>2, <2>3
<1>8. \A p \in Ids : p >= nextId' => made'[p] = NoKey
  BY <1>2, <1>3, <1>4 DEF KeyInv, Ids
<1>9. KeyMakesOne'
  <2> SUFFICES ASSUME NEW p \in Ids, NEW q \in Ids,
                      p < q, made'[p] # NoKey, made'[p] = made'[q]
               PROVE  payment'[q].createdAt >= payment'[p].createdAt + KeyLife
    BY DEF KeyMakesOne
  <2>1. p # nextId
    <3>1. CASE q = nextId
      BY <3>1 DEF Ids
    <3>2. CASE q # nextId
      BY <1>3, <1>4, <3>2 DEF KeyInv, Ids
    <3>3. QED
      BY <3>1, <3>2
  <2>2. payment'[p] = payment[p] /\ made'[p] = made[p]
    BY <1>2, <1>4, <2>1
  <2>3. CASE q = nextId
    BY <1>2, <1>4, <1>6, <2>1, <2>2, <2>3
  <2>4. CASE q # nextId
    <3>1. payment'[q] = payment[q] /\ made'[q] = made[q]
      BY <1>2, <1>4, <2>4
    <3>2. QED
      BY <2>2, <3>1 DEF KeyInv, KeyMakesOne
  <2>5. QED
    BY <2>3, <2>4
<1>10. QED
  BY <1>1, <1>2, <1>3, <1>4, <1>5, <1>7, <1>8, <1>9 DEF KeyInv

LEMMA LapseKeys ==
    ASSUME KeyInv, NEW k \in Key, KeyLapses(k)
    PROVE  KeyInv'
<1>1. /\ keyOf[k] # None /\ now >= payment[keyOf[k]].createdAt + KeyLife
      /\ keyOf' = [keyOf EXCEPT ![k] = None]
      /\ UNCHANGED <<now, payment, nextId, made>>
  BY DEF KeyLapses, recordVars
<1>2. keyOf \in [Key -> Ids \cup {None}] /\ keyOf' \in [Key -> Ids \cup {None}]
  BY <1>1 DEF KeyInv
<1>3. \A p \in Ids : made[p] # NoKey =>
         keyOf'[made[p]] = p \/ now >= payment[p].createdAt + KeyLife
  <2> SUFFICES ASSUME NEW p \in Ids, made[p] # NoKey
               PROVE  keyOf'[made[p]] = p \/ now >= payment[p].createdAt + KeyLife
    OBVIOUS
  <2>1. keyOf[made[p]] = p \/ now >= payment[p].createdAt + KeyLife
    BY DEF KeyInv
  <2>2. made[p] \in Key
    BY DEF KeyInv
  <2>3. CASE made[p] = k
    BY <1>1, <2>1, <2>3
  <2>4. CASE made[p] # k
    BY <1>1, <1>2, <2>1, <2>2, <2>4
  <2>5. QED
    BY <2>3, <2>4
<1>4. KeyMakesOne'
  BY <1>1 DEF KeyInv, KeyMakesOne
<1>5. QED
  BY <1>1, <1>2, <1>3, <1>4 DEF KeyInv, PaymentsShaped

(* Whoever repeats a call under the same key, before or after the payment    *)
(* is over: two payments under one key lie at least the life of the key      *)
(* apart.                                                                    *)
THEOREM KeysMakeOne == Spec => []KeyMakesOne
<1>1. Init => KeyInv
  <2> SUFFICES ASSUME Init
               PROVE  KeyInv
    OBVIOUS
  <2> DEFINE A == {Admin, 0, AnyToken, "None", <<>>}
  <2>1. /\ payment = [p \in Ids |-> NoPayment] /\ nextId = 0 /\ now = Genesis
        /\ keyOf = [k \in Key |-> None] /\ made = [p \in Ids |-> NoKey]
    BY DEF Init, InitLedger
  <2>2. NoPayment \in PaymentOver(A)
    BY DEF NoPayment, PaymentOver
  <2> HIDE DEF A
  <2>3. PaymentsShaped
    BY <2>1, <2>2 DEF PaymentsShaped
  <2>4. QED
    BY <2>1, <2>3, PaymentConstants DEF KeyInv, KeyMakesOne
<1>2. ASSUME KeyInv, [Next]_vars
      PROVE  KeyInv'
  <2>1. CASE CreateStep
    BY <1>2, <2>1, CreationKeys, BatchKeepsKeys, MultiKeepsKeys, LapseKeys, StayingKeys
       DEF CreateStep
  <2>2. CASE PaymentStep
    BY <1>2, <2>2, PaymentsKeepKeys, StayingKeys
  <2>3. CASE SubscriptionStep \/ ConfigStep \/ AdminStep \/ Tick \/ UNCHANGED vars
    BY <1>2, <2>3, OthersKeepKeys, StayingKeys
  <2>4. QED
    BY <1>2, <2>1, <2>2, <2>3 DEF Next
<1>3. KeyInv => KeyMakesOne
  BY DEF KeyInv
<1>4. QED
  BY <1>1, <1>2, <1>3, PTL DEF Spec

-----------------------------------------------------------------------------
(* The types *)

TakenType == [token : Token, amount : Nat, owed : Nat, multi : BOOLEAN]

ClockTyped == now \in Genesis .. MaxTime /\ paused \in BOOLEAN

ConfigTyped ==
    /\ feeBps \in 0 .. MaxFeeBps /\ feeTiers \in Seq(TierType) /\ ValidTiers(feeTiers)
    /\ timeout \in Nat \ {0} /\ limit \in LimitType /\ maxBatch \in Nat \ {0}
    /\ openMode \in BOOLEAN /\ approved \subseteq Merchants
    /\ usdc \in Token \cup {None}

EntryTyped ==
    /\ keyOf \in [Key -> Ids \cup {None}]
    /\ usage \in [Customers -> [count : Nat, start : Nat]]
    /\ taken \in [Ids -> TakenType]

(* A payment is stored under each identifier given out, for a merchant that *)
(* is paid and with shares that add up; none under those ahead.             *)
PaymentsTyped ==
    /\ nextId \in 0 .. MaxPayments
    /\ payment \in [Ids -> PaymentType]
    /\ \A p \in Ids : p < nextId <=> payment[p].status # "None"
    /\ \A p \in Ids : p < nextId => /\ payment[p].merchant \in Merchants
                                    /\ ValidSplit(payment[p].split)

RecordsTyped ==
    /\ settled \subseteq In({"Completed"})
    /\ dispute \in [Ids -> {"None", "Raised", "Resolved"}]

MoneyTyped ==
    /\ stats \in StatsType
    /\ balance \in [Token -> Nat]
    /\ paid \in [Ids -> Nat]

CompletionTyped ==
    /\ receipt \in [Ids -> 0 .. MaxTime]
    /\ volume \in [Merchants -> [Buckets -> Nat]]

SubsTyped == nextSub \in 0 .. MaxSubscriptions /\ subscription \in [Subs -> SubscriptionType]

Typed ==
    /\ ClockTyped /\ ConfigTyped /\ EntryTyped /\ PaymentsTyped /\ RecordsTyped
    /\ MoneyTyped /\ CompletionTyped /\ SubsTyped

LEMMA TypedIsTypeOK == Typed => TypeOK
BY DEF Typed, TypeOK, ClockTyped, ConfigTyped, EntryTyped, PaymentsTyped, RecordsTyped,
       MoneyTyped, CompletionTyped, SubsTyped, Has

(* What a call leaves alone keeps its type.                                 *)
LEMMA UnchangedTyped ==
    ASSUME Typed
    PROVE  /\ UNCHANGED <<now, paused>> => ClockTyped'
           /\ UNCHANGED configVars => ConfigTyped'
           /\ UNCHANGED <<keyOf, usage, taken>> => EntryTyped'
           /\ UNCHANGED <<nextId, payment>> => PaymentsTyped'
           /\ UNCHANGED <<payment, settled, dispute>> => RecordsTyped'
           /\ UNCHANGED <<stats, balance, paid>> => MoneyTyped'
           /\ UNCHANGED completionVars => CompletionTyped'
           /\ UNCHANGED subVars => SubsTyped'
<1>1. UNCHANGED <<now, paused>> => ClockTyped'
  BY DEF Typed, ClockTyped
<1>2. UNCHANGED configVars => ConfigTyped'
  BY DEF Typed, ConfigTyped, configVars, ValidTiers
<1>3. UNCHANGED <<keyOf, usage, taken>> => EntryTyped'
  BY DEF Typed, EntryTyped
<1>4. UNCHANGED <<nextId, payment>> => PaymentsTyped'
  BY DEF Typed, PaymentsTyped, ValidSplit
<1>5. UNCHANGED <<payment, settled, dispute>> => RecordsTyped'
  BY DEF Typed, RecordsTyped, In
<1>6. UNCHANGED <<stats, balance, paid>> => MoneyTyped'
  BY DEF Typed, MoneyTyped
<1>7. UNCHANGED completionVars => CompletionTyped'
  BY DEF Typed, CompletionTyped, completionVars
<1>8. UNCHANGED subVars => SubsTyped'
  BY DEF Typed, SubsTyped, subVars
<1>9. QED
  BY <1>1, <1>2, <1>3, <1>4, <1>5, <1>6, <1>7, <1>8

LEMMA InitTyped == Init => Typed
<1>1. SUFFICES ASSUME Init
               PROVE  Typed
  OBVIOUS
<1>2. AnyToken \in Token
  BY PaymentConstants DEF AnyToken
<1>3. ClockTyped
  <2>1. Genesis \in Nat /\ MaxTime \in Nat /\ Genesis <= MaxTime
    BY PaymentConstants
  <2>2. now = Genesis /\ paused \in BOOLEAN
    BY <1>1 DEF Init
  <2>3. QED
    BY <2>1, <2>2 DEF ClockTyped
<1>4. ConfigTyped
  <2>1. FirstFee \in 0 .. MaxFeeBps /\ FirstTimeout \in Nat \ {0} /\ FirstLimit \in LimitType
    BY PaymentConstants
  <2>2. /\ feeBps = FirstFee /\ feeTiers = <<>> /\ timeout = FirstTimeout
        /\ limit = FirstLimit /\ maxBatch = DefaultMaxBatchSize
        /\ openMode \in BOOLEAN /\ approved = {} /\ usdc = None
    BY <1>1 DEF Init, InitConfig
  <2>3. usdc \in Token \cup {None}
    BY <2>2
  <2>4. ValidTiers(feeTiers) /\ feeTiers \in Seq(TierType)
    BY <2>2 DEF ValidTiers
  <2>5. QED
    BY <2>1, <2>2, <2>3, <2>4 DEF ConfigTyped, DefaultMaxBatchSize
<1>5. EntryTyped
  BY <1>1, <1>2, PaymentConstants DEF Init, InitLedger, EntryTyped, TakenType
<1>6. PaymentsTyped /\ RecordsTyped
  <2>1. NoPayment \in PaymentType /\ NoPayment.status = "None"
    BY <1>2, PaymentConstants DEF NoPayment, PaymentType, SplitType
  <2>2. /\ nextId = 0 /\ payment = [p \in Ids |-> NoPayment]
        /\ settled = {} /\ dispute = [p \in Ids |-> "None"]
    BY <1>1 DEF Init, InitLedger
  <2> HIDE DEF NoPayment
  <2>3. QED
    BY <2>1, <2>2, PaymentConstants DEF PaymentsTyped, RecordsTyped, Ids
<1>7. MoneyTyped
  BY <1>1 DEF Init, InitLedger, MoneyTyped, StatsType
<1>8. CompletionTyped
  BY <1>1, PaymentConstants DEF Init, InitLedger, CompletionTyped
<1>9. SubsTyped
  <2>1. NoSubscription \in SubscriptionType
    BY <1>2, PaymentConstants DEF NoSubscription, SubscriptionType
  <2> HIDE DEF NoSubscription
  <2>2. QED
    BY <1>1, <2>1, PaymentConstants DEF Init, InitSubs, SubsTyped
<1>10. QED
  BY <1>3, <1>4, <1>5, <1>6, <1>7, <1>8, <1>9 DEF Typed

-----------------------------------------------------------------------------
(* Amounts and buckets *)

LEMMA BucketsInOrder ==
    ASSUME NEW a \in Nat, NEW b \in Nat, a <= b
    PROVE  /\ Bucket(a) \in Nat /\ Bucket(b) \in Nat /\ Bucket(a) <= Bucket(b)
           /\ Bucket(a) \in 0 .. Bucket(b)
<1> DEFINE d == BucketSize
<1>1. d \in Nat /\ d > 0
  BY PaymentConstants
<1> HIDE DEF d
<1>2. a \div d \in Nat /\ b \div d \in Nat
  BY <1>1
<1>3. a \div d <= b \div d
  BY <1>1, <1>2
<1>4. QED
  BY <1>2, <1>3 DEF Bucket, d

LEMMA RollingTyped ==
    ASSUME Typed, NEW m \in Merchants
    PROVE  RollingVolume(m) \in Nat
<1> DEFINE b == Bucket(now)
           at(i) == IF i <= b THEN b - i ELSE 0
<1>1. now \in Nat /\ MaxTime \in Nat /\ now <= MaxTime
  BY PaymentConstants DEF Typed, ClockTyped
<1>2. b \in Nat /\ Bucket(MaxTime) \in Nat /\ b <= Bucket(MaxTime)
  BY <1>1, BucketsInOrder
<1>3. \A i \in Nat : at(i) \in Buckets
  BY <1>2 DEF Buckets
<1>4. volume[m] \in [Buckets -> Nat]
  BY DEF Typed, CompletionTyped
<1>5. \A i \in Nat : volume[m][at(i)] \in Nat
  BY <1>3, <1>4
<1>6. volume[m][at(0)] \in Nat /\ volume[m][at(1)] \in Nat /\ volume[m][at(2)] \in Nat /\ volume[m][at(3)] \in Nat
  BY <1>5
<1>7. RollingVolume(m) = volume[m][at(0)] + volume[m][at(1)] + volume[m][at(2)] + volume[m][at(3)]
  BY DEF RollingVolume
<1> HIDE DEF at, b
<1>8. QED
  BY <1>6, <1>7

LEMMA FeeTyped ==
    ASSUME Typed, NEW v \in Nat
    PROVE  FeeForVolume(v) \in 0 .. MaxFeeBps
<1> DEFINE reached == {i \in DOMAIN feeTiers : v >= feeTiers[i].min}
<1>1. /\ feeBps \in 0 .. MaxFeeBps /\ feeTiers \in Seq(TierType)
      /\ \A i \in DOMAIN feeTiers : feeTiers[i].bps <= MaxFeeBps
      /\ DOMAIN feeTiers = 1 .. Len(feeTiers) /\ Len(feeTiers) \in Nat
  BY LenProperties DEF Typed, ConfigTyped, ValidTiers
<1>2. CASE reached = {}
  BY <1>1, <1>2 DEF FeeForVolume
<1>3. CASE reached # {}
  <2>1. reached \subseteq 0 .. Len(feeTiers) /\ reached \subseteq DOMAIN feeTiers
    BY <1>1
  <2>4. FeeForVolume(v) = feeTiers[Max(reached)].bps
    BY <1>3 DEF FeeForVolume
  <2> HIDE DEF reached
  <2>2. Max(reached) \in DOMAIN feeTiers
    BY <1>1, <1>3, <2>1, MaxIsGreatest
  <2>3. feeTiers[Max(reached)] \in TierType
    BY <1>1, <2>2, ElementOfSeq
  <2>5. feeTiers[Max(reached)].bps <= MaxFeeBps
    BY <1>1, <2>2
  <2>6. QED
    BY <2>3, <2>4, <2>5 DEF TierType, MaxFeeBps
<1>4. QED
  BY <1>2, <1>3
(* Shares, rounding and all, a payment pays out what there is to pay.       *)
LEMMA DistributesAll ==
    ASSUME Typed, NEW p \in Ids, p < nextId, NEW x \in Nat
    PROVE  Distributed(p, x) = x
<1> DEFINE s == payment[p].split
           bps == [i \in DOMAIN s |-> s[i].bps]
           share == [i \in DOMAIN s |-> ShareOf(x, s[i])]
           shared == SumFunctionOnSet(share, DOMAIN s)
<1>1. s \in SplitType /\ ValidSplit(s)
  BY DEF Typed, PaymentsTyped, PaymentType
<1>2. Distributed(p, x) = IF s = <<>> THEN x
                          ELSE IF shared < x THEN shared + (x - shared) ELSE shared
  BY DEF Distributed
<1>3. CASE s = <<>>
  BY <1>2, <1>3
<1>4. CASE s # <<>>
  <2>1. DOMAIN s = 1 .. Len(s) /\ Len(s) \in Nat
    BY <1>1, LenProperties DEF SplitType
  <2>2. IsFiniteSet(DOMAIN s)
    BY <2>1, FS_Interval
  <2>3. SumFunctionOnSet(bps, DOMAIN s) = 10000
    BY <1>1, <1>4 DEF ValidSplit, BasisPoints
  <2>4. \A i \in DOMAIN s : bps[i] \in Nat
    <3>1. SUFFICES ASSUME NEW i \in DOMAIN s
                   PROVE  s[i].bps \in Nat
      OBVIOUS
    <3>2. s[i] \in [to : Address, bps : Nat]
      <4> HIDE DEF s
      <4>1. QED
        BY <1>1, <2>1, ElementOfSeq DEF SplitType
    <3>3. QED
      BY <3>2
  <2> DEFINE D == DOMAIN s
             even == [i \in D |-> (x * bps[i]) \div 10000]
  <2>5. share = even
    BY DEF ShareOf, BasisPoints
  <2> HIDE DEF s, bps, share, D
  <2>6. SumFunctionOnSet(even, D) \in Nat /\ SumFunctionOnSet(even, D) <= x
    BY <2>2, <2>3, <2>4, SharesOfAmount DEF D
  <2> HIDE DEF even
  <2>7. shared \in Nat /\ shared <= x
    BY <2>5, <2>6 DEF D
  <2> HIDE DEF shared
  <2>8. QED
    BY <1>2, <1>4, <2>7
<1>5. QED
  BY <1>3, <1>4

-----------------------------------------------------------------------------
(* Changes of one payment *)

Altered(r, st, a, b) == [r EXCEPT !.status = st, !.amount = a, !.refunded = b]

Alters(p, st, a, b) ==
    /\ payment' = [payment EXCEPT ![p] = Altered(payment[p], st, a, b)]
    /\ UNCHANGED nextId

LEMMA AlteredRecord ==
    ASSUME NEW r \in PaymentType, NEW st \in Open \cup Closed, NEW a \in Nat, NEW b \in Nat
    PROVE  LET n == Altered(r, st, a, b)
           IN  /\ n \in PaymentType
               /\ n.status = st /\ n.amount = a /\ n.refunded = b
               /\ n.customer = r.customer /\ n.merchant = r.merchant /\ n.token = r.token
               /\ n.createdAt = r.createdAt /\ n.split = r.split
<1> DEFINE S == Open \cup Closed \cup {"None"}
<1>1. st \in S
  OBVIOUS
<1>2. PaymentType =
        [customer : Address, merchant : Address, amount : Nat, token : Token,
         status : S, createdAt : Nat, expiresAt : Nat,
         refunded : Nat, split : SplitType, executeAfter : Nat]
  BY DEF PaymentType
<1> HIDE DEF S
<1>3. QED
  BY <1>1, <1>2 DEF Altered

LEMMA AlteredSame ==
    ASSUME NEW r \in PaymentType, NEW st, NEW a
    PROVE  /\ [r EXCEPT !.status = st] = Altered(r, st, r.amount, r.refunded)
           /\ [r EXCEPT !.status = st, !.amount = a] = Altered(r, st, a, r.refunded)
<1> DEFINE S == Open \cup Closed \cup {"None"}
<1>2. PaymentType =
        [customer : Address, merchant : Address, amount : Nat, token : Token,
         status : S, createdAt : Nat, expiresAt : Nat,
         refunded : Nat, split : SplitType, executeAfter : Nat]
  BY DEF PaymentType
<1> HIDE DEF S
<1>3. QED
  BY <1>2 DEF Altered

LEMMA AlteredRefund ==
    ASSUME NEW r \in PaymentType, NEW st, NEW b
    PROVE  [r EXCEPT !.refunded = b, !.status = st] = Altered(r, st, r.amount, b)
<1> DEFINE S == Open \cup Closed \cup {"None"}
<1>2. PaymentType =
        [customer : Address, merchant : Address, amount : Nat, token : Token,
         status : S, createdAt : Nat, expiresAt : Nat,
         refunded : Nat, split : SplitType, executeAfter : Nat]
  BY DEF PaymentType
<1> HIDE DEF S
<1>3. QED
  BY <1>2 DEF Altered

LEMMA AlteredPayments ==
    ASSUME Typed, NEW p \in Ids, p < nextId, NEW st \in Open \cup Closed, NEW a \in Nat,
           NEW b \in Nat, Alters(p, st, a, b)
    PROVE  /\ PaymentsTyped'
           /\ \A q \in Ids \ {p} : payment'[q] = payment[q]
           /\ payment'[p].status = st /\ payment'[p].amount = a /\ payment'[p].refunded = b
           /\ payment'[p].customer = payment[p].customer
           /\ payment'[p].merchant = payment[p].merchant
           /\ payment'[p].token = payment[p].token
           /\ payment'[p].createdAt = payment[p].createdAt
           /\ payment'[p].split = payment[p].split
<1> DEFINE n == Altered(payment[p], st, a, b)
<1>1. payment \in [Ids -> PaymentType] /\ payment[p] \in PaymentType
  BY DEF Typed, PaymentsTyped
<1>2. /\ n \in PaymentType
      /\ n.status = st /\ n.amount = a /\ n.refunded = b
      /\ n.customer = payment[p].customer /\ n.merchant = payment[p].merchant
      /\ n.token = payment[p].token
      /\ n.createdAt = payment[p].createdAt /\ n.split = payment[p].split
  BY <1>1, AlteredRecord
<1>3. payment' = [payment EXCEPT ![p] = n] /\ nextId' = nextId
  BY DEF Alters
<1> HIDE DEF n
<1>4. /\ payment' \in [Ids -> PaymentType] /\ payment'[p] = n
      /\ \A q \in Ids \ {p} : payment'[q] = payment[q]
  BY <1>1, <1>2, <1>3
<1>5. n.status # "None"
  BY <1>2 DEF Open, Closed
<1>6. PaymentsTyped'
  <2>1. /\ nextId \in 0 .. MaxPayments
        /\ \A q \in Ids : q < nextId <=> payment[q].status # "None"
        /\ \A q \in Ids : q < nextId => /\ payment[q].merchant \in Merchants
                                        /\ ValidSplit(payment[q].split)
    BY DEF Typed, PaymentsTyped
  <2>2. \A q \in Ids : q < nextId <=> payment'[q].status # "None"
    BY <1>4, <1>5, <2>1
  <2>3. \A q \in Ids : q < nextId => payment'[q].merchant \in Merchants
    BY <1>2, <1>4, <2>1
  <2>4. \A q \in Ids : q < nextId => ValidSplit(payment'[q].split)
    BY <1>2, <1>4, <2>1
  <2>5. \A q \in Ids : q < nextId => ValidSplit(payment[q].split)'
    BY <2>4 DEF ValidSplit
  <2>6. QED
    BY <1>3, <1>4, <2>1, <2>2, <2>3, <2>5 DEF PaymentsTyped
<1>7. QED
  BY <1>2, <1>4, <1>6

LEMMA PaidOutTyped ==
    ASSUME Typed, NEW p \in Ids, NEW x \in Nat, PayOut(p, x)
    PROVE  /\ balance' \in [Token -> Nat]
           /\ paid' = [paid EXCEPT ![p] = @ + x]
           /\ paid' \in [Ids -> Nat]
           /\ paid'[p] = paid[p] + x
           /\ \A q \in Ids \ {p} : paid'[q] = paid[q]
<1> DEFINE t == payment[p].token
<1>1. t \in Token /\ balance \in [Token -> Nat] /\ paid \in [Ids -> Nat]
  BY DEF Typed, PaymentsTyped, MoneyTyped, PaymentType
<1>2. /\ x <= balance[t] /\ balance' = [balance EXCEPT ![t] = @ - x]
      /\ paid' = [paid EXCEPT ![p] = @ + x]
  BY DEF PayOut
<1> HIDE DEF t
<1>3. balance[t] \in Nat /\ balance[t] - x \in Nat /\ paid[p] \in Nat
  BY <1>1, <1>2
<1>4. QED
  BY <1>1, <1>2, <1>3

(* The counters of the statistics. *)
LEMMA StatsMoved ==
    ASSUME Typed, NEW n \in Nat, NEW x \in Nat, NEW t \in Token
    PROVE  /\ [stats EXCEPT !.created = @ + n] \in StatsType
           /\ [stats EXCEPT !.expired = @ + n] \in StatsType
           /\ [stats EXCEPT !.refunded = @ + n, !.volumeRefunded[t] = @ + x] \in StatsType
           /\ [stats EXCEPT !.completed = @ + n, !.volumeCompleted[t] = @ + x] \in StatsType
<1>1. stats \in StatsType
  BY DEF Typed, MoneyTyped
<1> DEFINE V == [Token -> Nat]
           c == [stats.volumeCompleted EXCEPT ![t] = @ + x]
           r == [stats.volumeRefunded EXCEPT ![t] = @ + x]
<1>2. c \in V /\ r \in V
  BY <1>1 DEF StatsType
<1>3. StatsType = [created : Nat, completed : Nat, refunded : Nat, expired : Nat,
                   volumeCompleted : V, volumeRefunded : V]
  BY DEF StatsType
<1>4. /\ [stats EXCEPT !.refunded = @ + n, !.volumeRefunded[t] = @ + x]
           = [stats EXCEPT !.refunded = @ + n, !.volumeRefunded = r]
      /\ [stats EXCEPT !.completed = @ + n, !.volumeCompleted[t] = @ + x]
           = [stats EXCEPT !.completed = @ + n, !.volumeCompleted = c]
  BY <1>1, <1>3
<1> HIDE DEF V, c, r
<1>5. stats \in [created : Nat, completed : Nat, refunded : Nat, expired : Nat,
                 volumeCompleted : V, volumeRefunded : V]
  BY <1>1, <1>3
<1>6. [stats EXCEPT !.created = @ + n] \in StatsType
  BY <1>3, <1>5
<1>7. [stats EXCEPT !.expired = @ + n] \in StatsType
  BY <1>3, <1>5
<1> DEFINE d == stats.refunded + n
           e == stats.completed + n
<1>8. d \in Nat /\ e \in Nat
  BY <1>5
<1> HIDE DEF d, e
<1>9. [stats EXCEPT !.refunded = d, !.volumeRefunded = r] \in StatsType
  BY <1>2, <1>3, <1>5, <1>8
<1>10. [stats EXCEPT !.completed = e, !.volumeCompleted = c] \in StatsType
  BY <1>2, <1>3, <1>5, <1>8
<1>11. QED
  BY <1>4, <1>6, <1>7, <1>9, <1>10 DEF d, e

-----------------------------------------------------------------------------
(* The calls on payments *)

LEMMA StoredIfUsed ==
    ASSUME Typed, NEW p \in Ids, payment[p].status \in Open \cup Closed
    PROVE  /\ p < nextId /\ payment[p] \in PaymentType
           /\ payment[p].merchant \in Merchants /\ payment[p].token \in Token
           /\ payment[p].amount \in Nat /\ payment[p].refunded \in Nat
<1>1. payment[p].status # "None"
  BY DEF Open, Closed
<1>2. p < nextId
  BY <1>1 DEF Typed, PaymentsTyped
<1>3. payment[p] \in PaymentType /\ payment[p].merchant \in Merchants
  BY <1>2 DEF Typed, PaymentsTyped
<1>4. QED
  BY <1>2, <1>3 DEF PaymentType

(* A completion pays out the whole amount and leaves the net one on record. *)
Completes(p, net) ==
    /\ payment[p].status \in {"Pending", "ScheduledPending"}
    /\ net \in Nat
    /\ Alters(p, "Completed", net, payment[p].refunded)
    /\ PayOut(p, payment[p].amount)
    /\ settled' = settled \cup {p}
    /\ receipt' = [receipt EXCEPT ![p] = now]
    /\ volume' = [volume EXCEPT ![payment[p].merchant][Bucket(now)] = @ + payment[p].amount]
    /\ stats' = [stats EXCEPT !.completed = @ + 1,
                              !.volumeCompleted[payment[p].token] = @ + net]
    /\ UNCHANGED <<now, paused, configVars, entryVars, subVars, dispute, namedTwice>>

LEMMA CompletionPays ==
    ASSUME Typed, NEW p \in Ids, payment[p].status \in {"Pending", "ScheduledPending"},
           CompleteInternal(p)
    PROVE  \E net \in Nat : Completes(p, net)
<1> DEFINE m == payment[p].merchant
           gross == payment[p].amount
           rate == FeeForVolume(RollingVolume(m) + gross)
           fee == (gross * rate) \div BasisPoints
           net == gross - fee
<1>1. /\ p < nextId /\ payment[p] \in PaymentType /\ m \in Merchants /\ gross \in Nat
  <2>1. payment[p].status \in Open \cup Closed
    BY DEF Open
  <2>2. QED
    BY <2>1, StoredIfUsed
<1>2. rate \in Nat /\ rate <= 10000
  <2>1. RollingVolume(m) \in Nat
    BY <1>1, RollingTyped
  <2>2. RollingVolume(m) + gross \in Nat
    BY <1>1, <2>1
  <2> HIDE DEF m, gross
  <2>3. rate \in 0 .. MaxFeeBps
    BY <2>2, FeeTyped
  <2> HIDE DEF rate
  <2>4. QED
    BY <2>3 DEF MaxFeeBps
<1>3. fee \in Nat /\ fee <= gross
  <2> HIDE DEF rate, gross
  <2>1. QED
    BY <1>1, <1>2, ShareOfAmount DEF BasisPoints
<1>4. net \in Nat /\ fee + net = gross
  <2> HIDE DEF fee, gross
  <2>1. QED
    BY <1>1, <1>3
<1>5. Distributed(p, net) = net
  <2> HIDE DEF net
  <2>1. QED
    BY <1>1, <1>4, DistributesAll
<1>6. PayOut(p, fee + Distributed(p, net))
  BY DEF CompleteInternal
<1>7. PayOut(p, gross)
  <2> HIDE DEF fee, net, gross
  <2>1. QED
    BY <1>4, <1>5, <1>6
<1>8. Alters(p, "Completed", net, payment[p].refunded)
  <2>1. payment' = [payment EXCEPT ![p] = [payment[p] EXCEPT !.status = "Completed", !.amount = net]]
    BY DEF CompleteInternal
  <2>2. UNCHANGED nextId
    BY DEF CompleteInternal, entryVars
  <2> HIDE DEF net
  <2>3. QED
    BY <1>1, <2>1, <2>2, AlteredSame DEF Alters
<1>9. Completes(p, net)
  <2>1. /\ settled' = settled \cup {p}
        /\ receipt' = [receipt EXCEPT ![p] = now]
        /\ volume' = [volume EXCEPT ![payment[p].merchant][Bucket(now)] = @ + gross]
        /\ stats' = [stats EXCEPT !.completed = @ + 1,
                                  !.volumeCompleted[payment[p].token] = @ + net]
        /\ UNCHANGED <<now, paused, configVars, entryVars, subVars, dispute, namedTwice>>
    BY DEF CompleteInternal
  <2> HIDE DEF net
  <2>2. QED
    BY <1>4, <1>7, <1>8, <2>1 DEF Completes
<1> HIDE DEF net
<1>10. QED
  BY <1>4, <1>9

(* A call that gives a payment back and counts it in the statistics.        *)
GivesBack(p, st) ==
    /\ payment[p].status \in Open
    /\ st \in {"Refunded", "Expired"}
    /\ Alters(p, st, payment[p].amount, payment[p].refunded)
    /\ PayOut(p, payment[p].amount)
    /\ stats' = IF st = "Expired" THEN [stats EXCEPT !.expired = @ + 1]
                ELSE [stats EXCEPT !.refunded = @ + 1,
                                   !.volumeRefunded[payment[p].token] = @ + payment[p].amount]
    /\ dispute' \in [Ids -> {"None", "Raised", "Resolved"}]
    /\ UNCHANGED <<now, paused, configVars, entryVars, completionVars, subVars, settled,
                   namedTwice>>

Refunds(p, x) ==
    /\ payment[p].status \in {"Pending", "Disputed"}
    /\ x \in Nat /\ x > 0
    /\ payment[p].refunded + x <= payment[p].amount
    /\ Alters(p, IF payment[p].refunded + x >= payment[p].amount THEN "Refunded"
                 ELSE payment[p].status, payment[p].amount, payment[p].refunded + x)
    /\ PayOut(p, x)
    /\ stats' = [stats EXCEPT !.refunded = @ + 1,
                              !.volumeRefunded[payment[p].token] = @ + x]
    /\ UNCHANGED <<now, paused, configVars, entryVars, completionVars, subVars, settled,
                   dispute, namedTwice>>

(* A dispute is raised, or decided for the merchant, who waits to be paid.  *)
Decides(p, st) ==
    /\ payment[p].status \in Open
    /\ st \in {"Disputed", "Completed"}
    /\ Alters(p, st, payment[p].amount, payment[p].refunded)
    /\ settled' = settled /\ p \notin settled
    /\ dispute' \in [Ids -> {"None", "Raised", "Resolved"}]
    /\ UNCHANGED <<now, paused, configVars, entryVars, completionVars, subVars, stats,
                   balance, paid, namedTwice>>

(* Payments are settled together.                                           *)
Settles(m, batch) ==
    /\ batch \in Seq(Ids)
    /\ SettleMerchantPayments(m, batch)

MovesPayment(p) ==
    \/ \E net \in Nat : Completes(p, net)
    \/ \E st \in {"Refunded", "Expired"} : GivesBack(p, st)
    \/ \E x \in Nat : Refunds(p, x)
    \/ \E st \in {"Disputed", "Completed"} : Decides(p, st)

LEMMA OpenUnsettled ==
    ASSUME Typed, NEW p \in Ids, payment[p].status \in Open
    PROVE  p \notin settled
BY DEF Typed, RecordsTyped, In, Open

LEMMA GiveBackGives ==
    ASSUME Typed, NEW p \in Ids, payment[p].status \in Open, NEW st \in {"Refunded", "Expired"},
           GiveBack(p, st)
    PROVE  /\ payment' = [payment EXCEPT ![p] = Altered(payment[p], st, payment[p].amount,
                                                        payment[p].refunded)]
           /\ PayOut(p, payment[p].amount)
<1>1. payment[p] \in PaymentType
  BY DEF Typed, PaymentsTyped
<1>2. payment' = [payment EXCEPT ![p] = [payment[p] EXCEPT !.status = st]]
  BY DEF GiveBack, SetStatus
<1>3. [payment[p] EXCEPT !.status = st]
        = Altered(payment[p], st, payment[p].amount, payment[p].refunded)
  BY <1>1, AlteredSame
<1>4. QED
  BY <1>2, <1>3 DEF GiveBack

(* Every call on one payment is one of these.                               *)
LEMMA PaymentStepMoves ==
    ASSUME Typed, PaymentStep
    PROVE  \/ \E p \in Ids : MovesPayment(p)
           \/ \E m \in Merchants, batch \in Selection : Settles(m, batch)
<1> DEFINE Goal == \/ \E p \in Ids : MovesPayment(p)
                   \/ \E m \in Merchants, batch \in Selection : Settles(m, batch)
<1>1. ASSUME NEW p \in Ids, CompletePayment(p) \/ ExecuteScheduledPayment(p)
      PROVE  Goal
  <2>1. payment[p].status \in {"Pending", "ScheduledPending"} /\ CompleteInternal(p)
    BY <1>1 DEF CompletePayment, ExecuteScheduledPayment, Has
  <2>2. QED
    BY <2>1, CompletionPays DEF MovesPayment
<1>2. ASSUME NEW m \in Merchants, NEW batch \in Selection, SettleMerchantPayments(m, batch)
      PROVE  Goal
  BY <1>2, PaymentConstants DEF Settles
<1>3. ASSUME NEW c \in Address, NEW p \in Ids, CancelScheduledPayment(c, p)
      PROVE  Goal
  <2>1. payment[p].status \in Open /\ GiveBack(p, "Refunded")
    BY <1>3 DEF CancelScheduledPayment, Has, Open
  <2>2. CountRefunded(p, payment[p].amount)
        /\ UNCHANGED <<now, paused, configVars, entryVars, completionVars, subVars,
                       settled, dispute, namedTwice>>
    BY <1>3 DEF CancelScheduledPayment
  <2>3. dispute' \in [Ids -> {"None", "Raised", "Resolved"}] /\ UNCHANGED nextId
    BY <2>2 DEF Typed, RecordsTyped, entryVars
  <2>4. GivesBack(p, "Refunded")
    BY <2>1, <2>2, <2>3, GiveBackGives DEF GivesBack, Alters, CountRefunded
  <2>5. QED
    BY <2>4 DEF MovesPayment
<1>4. ASSUME NEW p \in Ids, ExpirePayment(p)
      PROVE  Goal
  <2>1. payment[p].status \in Open /\ GiveBack(p, "Expired")
    BY <1>4 DEF ExpirePayment, Has, Open
  <2>2. /\ stats' = [stats EXCEPT !.expired = @ + 1]
        /\ UNCHANGED <<now, paused, configVars, entryVars, completionVars, subVars,
                       settled, dispute, namedTwice>>
    BY <1>4 DEF ExpirePayment
  <2>3. dispute' \in [Ids -> {"None", "Raised", "Resolved"}] /\ UNCHANGED nextId
    BY <2>2 DEF Typed, RecordsTyped, entryVars
  <2>4. GivesBack(p, "Expired")
    BY <2>1, <2>2, <2>3, GiveBackGives DEF GivesBack, Alters
  <2>5. QED
    BY <2>4 DEF MovesPayment
<1>5. ASSUME NEW p \in Ids, NEW x \in Portion, PartialRefund(p, x)
      PROVE  Goal
  <2> DEFINE back == payment[p].refunded + x
             st == IF back >= payment[p].amount THEN "Refunded" ELSE payment[p].status
  <2>1. /\ payment[p].status \in {"Pending", "Disputed"} /\ x > 0 /\ back <= payment[p].amount
        /\ payment' = [payment EXCEPT ![p] = [payment[p] EXCEPT !.refunded = back, !.status = st]]
        /\ PayOut(p, x)
        /\ stats' = [stats EXCEPT !.refunded = @ + 1,
                                  !.volumeRefunded[payment[p].token] = @ + x]
        /\ UNCHANGED <<now, paused, configVars, entryVars, completionVars, subVars, settled,
                       dispute, namedTwice>>
    BY <1>5 DEF PartialRefund, CountRefunded
  <2>2. payment[p] \in PaymentType
    BY DEF Typed, PaymentsTyped
  <2>3. x \in Nat
    <3>1. x \in Int
      BY PaymentConstants
    <3>2. QED
      BY <2>1, <3>1
  <2>4. [payment[p] EXCEPT !.refunded = back, !.status = st]
          = Altered(payment[p], st, payment[p].amount, back)
    <3> HIDE DEF back, st
    <3>1. QED
      BY <2>2, AlteredRefund
  <2>5. Alters(p, st, payment[p].amount, back)
    <3> HIDE DEF back, st
    <3>1. QED
      BY <2>1, <2>4 DEF Alters, entryVars
  <2>6. Refunds(p, x)
    BY <2>1, <2>3, <2>5 DEF Refunds
  <2>7. QED
    BY <2>3, <2>6 DEF MovesPayment
<1>6. ASSUME NEW c \in Address, NEW p \in Ids, DisputePayment(c, p)
      PROVE  Goal
  <2>1. /\ payment[p].status \in Open
        /\ payment' = [payment EXCEPT ![p] = [payment[p] EXCEPT !.status = "Disputed"]]
        /\ dispute' = [dispute EXCEPT ![p] = "Raised"]
        /\ UNCHANGED <<now, paused, configVars, entryVars, completionVars, subVars,
                       settled, stats, balance, paid, namedTwice>>
    BY <1>6 DEF DisputePayment, SetStatus, Has, Open
  <2>2. payment[p] \in PaymentType
    BY DEF Typed, PaymentsTyped
  <2>3. Alters(p, "Disputed", payment[p].amount, payment[p].refunded)
    BY <2>1, <2>2, AlteredSame DEF Alters, entryVars
  <2>4. dispute' \in [Ids -> {"None", "Raised", "Resolved"}]
    BY <2>1 DEF Typed, RecordsTyped
  <2>5. p \notin settled
    BY <2>1, OpenUnsettled
  <2>6. Decides(p, "Disputed")
    BY <2>1, <2>3, <2>4, <2>5 DEF Decides
  <2>7. QED
    BY <2>6 DEF MovesPayment
<1>7. ASSUME NEW p \in Ids, NEW release \in BOOLEAN, ResolveDispute(p, release)
      PROVE  Goal
  <2>1. /\ payment[p].status \in Open
        /\ dispute' = [dispute EXCEPT ![p] = IF @ = "None" THEN @ ELSE "Resolved"]
        /\ UNCHANGED <<now, paused, configVars, entryVars, completionVars, subVars,
                       namedTwice>>
    BY <1>7 DEF ResolveDispute, Has, Open
  <2>2. payment[p] \in PaymentType
    BY DEF Typed, PaymentsTyped
  <2>3. dispute' \in [Ids -> {"None", "Raised", "Resolved"}]
    BY <2>1 DEF Typed, RecordsTyped
  <2>4. p \notin settled
    BY <2>1, OpenUnsettled
  <2>5. UNCHANGED nextId
    BY <2>1 DEF entryVars
  <2>6. CASE release
    <3>1. /\ payment' = [payment EXCEPT ![p] = [payment[p] EXCEPT !.status = "Completed"]]
          /\ settled' = settled \ {p}
          /\ UNCHANGED <<stats, balance, paid>>
      BY <1>7, <2>6 DEF ResolveDispute, SetStatus
    <3>2. Alters(p, "Completed", payment[p].amount, payment[p].refunded)
      BY <2>2, <2>5, <3>1, AlteredSame DEF Alters
    <3>3. settled' = settled
      BY <2>4, <3>1
    <3>4. Decides(p, "Completed")
      BY <2>1, <2>3, <2>4, <3>1, <3>2, <3>3 DEF Decides
    <3>5. QED
      BY <3>4 DEF MovesPayment
  <2>7. CASE ~release
    <3>1. GiveBack(p, "Refunded") /\ CountRefunded(p, payment[p].amount) /\ UNCHANGED settled
      BY <1>7, <2>7 DEF ResolveDispute
    <3>2. GivesBack(p, "Refunded")
      BY <2>1, <2>3, <2>5, <3>1, GiveBackGives DEF GivesBack, Alters, CountRefunded
    <3>3. QED
      BY <3>2 DEF MovesPayment
  <2>8. QED
    BY <2>6, <2>7
<1>8. QED
  BY <1>1, <1>2, <1>3, <1>4, <1>5, <1>6, <1>7 DEF PaymentStep

-----------------------------------------------------------------------------
(* The calls that pay in *)

(* The record p of a payment just made. *)
Fresh(p, c) ==
    /\ payment'[p].status \in {"Pending", "ScheduledPending"}
    /\ payment'[p].customer = c /\ payment'[p].merchant \in Merchants
    /\ payment'[p].amount > 0 /\ payment'[p].refunded = 0
    /\ payment'[p].createdAt = now
    /\ ValidSplit(payment'[p].split)
    /\ taken'[p].owed = payment'[p].amount
    /\ taken'[p].token = payment'[p].token => taken'[p].amount = payment'[p].amount

(* What was taken in for the payments in the token t, and in the contract's *)
(* balances for those a call makes.                                         *)
TakenIn(t) == [p \in Ids |-> IF taken[p].token = t THEN taken[p].amount ELSE 0]

MadeNow == {q \in Ids : q >= nextId /\ q < nextId'}

Credited ==
    \A t \in Token : balance'[t] = balance[t] + SumFunctionOnSet(TakenIn(t)', MadeNow)

(* A customer makes n payments: all of them are counted in the statistics,  *)
(* or none as with another token.                                           *)
Makes(c, n) ==
    /\ c \in Customers /\ n \in {1, 2}
    /\ nextId' = nextId + n /\ nextId' <= MaxPayments
    /\ payment' \in [Ids -> PaymentType] /\ taken' \in [Ids -> TakenType]
    /\ \A q \in Ids : q < nextId \/ q >= nextId' =>
                        payment'[q] = payment[q] /\ taken'[q] = taken[q]
    /\ \A q \in Ids : q >= nextId /\ q < nextId' => Fresh(q, c)
    /\ \/ /\ \A q \in Ids : q >= nextId /\ q < nextId' => ~taken'[q].multi
          /\ stats' = [stats EXCEPT !.created = @ + n]
       \/ /\ \A q \in Ids : q >= nextId /\ q < nextId' => taken'[q].multi
          /\ stats' = stats
    /\ EnforceRateLimit(c, n)
    /\ balance' \in [Token -> Nat]
    /\ Credited
    /\ keyOf' \in [Key -> Ids \cup {None}]
    /\ UNCHANGED <<now, paused, configVars, completionVars, subVars, settled, dispute,
                   paid, namedTwice>>

LEMMA RecordFacts ==
    ASSUME Typed, NEW c \in Customers, NEW r, r.merchant \in Merchants, r.amount \in Int,
           r.amount > 0, r.token \in Token, NEW split \in SplitType, NEW after \in Nat
    PROVE  LET n == Record(c, r, split, after)
           IN  /\ n \in PaymentType
               /\ n.status \in {"Pending", "ScheduledPending"}
               /\ n.customer = c /\ n.merchant = r.merchant /\ n.amount = r.amount
               /\ n.token = r.token /\ n.refunded = 0 /\ n.createdAt = now
               /\ n.split = split
<1> DEFINE st == IF after > now THEN "ScheduledPending" ELSE "Pending"
           S == Open \cup Closed \cup {"None"}
           ends == now + timeout
<1>1. st \in S /\ st \in {"Pending", "ScheduledPending"}
  BY DEF Open
<1>2. now \in Nat /\ ends \in Nat
  BY PaymentConstants DEF Typed, ClockTyped, ConfigTyped
<1>3. c \in Address /\ r.merchant \in Address /\ r.amount \in Nat
  BY PaymentConstants
<1>4. PaymentType =
        [customer : Address, merchant : Address, amount : Nat, token : Token,
         status : S, createdAt : Nat, expiresAt : Nat,
         refunded : Nat, split : SplitType, executeAfter : Nat]
  BY DEF PaymentType
<1>5. Record(c, r, split, after) =
        [customer |-> c, merchant |-> r.merchant, amount |-> r.amount, token |-> r.token,
         status |-> st, createdAt |-> now, expiresAt |-> ends, refunded |-> 0,
         split |-> split, executeAfter |-> after]
  BY DEF Record
<1> DEFINE n == Record(c, r, split, after)
<1> HIDE DEF st, S, ends
<1>6. n \in PaymentType
  BY <1>1, <1>2, <1>3, <1>4, <1>5
<1>7. /\ n.status = st /\ n.customer = c /\ n.merchant = r.merchant /\ n.amount = r.amount
      /\ n.token = r.token /\ n.refunded = 0 /\ n.createdAt = now /\ n.split = split
  BY <1>5
<1> HIDE DEF n
<1>8. QED
  BY <1>1, <1>6, <1>7 DEF n

LEMMA NoSplitValid == <<>> \in SplitType /\ ValidSplit(<<>>)
BY DEF SplitType, ValidSplit

(* One payment stored under the next identifier.                            *)
LEMMA OneMade ==
    ASSUME Typed, NEW c \in Customers, NEW r, r.merchant \in Merchants, r.amount \in Int,
           r.amount > 0, r.token \in Token, NEW split \in SplitType, ValidSplit(split),
           NEW after \in Nat,
           NEW t \in Token, NEW x \in Nat, NEW k, NEW multi \in BOOLEAN,
           t = r.token => x = r.amount,
           payment' = [payment EXCEPT ![nextId] = Record(c, r, split, after)],
           taken' = [taken EXCEPT ![nextId] = [token |-> t, amount |-> x, owed |-> r.amount,
                                               multi |-> multi]],
           nextId < MaxPayments, nextId' = nextId + 1,
           EnforceRateLimit(c, 1), Receive(t, x),
           stats' = IF multi THEN stats ELSE [stats EXCEPT !.created = @ + 1],
           keyOf' \in [Key -> Ids \cup {None}],
           UNCHANGED <<now, paused, configVars, completionVars, subVars, settled, dispute,
                       paid, namedTwice>>
    PROVE  Makes(c, 1)
<1> DEFINE n == Record(c, r, split, after)
           g == [token |-> t, amount |-> x, owed |-> r.amount, multi |-> multi]
<1>1. /\ nextId \in Nat /\ MaxPayments \in Nat /\ nextId \in Ids
      /\ payment \in [Ids -> PaymentType] /\ taken \in [Ids -> TakenType]
      /\ balance \in [Token -> Nat]
  <2>1. MaxPayments \in Nat
    BY PaymentConstants
  <2>2. nextId \in Nat /\ payment \in [Ids -> PaymentType]
    BY DEF Typed, PaymentsTyped
  <2>3. taken \in [Ids -> TakenType] /\ balance \in [Token -> Nat]
    BY DEF Typed, EntryTyped, MoneyTyped
  <2>4. nextId \in Ids
    BY <2>1, <2>2 DEF Ids
  <2>5. QED
    BY <2>1, <2>2, <2>3, <2>4
<1>2. /\ n \in PaymentType
      /\ n.status \in {"Pending", "ScheduledPending"}
      /\ n.customer = c /\ n.merchant = r.merchant /\ n.amount = r.amount
      /\ n.token = r.token /\ n.refunded = 0 /\ n.createdAt = now
      /\ n.split = split
  BY RecordFacts
<1>3. g \in TakenType
  BY DEF TakenType
<1>4. g.owed = r.amount /\ g.token = t /\ g.amount = x /\ g.multi = multi
  OBVIOUS
<1>5. payment' = [payment EXCEPT ![nextId] = n] /\ taken' = [taken EXCEPT ![nextId] = g]
  OBVIOUS
<1> HIDE DEF n, g
<1>6. /\ payment' \in [Ids -> PaymentType] /\ taken' \in [Ids -> TakenType]
      /\ payment'[nextId] = n /\ taken'[nextId] = g
      /\ \A q \in Ids \ {nextId} : payment'[q] = payment[q] /\ taken'[q] = taken[q]
  BY <1>1, <1>2, <1>3, <1>5
<1>7. \A q \in Ids : q >= nextId /\ q < nextId' => q = nextId
  BY <1>1 DEF Ids
<1>8. Fresh(nextId, c)
  BY <1>2, <1>4, <1>6 DEF Fresh
<1>9. balance' \in [Token -> Nat]
  BY <1>1 DEF Receive
<1>10. \A q \in Ids : q < nextId \/ q >= nextId' =>
                        payment'[q] = payment[q] /\ taken'[q] = taken[q]
  BY <1>1, <1>6 DEF Ids
<1>11. \A q \in Ids : q >= nextId /\ q < nextId' => Fresh(q, c)
  BY <1>7, <1>8
<1>12. \/ /\ \A q \in Ids : q >= nextId /\ q < nextId' => ~taken'[q].multi
          /\ stats' = [stats EXCEPT !.created = @ + 1]
       \/ /\ \A q \in Ids : q >= nextId /\ q < nextId' => taken'[q].multi
          /\ stats' = stats
  BY <1>4, <1>6, <1>7
<1>13. nextId' <= MaxPayments
  BY <1>1
<1>14. Credited
  <2>1. SUFFICES ASSUME NEW s \in Token
                 PROVE  balance'[s] = balance[s] + SumFunctionOnSet(TakenIn(s)', MadeNow)
    BY DEF Credited
  <2> DEFINE F == TakenIn(s)'
  <2>2. F[nextId] = IF t = s THEN x ELSE 0
    BY <1>1, <1>4, <1>6 DEF TakenIn
  <2>3. MadeNow = {nextId}
    BY <1>1 DEF MadeNow, Ids
  <2>4. balance[s] \in Nat /\ balance'[s] = IF t = s THEN balance[s] + x ELSE balance[s]
    BY <1>1 DEF Receive
  <2> HIDE DEF F
  <2>5. F[nextId] \in Int /\ balance'[s] = balance[s] + F[nextId]
    BY <2>2, <2>4
  <2>6. SumFunctionOnSet(F, {nextId}) = F[nextId]
    BY <2>5, SumOne
  <2>7. QED
    BY <2>3, <2>5, <2>6 DEF F
<1>15. QED
  BY <1>6, <1>9, <1>10, <1>11, <1>12, <1>13, <1>14 DEF Makes

LEMMA TwoMade ==
    ASSUME Typed, NEW c \in Customers, NEW r1 \in Request, NEW r2 \in Request,
           CreatePaymentsBatch(c, r1, r2)
    PROVE  Makes(c, 2)
<1> DEFINE n1 == Record(c, r1, <<>>, 0)
           n2 == Record(c, r2, <<>>, 0)
           g1 == [token |-> r1.token, amount |-> r1.amount, owed |-> r1.amount, multi |-> FALSE]
           g2 == [token |-> r2.token, amount |-> r2.amount, owed |-> r2.amount, multi |-> FALSE]
<1>1. /\ nextId \in Nat /\ MaxPayments \in Nat
      /\ payment \in [Ids -> PaymentType] /\ taken \in [Ids -> TakenType]
      /\ balance \in [Token -> Nat]
  BY PaymentConstants DEF Typed, PaymentsTyped, EntryTyped, MoneyTyped
<1>2. /\ r1.merchant \in Merchants /\ r1.token \in Token /\ r1.amount \in Nat /\ r1.amount > 0
      /\ r2.merchant \in Merchants /\ r2.token \in Token /\ r2.amount \in Nat /\ r2.amount > 0
  <2>1. /\ r1 \in [merchant : Merchants, amount : Int, token : Token]
        /\ r2 \in [merchant : Merchants, amount : Int, token : Token]
    BY PaymentConstants
  <2>2. r1.amount > 0 /\ r2.amount > 0
    BY DEF CreatePaymentsBatch
  <2>3. QED
    BY <2>1, <2>2
<1>3. /\ n1 \in PaymentType
      /\ n1.status \in {"Pending", "ScheduledPending"}
      /\ n1.customer = c /\ n1.merchant = r1.merchant /\ n1.amount = r1.amount
      /\ n1.token = r1.token /\ n1.refunded = 0 /\ n1.createdAt = now
      /\ n1.split = <<>>
  <2>1. 0 \in Nat /\ r1.amount \in Int
    BY <1>2
  <2>2. QED
    BY <1>2, <2>1, NoSplitValid, RecordFacts
<1>4. /\ n2 \in PaymentType
      /\ n2.status \in {"Pending", "ScheduledPending"}
      /\ n2.customer = c /\ n2.merchant = r2.merchant /\ n2.amount = r2.amount
      /\ n2.token = r2.token /\ n2.refunded = 0 /\ n2.createdAt = now
      /\ n2.split = <<>>
  <2>1. 0 \in Nat /\ r2.amount \in Int
    BY <1>2
  <2>2. QED
    BY <1>2, <2>1, NoSplitValid, RecordFacts
<1>5. g1 \in TakenType /\ g2 \in TakenType
  BY <1>2 DEF TakenType
<1>6. /\ g1.owed = r1.amount /\ g1.token = r1.token /\ g1.amount = r1.amount /\ ~g1.multi
      /\ g2.owed = r2.amount /\ g2.token = r2.token /\ g2.amount = r2.amount /\ ~g2.multi
  OBVIOUS
<1>7. /\ payment' = [payment EXCEPT ![nextId] = n1, ![nextId + 1] = n2]
      /\ taken' = [taken EXCEPT ![nextId] = g1, ![nextId + 1] = g2]
      /\ nextId + 1 < MaxPayments /\ nextId' = nextId + 2
      /\ EnforceRateLimit(c, 2)
      /\ stats' = [stats EXCEPT !.created = @ + 2]
      /\ keyOf' = keyOf
      /\ UNCHANGED <<now, paused, configVars, completionVars, subVars, settled, dispute,
                     paid, namedTwice>>
  BY DEF CreatePaymentsBatch, CountCreated
<1>8. balance' \in [Token -> Nat]
  <2> DEFINE x(t) == IF r1.token = t THEN r1.amount ELSE 0
             y(t) == IF r2.token = t THEN r2.amount ELSE 0
  <2>1. balance' = [t \in Token |-> balance[t] + x(t) + y(t)]
    BY DEF CreatePaymentsBatch
  <2>2. \A t \in Token : x(t) \in Nat /\ y(t) \in Nat
    BY <1>2
  <2> HIDE DEF x, y
  <2>3. QED
    BY <1>1, <2>1, <2>2
<1> HIDE DEF n1, n2, g1, g2
<1>9. nextId \in Ids /\ nextId + 1 \in Ids /\ nextId # nextId + 1
  BY <1>1, <1>7 DEF Ids
<1>10. /\ payment' \in [Ids -> PaymentType] /\ taken' \in [Ids -> TakenType]
       /\ payment'[nextId] = n1 /\ taken'[nextId] = g1
       /\ payment'[nextId + 1] = n2 /\ taken'[nextId + 1] = g2
       /\ \A q \in Ids \ {nextId, nextId + 1} : payment'[q] = payment[q] /\ taken'[q] = taken[q]
  BY <1>1, <1>3, <1>4, <1>5, <1>7, <1>9
<1>11. \A q \in Ids : q >= nextId /\ q < nextId' => q \in {nextId, nextId + 1}
  BY <1>1, <1>7 DEF Ids
<1>12. Fresh(nextId, c) /\ Fresh(nextId + 1, c)
  BY <1>2, <1>3, <1>4, <1>6, <1>10, NoSplitValid DEF Fresh
<1>13. \A q \in Ids : q < nextId \/ q >= nextId' =>
                        payment'[q] = payment[q] /\ taken'[q] = taken[q]
  BY <1>1, <1>7, <1>10 DEF Ids
<1>14. \A q \in Ids : q >= nextId /\ q < nextId' => Fresh(q, c)
  BY <1>11, <1>12
<1>15. \A q \in Ids : q >= nextId /\ q < nextId' => ~taken'[q].multi
  BY <1>6, <1>10, <1>11
<1>16. nextId' <= MaxPayments
  BY <1>1, <1>7
<1>17. keyOf' \in [Key -> Ids \cup {None}]
  BY <1>7 DEF Typed, EntryTyped
<1>18. Credited
  <2>1. SUFFICES ASSUME NEW s \in Token
                 PROVE  balance'[s] = balance[s] + SumFunctionOnSet(TakenIn(s)', MadeNow)
    BY DEF Credited
  <2> DEFINE F == TakenIn(s)'
             x == IF r1.token = s THEN r1.amount ELSE 0
             y == IF r2.token = s THEN r2.amount ELSE 0
  <2>2. F[nextId] = x /\ F[nextId + 1] = y
    BY <1>6, <1>9, <1>10 DEF TakenIn
  <2>3. MadeNow = {nextId, nextId + 1}
    BY <1>1, <1>7 DEF MadeNow, Ids
  <2>4. balance[s] \in Nat /\ balance'[s] = balance[s] + x + y
    BY <1>1 DEF CreatePaymentsBatch
  <2>5. x \in Int /\ y \in Int
    BY <1>2
  <2> HIDE DEF F, x, y
  <2>6. SumFunctionOnSet(F, {nextId, nextId + 1}) = F[nextId] + F[nextId + 1]
    BY <1>9, <2>2, <2>5, SumTwo
  <2>7. QED
    BY <2>2, <2>3, <2>4, <2>5, <2>6 DEF F
<1>19. QED
  BY <1>7, <1>8, <1>10, <1>13, <1>14, <1>15, <1>16, <1>17, <1>18 DEF Makes

LEMMA CreateStepMakes ==
    ASSUME Typed, CreateStep
    PROVE  \/ \E c \in Customers, n \in {1, 2} : Makes(c, n)
           \/ \E k \in Key : KeyLapses(k)
<1> DEFINE Goal == \/ \E c \in Customers, n \in {1, 2} : Makes(c, n)
                   \/ \E k \in Key : KeyLapses(k)
<1>1. ASSUME NEW c \in Customers, NEW r \in Request, NEW s \in Split,
             NEW after \in ExecuteAfter, NEW k \in Key \cup {NoKey},
             CreatePayment(c, r, s, after, k)
      PROVE  Goal
  <2>1. r \in [merchant : Merchants, amount : Int, token : Token] /\ s \in SplitType /\ after \in Nat
    BY PaymentConstants
  <2>2. r.amount > 0 /\ ValidSplit(s)
    BY <1>1 DEF CreatePayment
  <2>3. r.merchant \in Merchants /\ r.amount \in Int /\ r.amount \in Nat /\ r.token \in Token
    BY <2>1, <2>2
  <2>4. Record(c, r, s, after).amount = r.amount
    BY DEF Record
  <2>5. /\ payment' = [payment EXCEPT ![nextId] = Record(c, r, s, after)]
        /\ taken' = [taken EXCEPT ![nextId] = [token |-> r.token, amount |-> r.amount,
                                               owed |-> r.amount, multi |-> FALSE]]
        /\ nextId < MaxPayments /\ nextId' = nextId + 1
        /\ EnforceRateLimit(c, 1) /\ Receive(r.token, r.amount)
        /\ stats' = [stats EXCEPT !.created = @ + 1]
        /\ UNCHANGED <<now, paused, configVars, completionVars, subVars, settled, dispute,
                       paid, namedTwice>>
    BY <1>1, <2>4 DEF CreatePayment, Store, CountCreated
  <2>6. keyOf' \in [Key -> Ids \cup {None}]
    <3>1. keyOf \in [Key -> Ids \cup {None}] /\ nextId \in Ids
      BY <2>5, PaymentConstants DEF Typed, EntryTyped, PaymentsTyped, Ids
    <3>2. keyOf' = IF k = NoKey THEN keyOf ELSE [keyOf EXCEPT ![k] = nextId]
      BY <1>1 DEF CreatePayment
    <3>3. QED
      BY <3>1, <3>2
  <2>7. Makes(c, 1)
    <3>1. FALSE \in BOOLEAN /\ stats' = IF FALSE THEN stats ELSE [stats EXCEPT !.created = @ + 1]
      BY <2>5
    <3>2. QED
      BY <2>1, <2>2, <2>3, <2>5, <2>6, <3>1, OneMade
  <2>8. QED
    BY <2>7
<1>2. ASSUME NEW c \in Customers, NEW r1 \in Request, NEW r2 \in Request,
             CreatePaymentsBatch(c, r1, r2)
      PROVE  Goal
  BY <1>2, TwoMade
<1>3. ASSUME NEW c \in Customers, NEW m \in Merchants, NEW x \in Amount, NEW t \in Token,
             NEW price \in Price, NEW slip \in Slippage,
             CreatePaymentMultiToken(c, m, x, t, price, slip)
      PROVE  Goal
  <2> DEFINE r == [merchant |-> m, amount |-> x, token |-> usdc]
             cost == IF t = usdc THEN x ELSE Required(x, price)
  <2>1. x \in Int /\ x > 0 /\ usdc \in Token
    BY <1>3, PaymentConstants DEF CreatePaymentMultiToken, Typed, ConfigTyped
  <2>2. cost \in Nat
    <3>1. CASE t = usdc
      BY <2>1, <3>1
    <3>2. CASE t # usdc
      <4>1. price # None /\ price > 0 /\ cost > 0 /\ cost = Required(x, price)
        BY <1>3, <3>2 DEF CreatePaymentMultiToken
      <4>2. price \in Int /\ x * PricePrecision \in Int
        BY <2>1, <4>1, PaymentConstants DEF PricePrecision
      <4>3. \A y \in Int : y \div price \in Int
        <5>1. price \in Nat /\ price > 0
          BY <4>1, <4>2
        <5>2. QED
          BY <5>1
      <4> HIDE DEF cost
      <4>4. cost \in Int
        BY <4>1, <4>2, <4>3 DEF Required
      <4>5. QED
        BY <4>1, <4>4
    <3>3. QED
      BY <3>1, <3>2
  <2>3. r.merchant = m /\ r.amount = x /\ r.token = usdc /\ (t = usdc => cost = x)
    OBVIOUS
  <2>4. Record(c, r, <<>>, 0).amount = x
    BY DEF Record
  <2>5. /\ payment' = [payment EXCEPT ![nextId] = Record(c, r, <<>>, 0)]
        /\ taken' = [taken EXCEPT ![nextId] = [token |-> t, amount |-> cost,
                                               owed |-> x, multi |-> TRUE]]
        /\ nextId < MaxPayments /\ nextId' = nextId + 1
        /\ EnforceRateLimit(c, 1) /\ Receive(t, cost)
        /\ stats' = stats /\ keyOf' = keyOf
        /\ UNCHANGED <<now, paused, configVars, completionVars, subVars, settled, dispute,
                       paid, namedTwice>>
    BY <1>3, <2>4 DEF CreatePaymentMultiToken, Store
  <2> HIDE DEF r, cost
  <2>6. keyOf' \in [Key -> Ids \cup {None}]
    BY <2>5 DEF Typed, EntryTyped
  <2>7. Makes(c, 1)
    <3>1. /\ TRUE \in BOOLEAN /\ stats' = IF TRUE THEN stats ELSE [stats EXCEPT !.created = @ + 1]
          /\ 0 \in Nat
      BY <2>5
    <3>2. taken' = [taken EXCEPT ![nextId] = [token |-> t, amount |-> cost,
                                              owed |-> r.amount, multi |-> TRUE]]
      BY <2>3, <2>5
    <3>3. /\ r.merchant \in Merchants /\ r.amount \in Int /\ r.amount > 0 /\ r.token \in Token
          /\ (t = r.token => cost = r.amount)
      BY <2>1, <2>3
    <3>4. QED
      BY <2>2, <2>5, <2>6, <3>1, <3>2, <3>3, NoSplitValid, OneMade
  <2>8. QED
    BY <2>7
<1>4. ASSUME NEW k \in Key, KeyLapses(k)
      PROVE  Goal
  BY <1>4
<1>5. QED
  BY <1>1, <1>2, <1>3, <1>4 DEF CreateStep

-----------------------------------------------------------------------------
(* Every step keeps the types *)

LEMMA MakesTyped ==
    ASSUME Typed, NEW c \in Customers, NEW n \in {1, 2}, Makes(c, n)
    PROVE  Typed'
<1>1. /\ nextId \in Nat /\ MaxPayments \in Nat /\ nextId' = nextId + n
      /\ nextId' <= MaxPayments /\ nextId' \in Nat
  BY PaymentConstants DEF Typed, PaymentsTyped, Makes
<1>2. \A q \in Ids : q < nextId \/ q >= nextId' => payment'[q] = payment[q]
  BY DEF Makes
<1>3. \A q \in Ids : q >= nextId /\ q < nextId' =>
          /\ payment'[q].status # "None" /\ payment'[q].merchant \in Merchants
          /\ ValidSplit(payment'[q].split)
  BY DEF Makes, Fresh
<1>4. /\ \A q \in Ids : q < nextId <=> payment[q].status # "None"
      /\ \A q \in Ids : q < nextId => /\ payment[q].merchant \in Merchants
                                      /\ ValidSplit(payment[q].split)
  BY DEF Typed, PaymentsTyped
<1>5. PaymentsTyped'
  <2>1. \A q \in Ids : q < nextId' <=> payment'[q].status # "None"
    BY <1>1, <1>2, <1>3, <1>4 DEF Ids
  <2>2. \A q \in Ids : q < nextId' => /\ payment'[q].merchant \in Merchants
                                      /\ ValidSplit(payment'[q].split)
    BY <1>1, <1>2, <1>3, <1>4 DEF Ids
  <2>3. \A q \in Ids : ValidSplit(payment'[q].split) => ValidSplit(payment[q].split)'
    BY DEF ValidSplit
  <2>4. payment' \in [Ids -> PaymentType] /\ nextId' \in 0 .. MaxPayments
    BY <1>1 DEF Makes
  <2>5. \A q \in Ids : q < nextId' => ValidSplit(payment[q].split)'
    BY <2>2, <2>3
  <2>6. QED
    BY <2>1, <2>2, <2>4, <2>5 DEF PaymentsTyped
<1>6. RecordsTyped'
  <2>1. settled' = settled /\ dispute' = dispute
    BY DEF Makes
  <2>2. \A q \in settled : q \in Ids /\ payment[q].status = "Completed"
    BY DEF Typed, RecordsTyped, In
  <2>3. \A q \in settled : payment'[q] = payment[q]
    BY <1>2, <1>4, <2>2
  <2>4. QED
    BY <2>1, <2>2, <2>3 DEF Typed, RecordsTyped, In
<1>7. MoneyTyped'
  <2>1. balance' \in [Token -> Nat] /\ paid' = paid /\ paid \in [Ids -> Nat]
    BY DEF Makes, Typed, MoneyTyped
  <2>2. stats' \in StatsType
    <3>1. n \in Nat /\ stats \in StatsType
      BY DEF Typed, MoneyTyped
    <3>2. [stats EXCEPT !.created = @ + n] \in StatsType
      BY <3>1, PaymentConstants, StatsMoved
    <3>3. QED
      BY <3>1, <3>2 DEF Makes
  <2>3. QED
    BY <2>1, <2>2 DEF MoneyTyped
<1>8. EntryTyped'
  <2>1. now \in Nat /\ usage \in [Customers -> [count : Nat, start : Nat]]
    BY PaymentConstants DEF Typed, ClockTyped, EntryTyped
  <2>2. UsageAfter(c, n) \in [count : Nat, start : Nat]
    BY <2>1 DEF UsageAfter
  <2>3. usage' = [usage EXCEPT ![c] = UsageAfter(c, n)]
    BY DEF Makes, EnforceRateLimit
  <2>4. usage' \in [Customers -> [count : Nat, start : Nat]]
    BY <2>1, <2>2, <2>3
  <2>5. QED
    BY <2>4 DEF Makes, EntryTyped
<1>9. UNCHANGED <<now, paused, configVars, completionVars, subVars>>
  BY DEF Makes
<1>10. QED
  BY <1>5, <1>6, <1>7, <1>8, <1>9, UnchangedTyped DEF Typed

LEMMA LapseTyped ==
    ASSUME Typed, NEW k \in Key, KeyLapses(k)
    PROVE  Typed'
<1>1. EntryTyped'
  BY DEF KeyLapses, Typed, EntryTyped
<1>2. UNCHANGED <<now, paused, configVars, recordVars, completionVars, subVars, nextId>>
  BY DEF KeyLapses
<1>3. QED
  BY <1>1, <1>2, UnchangedTyped DEF Typed, recordVars

LEMMA CompletesTyped ==
    ASSUME Typed, NEW p \in Ids, NEW net \in Nat, Completes(p, net)
    PROVE  Typed'
<1>1. payment[p].status \in Open \cup Closed
  BY DEF Completes, Open
<1>2. /\ p < nextId
      /\ payment[p].merchant \in Merchants /\ payment[p].token \in Token
      /\ payment[p].amount \in Nat /\ payment[p].refunded \in Nat
  BY <1>1, StoredIfUsed
<1>3. Alters(p, "Completed", net, payment[p].refunded) /\ "Completed" \in Open \cup Closed
  BY DEF Completes, Closed
<1>4. PaymentsTyped' /\ payment'[p].status = "Completed"
      /\ \A q \in Ids \ {p} : payment'[q] = payment[q]
  BY <1>2, <1>3, AlteredPayments
<1>5. RecordsTyped'
  <2>1. settled' = settled \cup {p} /\ dispute' = dispute
    BY DEF Completes
  <2>2. QED
    BY <1>4, <2>1 DEF Typed, RecordsTyped, In
<1>6. MoneyTyped'
  <2>1. PayOut(p, payment[p].amount)
        /\ stats' = [stats EXCEPT !.completed = @ + 1,
                                  !.volumeCompleted[payment[p].token] = @ + net]
    BY DEF Completes
  <2>2. balance' \in [Token -> Nat] /\ paid' \in [Ids -> Nat]
    BY <1>2, <2>1, PaidOutTyped
  <2>3. stats' \in StatsType
    BY <1>2, <2>1, StatsMoved
  <2>4. QED
    BY <2>2, <2>3 DEF MoneyTyped
<1>7. CompletionTyped'
  <2> DEFINE m == payment[p].merchant
             b == Bucket(now)
             x == payment[p].amount
  <2>1. now \in 0 .. MaxTime /\ now \in Nat /\ MaxTime \in Nat /\ now <= MaxTime
    BY PaymentConstants DEF Typed, ClockTyped
  <2>2. b \in Buckets
    BY <2>1, BucketsInOrder DEF Buckets
  <2>3. /\ volume' = [volume EXCEPT ![m][b] = @ + x]
        /\ receipt' = [receipt EXCEPT ![p] = now]
    BY DEF Completes
  <2>4. volume \in [Merchants -> [Buckets -> Nat]] /\ receipt \in [Ids -> 0 .. MaxTime]
    BY DEF Typed, CompletionTyped
  <2> HIDE DEF m, b, x
  <2>5. m \in Merchants /\ x \in Nat
    BY <1>2 DEF m, x
  <2>6. volume[m][b] + x \in Nat
    BY <2>2, <2>4, <2>5
  <2>7. QED
    BY <2>1, <2>2, <2>3, <2>4, <2>5, <2>6 DEF CompletionTyped
<1>8. UNCHANGED <<now, paused, configVars, entryVars, subVars>>
  BY DEF Completes
<1>9. QED
  BY <1>4, <1>5, <1>6, <1>7, <1>8, UnchangedTyped DEF Typed, entryVars

LEMMA GivesBackTyped ==
    ASSUME Typed, NEW p \in Ids, NEW st \in {"Refunded", "Expired"}, GivesBack(p, st)
    PROVE  Typed'
<1>1. payment[p].status \in Open \cup Closed
  BY DEF GivesBack
<1>2. /\ p < nextId /\ payment[p].token \in Token
      /\ payment[p].amount \in Nat /\ payment[p].refunded \in Nat
  BY <1>1, StoredIfUsed
<1>3. Alters(p, st, payment[p].amount, payment[p].refunded) /\ st \in Open \cup Closed
  BY DEF GivesBack, Closed
<1>4. PaymentsTyped' /\ payment'[p].status = st
      /\ \A q \in Ids \ {p} : payment'[q] = payment[q]
  BY <1>2, <1>3, AlteredPayments
<1>5. p \notin settled /\ settled' = settled
      /\ dispute' \in [Ids -> {"None", "Raised", "Resolved"}]
  BY OpenUnsettled DEF GivesBack
<1>6. RecordsTyped'
  BY <1>4, <1>5 DEF Typed, RecordsTyped, In
<1>7. MoneyTyped'
  <2>1. /\ PayOut(p, payment[p].amount)
        /\ stats' = IF st = "Expired" THEN [stats EXCEPT !.expired = @ + 1]
                    ELSE [stats EXCEPT !.refunded = @ + 1,
                               !.volumeRefunded[payment[p].token] = @ + payment[p].amount]
    BY DEF GivesBack
  <2>2. balance' \in [Token -> Nat] /\ paid' \in [Ids -> Nat]
    BY <1>2, <2>1, PaidOutTyped
  <2>3. stats' \in StatsType
    BY <1>2, <2>1, StatsMoved
  <2>4. QED
    BY <2>2, <2>3 DEF MoneyTyped
<1>8. UNCHANGED <<now, paused, configVars, entryVars, completionVars, subVars>>
  BY DEF GivesBack
<1>9. QED
  BY <1>4, <1>6, <1>7, <1>8, UnchangedTyped DEF Typed, entryVars

LEMMA RefundsTyped ==
    ASSUME Typed, NEW p \in Ids, NEW x \in Nat, Refunds(p, x)
    PROVE  Typed'
<1> DEFINE back == payment[p].refunded + x
           st == IF back >= payment[p].amount THEN "Refunded" ELSE payment[p].status
<1>1. payment[p].status \in Open \cup Closed
  BY DEF Refunds, Open
<1>2. /\ p < nextId /\ payment[p].token \in Token
      /\ payment[p].amount \in Nat /\ payment[p].refunded \in Nat /\ back \in Nat
  BY <1>1, StoredIfUsed
<1>3. Alters(p, st, payment[p].amount, back) /\ st \in Open \cup Closed
  BY <1>1 DEF Refunds, Closed
<1> HIDE DEF st, back
<1>4. PaymentsTyped' /\ \A q \in Ids \ {p} : payment'[q] = payment[q]
  BY <1>2, <1>3, AlteredPayments
<1>5. p \notin settled /\ settled' = settled /\ dispute' = dispute
  BY OpenUnsettled DEF Refunds, Open
<1>6. RecordsTyped'
  BY <1>4, <1>5 DEF Typed, RecordsTyped, In
<1>7. MoneyTyped'
  <2>1. /\ PayOut(p, x)
        /\ stats' = [stats EXCEPT !.refunded = @ + 1,
                               !.volumeRefunded[payment[p].token] = @ + x]
    BY DEF Refunds
  <2>2. balance' \in [Token -> Nat] /\ paid' \in [Ids -> Nat]
    BY <1>2, <2>1, PaidOutTyped
  <2>3. stats' \in StatsType
    BY <1>2, <2>1, StatsMoved
  <2>4. QED
    BY <2>2, <2>3 DEF MoneyTyped
<1>8. UNCHANGED <<now, paused, configVars, entryVars, completionVars, subVars>>
  BY DEF Refunds
<1>9. QED
  BY <1>4, <1>6, <1>7, <1>8, UnchangedTyped DEF Typed, entryVars

LEMMA DecidesTyped ==
    ASSUME Typed, NEW p \in Ids, NEW st \in {"Disputed", "Completed"}, Decides(p, st)
    PROVE  Typed'
<1>1. payment[p].status \in Open \cup Closed
  BY DEF Decides
<1>2. p < nextId /\ payment[p].amount \in Nat /\ payment[p].refunded \in Nat
  BY <1>1, StoredIfUsed
<1>3. Alters(p, st, payment[p].amount, payment[p].refunded) /\ st \in Open \cup Closed
  BY DEF Decides, Open, Closed
<1>4. PaymentsTyped' /\ \A q \in Ids \ {p} : payment'[q] = payment[q]
  BY <1>2, <1>3, AlteredPayments
<1>5. p \notin settled /\ settled' = settled
      /\ dispute' \in [Ids -> {"None", "Raised", "Resolved"}]
  BY DEF Decides
<1>6. RecordsTyped'
  BY <1>4, <1>5 DEF Typed, RecordsTyped, In
<1>7. UNCHANGED <<now, paused, configVars, entryVars, completionVars, subVars, stats,
                  balance, paid>>
  BY DEF Decides
<1>8. QED
  BY <1>4, <1>6, <1>7, UnchangedTyped DEF Typed, entryVars

(* A settlement pays each payment named as often as it is named.            *)
Named(batch) == {batch[i] : i \in DOMAIN batch}
Times(batch, p) == Cardinality({i \in DOMAIN batch : batch[i] = p})

LEMMA SettlementEffect ==
    ASSUME Typed, NEW m \in Merchants, NEW batch \in Selection, Settles(m, batch)
    PROVE  /\ Named(batch) \subseteq Ids
           /\ \A p \in Named(batch) : /\ payment[p].status = "Completed" /\ p \notin settled
                                      /\ Times(batch, p) \in Nat /\ Times(batch, p) > 0
           /\ balance' \in [Token -> Nat]
           /\ paid' = [p \in Ids |-> IF p \in Named(batch)
                                     THEN paid[p] + payment[p].amount * Times(batch, p)
                                     ELSE paid[p]]
           /\ paid' \in [Ids -> Nat]
           /\ namedTwice' = namedTwice \cup {p \in Named(batch) : Times(batch, p) > 1}
           /\ settled' = settled \cup Named(batch)
           /\ UNCHANGED <<now, paused, configVars, entryVars, completionVars, subVars,
                          payment, dispute, stats>>
<1> DEFINE t == payment[batch[1]].token
           owed == [i \in DOMAIN batch |-> payment[batch[i]].amount]
           total == SumFunctionOnSet(owed, DOMAIN batch)
           D == DOMAIN batch
<1>1. /\ batch \in Seq(Ids) /\ batch # <<>>
      /\ \A i \in DOMAIN batch : /\ payment[batch[i]].status = "Completed"
                                 /\ batch[i] \notin settled
      /\ total <= balance[t]
      /\ balance' = [balance EXCEPT ![t] = @ - total]
      /\ paid' = [p \in Ids |-> IF p \in Named(batch)
                                THEN paid[p] + payment[p].amount * Times(batch, p)
                                ELSE paid[p]]
      /\ namedTwice' = namedTwice \cup {p \in Named(batch) : Times(batch, p) > 1}
      /\ settled' = settled \cup Named(batch)
      /\ UNCHANGED <<now, paused, configVars, entryVars, completionVars, subVars,
                     payment, dispute, stats>>
  BY DEF Settles, SettleMerchantPayments, Named, Times, Has
<1>2. D = 1 .. Len(batch) /\ Len(batch) \in Nat /\ IsFiniteSet(D)
  <2>1. DOMAIN batch = 1 .. Len(batch) /\ Len(batch) \in Nat
    BY <1>1, LenProperties
  <2>2. IsFiniteSet(1 .. Len(batch))
    BY <2>1, FS_Interval
  <2>3. QED
    BY <2>1, <2>2
<1>3. \A i \in D : batch[i] \in Ids
  BY <1>1, <1>2, ElementOfSeq
<1>4. 1 \in D
  BY <1>1, <1>2, EmptySeq
<1>5. /\ payment \in [Ids -> PaymentType] /\ balance \in [Token -> Nat] /\ paid \in [Ids -> Nat]
  BY DEF Typed, PaymentsTyped, MoneyTyped
<1>6. /\ t \in Token /\ \A p \in Ids : payment[p].amount \in Nat
  BY <1>3, <1>4, <1>5 DEF PaymentType
<1>7. total \in Nat
  <2>1. \A i \in D : owed[i] \in Nat
    BY <1>3, <1>6
  <2> HIDE DEF owed
  <2>2. QED
    BY <1>2, <2>1, SumNat
<1>8. balance' \in [Token -> Nat]
  <2> HIDE DEF total, t
  <2>1. balance[t] - total \in Nat
    BY <1>1, <1>5, <1>6, <1>7
  <2>2. QED
    BY <1>1, <1>5, <1>6, <2>1
<1>9. Named(batch) \subseteq Ids
  BY <1>3 DEF Named
<1>10. \A p \in Named(batch) : payment[p].status = "Completed" /\ p \notin settled
  BY <1>1 DEF Named
<1>11. \A p \in Named(batch) : Times(batch, p) \in Nat /\ Times(batch, p) > 0
  <2>1. SUFFICES ASSUME NEW p \in Named(batch)
                 PROVE  Times(batch, p) \in Nat /\ Times(batch, p) > 0
    OBVIOUS
  <2> DEFINE S == {i \in D : batch[i] = p}
  <2>2. S \subseteq D /\ S # {}
    BY DEF Named
  <2> HIDE DEF S
  <2>3. IsFiniteSet(S)
    BY <1>2, <2>2, FS_Subset
  <2>4. Cardinality(S) \in Nat /\ Cardinality(S) # 0
    BY <2>2, <2>3, FS_CardinalityType, FS_EmptySet
  <2>5. QED
    BY <2>4 DEF S, Times
<1>12. paid' \in [Ids -> Nat]
  <2> DEFINE f(p) == IF p \in Named(batch) THEN paid[p] + payment[p].amount * Times(batch, p)
                     ELSE paid[p]
  <2>1. \A p \in Ids : f(p) \in Nat
    BY <1>5, <1>6, <1>11
  <2>2. paid' = [p \in Ids |-> f(p)]
    BY <1>1
  <2> HIDE DEF f
  <2>3. QED
    BY <2>1, <2>2
<1>13. QED
  BY <1>1, <1>8, <1>9, <1>10, <1>11, <1>12

LEMMA SettlesTyped ==
    ASSUME Typed, NEW m \in Merchants, NEW batch \in Selection, Settles(m, batch)
    PROVE  Typed'
<1>1. /\ Named(batch) \subseteq Ids
      /\ \A p \in Named(batch) : payment[p].status = "Completed"
      /\ balance' \in [Token -> Nat] /\ paid' \in [Ids -> Nat]
      /\ settled' = settled \cup Named(batch)
      /\ UNCHANGED <<now, paused, configVars, entryVars, completionVars, subVars,
                     payment, dispute, stats>>
  BY SettlementEffect
<1>2. RecordsTyped'
  BY <1>1 DEF Typed, RecordsTyped, In
<1>3. MoneyTyped'
  BY <1>1 DEF Typed, MoneyTyped
<1>4. QED
  BY <1>1, <1>2, <1>3, UnchangedTyped DEF Typed, entryVars

LEMMA SubscriptionTyped ==
    ASSUME Typed, SubscriptionStep
    PROVE  Typed'
<1>1. SubsTyped'
  <2>1. nextSub \in 0 .. MaxSubscriptions /\ subscription \in [Subs -> SubscriptionType]
    BY DEF Typed, SubsTyped
  <2>2. ASSUME NEW q \in Plan, CreateSubscription(q)
        PROVE  SubsTyped'
    <3> DEFINE n == [subscriber |-> q.subscriber, merchant |-> q.merchant, amount |-> q.amount,
                     token |-> q.token, interval |-> q.interval, last |-> 0, max |-> q.max,
                     count |-> 0, state |-> "Active"]
    <3>1. /\ nextSub < MaxSubscriptions /\ nextSub' = nextSub + 1 /\ q.amount > 0
          /\ subscription' = [subscription EXCEPT ![nextSub] = n]
      BY <2>2 DEF CreateSubscription
    <3>2. n \in SubscriptionType
      <4>1. q \in [subscriber : Customers, merchant : Merchants, amount : Int,
                   token : Token, interval : Nat, max : Nat]
            /\ Customers \subseteq Address /\ Merchants \subseteq Address
        BY PaymentConstants
      <4>2. /\ q.subscriber \in Address /\ q.merchant \in Address /\ q.amount \in Nat
            /\ q.token \in Token /\ q.interval \in Nat /\ q.max \in Nat
        BY <3>1, <4>1
      <4> DEFINE S == {"None", "Active", "Cancelled"}
      <4>3. "Active" \in S
        OBVIOUS
      <4>4. SubscriptionType = [subscriber : Address, merchant : Address, amount : Nat,
                                token : Token, interval : Nat, last : Nat, max : Nat,
                                count : Nat, state : S]
        BY DEF SubscriptionType
      <4> HIDE DEF S
      <4>5. QED
        BY <4>2, <4>3, <4>4
    <3> HIDE DEF n
    <3>3. MaxSubscriptions \in Nat
      BY PaymentConstants
    <3>4. nextSub' \in 0 .. MaxSubscriptions
      BY <2>1, <3>1, <3>3
    <3>5. QED
      BY <2>1, <3>1, <3>2, <3>4 DEF SubsTyped
  <2>3. ASSUME NEW s \in Subs, ChargeSubscription(s)
        PROVE  SubsTyped'
    <3> DEFINE n == [subscription[s] EXCEPT !.last = now, !.count = @ + 1]
    <3>1. subscription' = [subscription EXCEPT ![s] = n] /\ nextSub' = nextSub
      BY <2>3 DEF ChargeSubscription
    <3>2. now \in Nat
      BY PaymentConstants DEF Typed, ClockTyped
    <3>3. n \in SubscriptionType
      <4> DEFINE old == subscription[s]
                 more == old.count + 1
                 S == {"None", "Active", "Cancelled"}
      <4>1. SubscriptionType = [subscriber : Address, merchant : Address, amount : Nat,
                                token : Token, interval : Nat, last : Nat, max : Nat,
                                count : Nat, state : S]
        BY DEF SubscriptionType
      <4>2. old \in SubscriptionType
        BY <2>1
      <4> HIDE DEF S, old
      <4>3. more \in Nat
        BY <4>1, <4>2
      <4> HIDE DEF more
      <4>4. [old EXCEPT !.last = now, !.count = more] \in SubscriptionType
        BY <3>2, <4>1, <4>2, <4>3
      <4>5. QED
        BY <4>4 DEF old, more
    <3> HIDE DEF n
    <3>4. QED
      BY <2>1, <3>1, <3>3 DEF SubsTyped
  <2>4. ASSUME NEW c \in Address, NEW s \in Subs, CancelSubscription(c, s)
        PROVE  SubsTyped'
    <3> DEFINE n == [subscription[s] EXCEPT !.state = "Cancelled"]
    <3>1. subscription' = [subscription EXCEPT ![s] = n] /\ nextSub' = nextSub
      BY <2>4 DEF CancelSubscription
    <3>2. n \in SubscriptionType
      BY <2>1 DEF SubscriptionType
    <3> HIDE DEF n
    <3>3. QED
      BY <2>1, <3>1, <3>2 DEF SubsTyped
  <2>5. QED
    BY <2>2, <2>3, <2>4 DEF SubscriptionStep
<1>2. UNCHANGED <<now, paused, configVars, entryVars, recordVars, completionVars>>
  BY DEF SubscriptionStep, CreateSubscription, ChargeSubscription, CancelSubscription
<1>3. QED
  BY <1>1, <1>2, UnchangedTyped DEF Typed, entryVars, recordVars

LEMMA ConfigStepTyped ==
    ASSUME Typed, ConfigStep
    PROVE  Typed'
<1>1. ConfigTyped
  BY DEF Typed
<1>2. ConfigTyped'
  <2>1. ASSUME NEW f \in FeeRate, UpdateFee(f)
        PROVE  ConfigTyped'
    <3>1. f \in Nat /\ f <= MaxFeeBps /\ feeBps' = f
      BY <2>1, PaymentConstants DEF UpdateFee
    <3>2. feeBps' \in 0 .. MaxFeeBps
      BY <3>1 DEF MaxFeeBps
    <3>3. QED
      BY <1>1, <2>1, <3>2 DEF UpdateFee, ConfigTyped, ValidTiers
  <2>2. ASSUME NEW s \in TierTable, UpdateFeeTiers(s)
        PROVE  ConfigTyped'
    <3>1. s \in Seq(TierType)
      BY PaymentConstants
    <3>2. ValidTiers(s) /\ feeTiers' = s
      BY <2>2 DEF UpdateFeeTiers
    <3>3. ValidTiers(feeTiers)'
      BY <3>2 DEF ValidTiers
    <3>4. QED
      BY <1>1, <2>2, <3>1, <3>2, <3>3 DEF UpdateFeeTiers, ConfigTyped
  <2>3. ASSUME NEW l \in Limit, UpdateRateLimitConfig(l)
        PROVE  ConfigTyped'
    <3>1. l \in [max : Nat, window : Nat] /\ l.max > 0 /\ l.window > 0
      BY <2>3, PaymentConstants DEF UpdateRateLimitConfig
    <3>2. l \in LimitType
      BY <3>1 DEF LimitType
    <3>3. QED
      BY <1>1, <2>3, <3>2 DEF UpdateRateLimitConfig, ConfigTyped, ValidTiers
  <2>4. ASSUME NEW d \in Timeout, SetPaymentTimeout(d)
        PROVE  ConfigTyped'
    <3>1. d \in Nat /\ d > 0
      BY <2>4, PaymentConstants DEF SetPaymentTimeout
    <3>2. QED
      BY <1>1, <2>4, <3>1 DEF SetPaymentTimeout, ConfigTyped, ValidTiers
  <2>5. ASSUME NEW n \in BatchSize, SetMaxBatchSize(n)
        PROVE  ConfigTyped'
    <3>1. n \in Nat /\ n > 0
      BY <2>5, PaymentConstants DEF SetMaxBatchSize
    <3>2. QED
      BY <1>1, <2>5, <3>1 DEF SetMaxBatchSize, ConfigTyped, ValidTiers
  <2>6. ASSUME NEW t \in UsdcToken, SetOracle(t)
        PROVE  ConfigTyped'
    <3>1. t \in Token
      BY PaymentConstants
    <3>2. QED
      BY <1>1, <2>6, <3>1 DEF SetOracle, ConfigTyped, ValidTiers
  <2>7. ASSUME NEW open \in Mode, SetOpenMode(open)
        PROVE  ConfigTyped'
    <3>1. open \in BOOLEAN
      BY PaymentConstants
    <3>2. QED
      BY <1>1, <2>7, <3>1 DEF SetOpenMode, ConfigTyped, ValidTiers
  <2>8. ASSUME NEW m \in Vetted, ApproveMerchant(m) \/ RevokeMerchant(m)
        PROVE  ConfigTyped'
    <3>1. m \in Merchants
      BY PaymentConstants
    <3>2. QED
      BY <1>1, <2>8, <3>1
         DEF ApproveMerchant, RevokeMerchant, ChangeApproval, ConfigTyped, ValidTiers
  <2>9. QED
    BY <2>1, <2>2, <2>3, <2>4, <2>5, <2>6, <2>7, <2>8 DEF ConfigStep
<1>3. UNCHANGED <<now, paused, ledgerVars>>
  BY DEF ConfigStep, UpdateFee, UpdateFeeTiers, UpdateRateLimitConfig, SetPaymentTimeout,
         SetMaxBatchSize, SetOracle, SetOpenMode, ApproveMerchant, RevokeMerchant,
         ChangeApproval
<1>4. QED
  BY <1>2, <1>3, UnchangedTyped DEF Typed, ledgerVars, entryVars, recordVars

LEMMA ClockStepTyped ==
    ASSUME Typed, AdminStep \/ Tick \/ UNCHANGED vars
    PROVE  Typed'
<1>1. ClockTyped'
  <2>1. ClockTyped /\ Genesis \in Nat /\ MaxTime \in Nat
    BY PaymentConstants DEF Typed
  <2>2. CASE AdminStep
    BY <2>1, <2>2 DEF AdminStep, PauseContract, ResumeContract, ClockTyped
  <2>3. CASE Tick
    BY <2>1, <2>3 DEF Tick, ClockTyped
  <2>4. CASE UNCHANGED vars
    BY <2>1, <2>4 DEF vars, ClockTyped
  <2>5. QED
    BY <2>2, <2>3, <2>4
<1>2. UNCHANGED <<configVars, ledgerVars>>
  BY DEF AdminStep, PauseContract, ResumeContract, Tick, vars, ledgerVars
<1>3. QED
  BY <1>1, <1>2, UnchangedTyped DEF Typed, ledgerVars, entryVars, recordVars

LEMMA StepTyped ==
    ASSUME Typed, [Next]_vars
    PROVE  Typed'
<1>1. CASE CreateStep
  BY <1>1, CreateStepMakes, MakesTyped, LapseTyped
<1>2. CASE PaymentStep
  <2>1. CASE \E p \in Ids : MovesPayment(p)
    BY <2>1, CompletesTyped, GivesBackTyped, RefundsTyped, DecidesTyped DEF MovesPayment
  <2>2. CASE \E m \in Merchants, batch \in Selection : Settles(m, batch)
    BY <2>2, SettlesTyped
  <2>3. QED
    BY <1>2, <2>1, <2>2, PaymentStepMoves
<1>3. CASE SubscriptionStep
  BY <1>3, SubscriptionTyped
<1>4. CASE ConfigStep
  BY <1>4, ConfigStepTyped
<1>5. CASE AdminStep \/ Tick \/ UNCHANGED vars
  BY <1>5, ClockStepTyped
<1>6. QED
  BY <1>1, <1>2, <1>3, <1>4, <1>5 DEF Next

(* Every reachable state is well formed: identifiers in use and records     *)
(* agree, only completed payments are settled, and no balance or counter is *)
(* below zero.                                                              *)
THEOREM PaymentTypeCorrect == Spec => []TypeOK
<1>1. Init => Typed
  BY InitTyped
<1>2. Typed /\ [Next]_vars => Typed'
  BY StepTyped
<1>3. Typed => TypeOK
  BY TypedIsTypeOK
<1>4. QED
  BY <1>1, <1>2, <1>3, PTL DEF Spec

-----------------------------------------------------------------------------
(* What the calls on payments leave alone *)

Rest ==
    /\ UNCHANGED <<recordVars, completionVars, nextId, usage, taken>>
    /\ now' >= now

(* Every step is one of a few. *)
LEMMA StepIsOneOf ==
    ASSUME Typed, [Next]_vars
    PROVE  \/ \E c \in Customers, n \in {1, 2} : Makes(c, n)
           \/ \E p \in Ids : MovesPayment(p)
           \/ \E m \in Merchants, batch \in Selection : Settles(m, batch)
           \/ Rest
<1>1. now \in Nat
  BY PaymentConstants DEF Typed, ClockTyped
<1>2. CASE CreateStep
  <2>1. ASSUME NEW k \in Key, KeyLapses(k)
        PROVE  Rest
    BY <1>1, <2>1 DEF KeyLapses, Rest
  <2>2. QED
    BY <1>2, <2>1, CreateStepMakes
<1>3. CASE PaymentStep
  BY <1>3, PaymentStepMoves
<1>4. SubscriptionStep => Rest
  <2>1. SubscriptionStep => UNCHANGED <<now, entryVars, recordVars, completionVars>>
    BY DEF SubscriptionStep, CreateSubscription, ChargeSubscription, CancelSubscription
  <2>2. QED
    BY <1>1, <2>1 DEF Rest, entryVars
<1>5. ConfigStep => Rest
  BY <1>1 DEF ConfigStep, UpdateFee, UpdateFeeTiers, UpdateRateLimitConfig,
              SetPaymentTimeout, SetMaxBatchSize, SetOracle, SetOpenMode,
              ApproveMerchant, RevokeMerchant, ChangeApproval, Rest, ledgerVars, entryVars
<1>6. AdminStep => Rest
  BY <1>1 DEF AdminStep, PauseContract, ResumeContract, Rest, ledgerVars, entryVars
<1>7. Tick => Rest
  BY <1>1 DEF Tick, Rest, ledgerVars, entryVars
<1>8. UNCHANGED vars => Rest
  BY <1>1 DEF vars, Rest, entryVars
<1>9. QED
  BY <1>2, <1>3, <1>4, <1>5, <1>6, <1>7, <1>8 DEF Next

(* What a move of one payment does to its record; the others stay.          *)
MovedTo(p, st, a, b) ==
    /\ payment'[p].status = st /\ payment'[p].amount = a /\ payment'[p].refunded = b
    /\ payment'[p].customer = payment[p].customer
    /\ payment'[p].merchant = payment[p].merchant
    /\ payment'[p].token = payment[p].token
    /\ payment'[p].createdAt = payment[p].createdAt
    /\ payment[p].status \in Open
    /\ payment[p].token \in Token /\ payment[p].merchant \in Merchants
    /\ payment[p].amount \in Nat /\ payment[p].refunded \in Nat
    /\ p < nextId /\ p \notin settled
    /\ nextId' = nextId /\ taken' = taken /\ usage' = usage /\ now' = now
    /\ namedTwice' = namedTwice
    /\ \A q \in Ids \ {p} : payment'[q] = payment[q] /\ paid'[q] = paid[q]
    /\ \A q \in Ids \ {p} : q \in settled' <=> q \in settled

LEMMA CompletesMoves ==
    ASSUME Typed, NEW p \in Ids, NEW net \in Nat, Completes(p, net)
    PROVE  /\ MovedTo(p, "Completed", net, payment[p].refunded)
           /\ p \in settled' /\ paid'[p] = paid[p] + payment[p].amount
<1>1. payment[p].status \in Open
  BY DEF Completes, Open
<1>2. /\ p < nextId
      /\ payment[p].merchant \in Merchants /\ payment[p].token \in Token
      /\ payment[p].amount \in Nat /\ payment[p].refunded \in Nat
  BY <1>1, StoredIfUsed
<1>3. Alters(p, "Completed", net, payment[p].refunded) /\ "Completed" \in Open \cup Closed
  BY DEF Completes, Closed
<1>4. PayOut(p, payment[p].amount)
  BY DEF Completes
<1>5. /\ paid'[p] = paid[p] + payment[p].amount
      /\ \A q \in Ids \ {p} : paid'[q] = paid[q]
  BY <1>2, <1>4, PaidOutTyped
<1>6. p \notin settled
  BY <1>1, OpenUnsettled
<1>7. settled' = settled \cup {p}
      /\ UNCHANGED <<nextId, taken, usage, now, namedTwice>>
  BY DEF Completes, entryVars
<1>8. QED
  BY <1>1, <1>2, <1>3, <1>5, <1>6, <1>7, AlteredPayments DEF MovedTo

LEMMA GivesBackMoves ==
    ASSUME Typed, NEW p \in Ids, NEW st \in {"Refunded", "Expired"}, GivesBack(p, st)
    PROVE  /\ MovedTo(p, st, payment[p].amount, payment[p].refunded)
           /\ paid'[p] = paid[p] + payment[p].amount
<1>1. payment[p].status \in Open
  BY DEF GivesBack
<1>2. /\ p < nextId
      /\ payment[p].merchant \in Merchants /\ payment[p].token \in Token
      /\ payment[p].amount \in Nat /\ payment[p].refunded \in Nat
  BY <1>1, StoredIfUsed
<1>3. Alters(p, st, payment[p].amount, payment[p].refunded) /\ st \in Open \cup Closed
  BY DEF GivesBack, Closed
<1>4. PayOut(p, payment[p].amount)
  BY DEF GivesBack
<1>5. /\ paid'[p] = paid[p] + payment[p].amount
      /\ \A q \in Ids \ {p} : paid'[q] = paid[q]
  BY <1>2, <1>4, PaidOutTyped
<1>6. p \notin settled
  BY <1>1, OpenUnsettled
<1>7. settled' = settled
      /\ UNCHANGED <<nextId, taken, usage, now, namedTwice>>
  BY DEF GivesBack, entryVars
<1>8. QED
  BY <1>1, <1>2, <1>3, <1>5, <1>6, <1>7, AlteredPayments DEF MovedTo

AfterRefund(p, x) ==
    IF payment[p].refunded + x >= payment[p].amount THEN "Refunded" ELSE payment[p].status

LEMMA RefundsMoves ==
    ASSUME Typed, NEW p \in Ids, NEW x \in Nat, Refunds(p, x)
    PROVE  /\ MovedTo(p, AfterRefund(p, x), payment[p].amount, payment[p].refunded + x)
           /\ AfterRefund(p, x) \in Open \cup {"Refunded"}
<1> DEFINE back == payment[p].refunded + x
           st == AfterRefund(p, x)
<1>1. payment[p].status \in Open
  BY DEF Refunds, Open
<1>2. /\ p < nextId
      /\ payment[p].merchant \in Merchants /\ payment[p].token \in Token
      /\ payment[p].amount \in Nat /\ payment[p].refunded \in Nat /\ back \in Nat
  BY <1>1, StoredIfUsed
<1>3. Alters(p, st, payment[p].amount, back) /\ st \in Open \cup {"Refunded"}
  BY <1>1 DEF Refunds, AfterRefund
<1>4. st \in Open \cup Closed
  BY <1>3 DEF Closed
<1>5. PayOut(p, x)
  BY DEF Refunds
<1>6. \A q \in Ids \ {p} : paid'[q] = paid[q]
  BY <1>5, PaidOutTyped
<1>7. p \notin settled
  BY <1>1, OpenUnsettled
<1>8. settled' = settled
      /\ UNCHANGED <<nextId, taken, usage, now, namedTwice>>
  BY DEF Refunds, entryVars
<1> HIDE DEF st, back
<1>9. MovedTo(p, st, payment[p].amount, back)
  BY <1>1, <1>2, <1>3, <1>4, <1>6, <1>7, <1>8, AlteredPayments DEF MovedTo
<1>10. QED
  BY <1>3, <1>9 DEF st, back

LEMMA DecidesMoves ==
    ASSUME Typed, NEW p \in Ids, NEW st \in {"Disputed", "Completed"}, Decides(p, st)
    PROVE  /\ MovedTo(p, st, payment[p].amount, payment[p].refunded)
           /\ paid'[p] = paid[p] /\ p \notin settled'
<1>1. payment[p].status \in Open
  BY DEF Decides
<1>2. /\ p < nextId
      /\ payment[p].merchant \in Merchants /\ payment[p].token \in Token
      /\ payment[p].amount \in Nat /\ payment[p].refunded \in Nat
  BY <1>1, StoredIfUsed
<1>3. Alters(p, st, payment[p].amount, payment[p].refunded) /\ st \in Open \cup Closed
  BY DEF Decides, Open, Closed
<1>4. /\ settled' = settled /\ p \notin settled
      /\ UNCHANGED <<nextId, taken, usage, now, namedTwice, paid>>
  BY DEF Decides, entryVars
<1>5. QED
  BY <1>1, <1>2, <1>3, <1>4, AlteredPayments DEF MovedTo

-----------------------------------------------------------------------------
(* What leaves on a payment's account *)

(* While a payment waits, what was taken in for it is what is on record.    *)
Waiting(p) == payment[p].status \in Open \/ (Has(p, "Completed") /\ p \notin settled)

(* Not refunded in part either. *)
Plain(p) == payment[p].refunded = 0 /\ Traced(p)

(* What left on its account: its partial refunds, and the whole at its end. *)
Left(p) ==
    payment[p].refunded + (IF PaidOut(p) /\ ~BackInParts(p) THEN taken[p].amount ELSE 0)

AccountAgrees(p) ==
    /\ p >= nextId => paid[p] = 0
    /\ payment[p].status \in Open => payment[p].refunded < payment[p].amount
    /\ Traced(p) => paid[p] = Left(p)
    /\ Waiting(p) => (taken[p].token = payment[p].token => taken[p].amount = payment[p].amount)
    /\ Plain(p) => paid[p] = IF PaidOut(p) THEN taken[p].amount ELSE 0

AccountInv == \A p \in Ids : AccountAgrees(p)

LEMMA AccountKept ==
    ASSUME NEW p \in Ids, AccountAgrees(p), payment'[p] = payment[p], taken'[p] = taken[p],
           paid'[p] = paid[p], p \in settled' <=> p \in settled,
           p \in namedTwice' <=> p \in namedTwice, p >= nextId' => p >= nextId
    PROVE  AccountAgrees(p)'
BY DEF AccountAgrees, Waiting, Plain, Traced, Left, BackInParts, PaidOut, Has

LEMMA MovesKeepAccounts ==
    ASSUME Typed, AccountInv, NEW p \in Ids, MovesPayment(p)
    PROVE  AccountInv'
<1>1. AccountAgrees(p) /\ paid[p] \in Nat /\ p \in Nat /\ nextId \in Nat
  BY PaymentConstants DEF AccountInv, Typed, MoneyTyped, PaymentsTyped, Ids
<1>2. ASSUME NEW st, NEW a, NEW b, MovedTo(p, st, a, b)
      PROVE  \A q \in Ids \ {p} : AccountAgrees(q)'
  BY <1>2, AccountKept DEF AccountInv, MovedTo
<1>3. ASSUME NEW net \in Nat, Completes(p, net)
      PROVE  AccountInv'
  <2>1. /\ MovedTo(p, "Completed", net, payment[p].refunded)
        /\ p \in settled' /\ paid'[p] = paid[p] + payment[p].amount
    BY <1>3, CompletesMoves
  <2>2. AccountAgrees(p)'
    BY <1>1, <2>1 DEF AccountAgrees, MovedTo, Waiting, Plain, Traced, Left, BackInParts, PaidOut, Has, Open
  <2>3. QED
    BY <1>2, <2>1, <2>2 DEF AccountInv
<1>4. ASSUME NEW st \in {"Refunded", "Expired"}, GivesBack(p, st)
      PROVE  AccountInv'
  <2>1. /\ MovedTo(p, st, payment[p].amount, payment[p].refunded)
        /\ paid'[p] = paid[p] + payment[p].amount
    BY <1>4, GivesBackMoves
  <2>2. AccountAgrees(p)'
    BY <1>1, <2>1 DEF AccountAgrees, MovedTo, Waiting, Plain, Traced, Left, BackInParts, PaidOut, Has, Open
  <2>3. QED
    BY <1>2, <2>1, <2>2 DEF AccountInv
<1>5. ASSUME NEW x \in Nat, Refunds(p, x)
      PROVE  AccountInv'
  <2>1. /\ MovedTo(p, AfterRefund(p, x), payment[p].amount, payment[p].refunded + x)
        /\ AfterRefund(p, x) \in Open \cup {"Refunded"}
    BY <1>5, RefundsMoves
  <2>2. /\ payment'[p].refunded # 0
        /\ paid'[p] = paid[p] + x
        /\ payment[p].refunded + x <= payment[p].amount
    BY <1>5, <2>1, PaidOutTyped DEF Refunds, MovedTo
  <2>3. ~PaidOut(p) /\ payment[p].refunded \in Nat /\ payment[p].amount \in Nat
    BY <2>1 DEF MovedTo, PaidOut, Has, Open
  <2>4. AccountAgrees(p)'
    <3>1. CASE payment[p].refunded + x >= payment[p].amount
      <4>1. payment'[p].status = "Refunded" /\ BackInParts(p)'
        BY <2>1, <2>2, <3>1 DEF AfterRefund, MovedTo, BackInParts, Has
      <4>2. Traced(p)' => paid'[p] = payment'[p].refunded
        BY <1>1, <2>1, <2>2, <2>3 DEF AccountAgrees, MovedTo, Traced, Left
      <4>3. QED
        BY <1>1, <2>1, <2>2, <4>1, <4>2
           DEF AccountAgrees, MovedTo, Waiting, Plain, Left, Has, Open
    <3>2. CASE payment[p].refunded + x < payment[p].amount
      <4>1. payment'[p].status = payment[p].status /\ ~PaidOut(p)'
        BY <2>1, <2>2, <2>3, <3>2 DEF AfterRefund, MovedTo, PaidOut, Has, Open
      <4>2. Traced(p)' => paid'[p] = payment'[p].refunded
        BY <1>1, <2>1, <2>2, <2>3 DEF AccountAgrees, MovedTo, Traced, Left
      <4>3. QED
        BY <1>1, <2>1, <2>2, <2>3, <3>2, <4>1, <4>2
           DEF AccountAgrees, MovedTo, Waiting, Plain, Traced, Left, Has, Open
    <3>3. QED
      BY <2>3, <3>1, <3>2
  <2>5. QED
    BY <1>2, <2>1, <2>4 DEF AccountInv
<1>6. ASSUME NEW st \in {"Disputed", "Completed"}, Decides(p, st)
      PROVE  AccountInv'
  <2>1. /\ MovedTo(p, st, payment[p].amount, payment[p].refunded)
        /\ paid'[p] = paid[p] /\ p \notin settled'
    BY <1>6, DecidesMoves
  <2>2. AccountAgrees(p)'
    BY <1>1, <2>1 DEF AccountAgrees, MovedTo, Waiting, Plain, Traced, Left, BackInParts, PaidOut, Has, Open
  <2>3. QED
    BY <1>2, <2>1, <2>2 DEF AccountInv
<1>7. QED
  BY <1>3, <1>4, <1>5, <1>6 DEF MovesPayment

LEMMA StepKeepsAccounts ==
    ASSUME Typed, AccountInv, [Next]_vars
    PROVE  AccountInv'
<1>1. ASSUME NEW c \in Customers, NEW n \in {1, 2}, Makes(c, n)
      PROVE  AccountInv'
  <2>1. nextId \in Nat /\ nextId' = nextId + n /\ settled' = settled /\ paid' = paid
        /\ namedTwice' = namedTwice
    BY <1>1, PaymentConstants DEF Makes, Typed, PaymentsTyped
  <2>2. ASSUME NEW q \in Ids, q < nextId \/ q >= nextId'
        PROVE  AccountAgrees(q)'
    <3>1. payment'[q] = payment[q] /\ taken'[q] = taken[q]
      BY <1>1, <2>2 DEF Makes
    <3>2. q >= nextId' => q >= nextId
      BY <2>1 DEF Ids
    <3>3. QED
      BY <2>1, <3>1, <3>2, AccountKept DEF AccountInv
  <2>3. ASSUME NEW q \in Ids, q >= nextId /\ q < nextId'
        PROVE  AccountAgrees(q)'
    <3>1. Fresh(q, c) /\ ~(q >= nextId')
      BY <1>1, <2>1, <2>3 DEF Makes, Ids
    <3>2. paid'[q] = 0
      BY <2>1, <2>3 DEF AccountInv, AccountAgrees
    <3>3. QED
      BY <3>1, <3>2 DEF Fresh, AccountAgrees, Plain, Traced, Left, BackInParts, PaidOut, Waiting, Has
  <2>4. QED
    BY <2>1, <2>2, <2>3 DEF AccountInv, Ids
<1>2. ASSUME NEW m \in Merchants, NEW batch \in Selection, Settles(m, batch)
      PROVE  AccountInv'
  <2>1. /\ \A p \in Named(batch) : /\ payment[p].status = "Completed" /\ p \notin settled
                                   /\ Times(batch, p) \in Nat /\ Times(batch, p) > 0
        /\ paid' = [p \in Ids |-> IF p \in Named(batch)
                                  THEN paid[p] + payment[p].amount * Times(batch, p)
                                  ELSE paid[p]]
        /\ namedTwice' = namedTwice \cup {p \in Named(batch) : Times(batch, p) > 1}
        /\ settled' = settled \cup Named(batch)
        /\ UNCHANGED <<payment, taken, nextId>>
    BY <1>2, SettlementEffect DEF entryVars
  <2>2. ASSUME NEW q \in Ids, q \notin Named(batch)
        PROVE  AccountAgrees(q)'
    BY <2>1, <2>2, AccountKept DEF AccountInv
  <2>3. ASSUME NEW q \in Ids, q \in Named(batch)
        PROVE  AccountAgrees(q)'
    <3>1. /\ payment[q].amount \in Nat /\ payment[q].status = "Completed" /\ q \notin settled
          /\ payment[q].refunded \in Nat /\ q < nextId /\ nextId \in Nat /\ q \in Nat
      BY <2>1, <2>3, StoredIfUsed, PaymentConstants DEF Closed, Typed, PaymentsTyped, Ids
    <3>2. ~PaidOut(q) /\ Waiting(q) /\ AccountAgrees(q)
      BY <3>1 DEF PaidOut, Waiting, Has, AccountInv
    <3>3. PaidOut(q)' /\ ~Waiting(q)' /\ ~(q >= nextId')
      BY <2>1, <2>3, <3>1 DEF PaidOut, Waiting, Has, Open
    <3>4. ASSUME Traced(q)'
          PROVE  paid'[q] = payment'[q].refunded + taken'[q].amount
      <4>1. Traced(q) /\ ~(Times(batch, q) > 1)
        BY <2>1, <2>3, <3>4 DEF Traced
      <4>2. Times(batch, q) = 1
        BY <2>1, <2>3, <4>1
      <4>3. paid[q] = payment[q].refunded /\ taken[q].amount = payment[q].amount
        BY <3>1, <3>2, <4>1 DEF AccountAgrees, Traced, Left
      <4>4. paid'[q] = payment[q].refunded + payment[q].amount * 1
        BY <2>1, <2>3, <4>2, <4>3
      <4>5. QED
        BY <2>1, <3>1, <4>3, <4>4
    <3>5. ~BackInParts(q)' /\ payment'[q].status \notin Open /\ taken'[q].amount \in Nat
      BY <2>1, <3>1 DEF BackInParts, Has, Open, Typed, EntryTyped, TakenType
    <3>6. QED
      BY <3>3, <3>4, <3>5 DEF AccountAgrees, Plain, Left
  <2>4. QED
    BY <2>2, <2>3 DEF AccountInv
<1>3. ASSUME Rest
      PROVE  AccountInv'
  BY <1>3, AccountKept DEF Rest, recordVars, AccountInv
<1>4. QED
  BY <1>1, <1>2, <1>3, StepIsOneOf, MovesKeepAccounts

(* A payment not named twice in a settlement nor taken in another token     *)
(* pays out its partial refunds and, when it ends otherwise than by them,   *)
(* exactly what was taken in for it, once and not before.                   *)
THEOREM PaymentsPayWhatTheyTook == Spec => []PaysWhatItTook
<1> DEFINE IInv == Typed /\ AccountInv
<1>1. Init => IInv
  <2>1. SUFFICES ASSUME Init
                 PROVE  AccountInv
    BY InitTyped
  <2>2. /\ payment = [p \in Ids |-> NoPayment] /\ paid = [p \in Ids |-> 0]
    BY <2>1 DEF Init, InitLedger
  <2>3. NoPayment.status = "None" /\ NoPayment.refunded = 0
    BY DEF NoPayment
  <2> HIDE DEF NoPayment
  <2>4. QED
    BY <2>2, <2>3 DEF AccountInv, AccountAgrees, Waiting, Left, PaidOut, Has, Open
<1>2. IInv /\ [Next]_vars => IInv'
  BY StepTyped, StepKeepsAccounts
<1>3. IInv => PaysWhatItTook
  BY DEF AccountInv, AccountAgrees, Left, PaysWhatItTook
<1>4. QED
  BY <1>1, <1>2, <1>3, PTL DEF Spec

-----------------------------------------------------------------------------
(* Receipts *)

(* Only completed payments have a receipt, of the past; what is open is not *)
(* refunded as a whole and is on record with what the merchant is owed.     *)
Terms(p) ==
    /\ receipt[p] > 0 => payment[p].status = "Completed" /\ receipt[p] <= now
    /\ payment[p].status \in Open =>
          payment[p].refunded < payment[p].amount /\ taken[p].owed = payment[p].amount

TermsInv == \A p \in Ids : Terms(p)

LEMMA TermsKept ==
    ASSUME Typed, NEW p \in Ids, Terms(p), payment'[p] = payment[p], taken'[p] = taken[p],
           receipt'[p] = receipt[p], now' >= now, now' \in Nat
    PROVE  Terms(p)'
<1>1. now \in Nat /\ receipt[p] \in Nat
  BY PaymentConstants DEF Typed, ClockTyped, CompletionTyped
<1>2. QED
  BY <1>1 DEF Terms

LEMMA MovedTerms ==
    ASSUME Typed, TermsInv, NEW p \in Ids, NEW st, NEW a, NEW b, MovedTo(p, st, a, b),
           receipt' = receipt
    PROVE  (\A q \in Ids \ {p} : Terms(q)') /\ ~(receipt'[p] > 0)
<1>1. now \in Nat /\ now' = now
  BY PaymentConstants DEF Typed, ClockTyped, MovedTo
<1>2. \A q \in Ids \ {p} : Terms(q)'
  BY <1>1, TermsKept DEF TermsInv, MovedTo
<1>3. QED
  BY <1>2 DEF MovedTo, TermsInv, Terms, Open

LEMMA StepKeepsTerms ==
    ASSUME Typed, TermsInv, [Next]_vars
    PROVE  TermsInv'
<1>1. now \in Nat /\ now > 0 /\ now' \in Nat /\ nextId \in Nat
  <2>1. now' \in Genesis .. MaxTime /\ now \in Genesis .. MaxTime /\ nextId \in Nat
    BY StepTyped, PaymentConstants DEF Typed, ClockTyped, PaymentsTyped
  <2>2. Genesis \in Nat /\ Genesis > 0
    BY PaymentConstants
  <2>3. QED
    BY <2>1, <2>2
<1>2. ASSUME NEW c \in Customers, NEW n \in {1, 2}, Makes(c, n)
      PROVE  TermsInv'
  <2>1. nextId' = nextId + n /\ receipt' = receipt /\ now' = now
    BY <1>2 DEF Makes, completionVars
  <2>2. ASSUME NEW q \in Ids, q < nextId \/ q >= nextId'
        PROVE  Terms(q)'
    BY <1>1, <1>2, <2>1, <2>2, TermsKept DEF Makes, TermsInv
  <2>3. ASSUME NEW q \in Ids, q >= nextId /\ q < nextId'
        PROVE  Terms(q)'
    <3>1. Fresh(q, c)
      BY <1>2, <2>3 DEF Makes
    <3>2. ~(receipt[q] > 0)
      BY <1>1, <2>3 DEF TermsInv, Terms, Typed, PaymentsTyped, Ids
    <3>3. QED
      BY <2>1, <3>1, <3>2 DEF Fresh, Terms
  <2>4. QED
    BY <1>1, <2>1, <2>2, <2>3 DEF TermsInv, Ids
<1>3. ASSUME NEW p \in Ids, NEW net \in Nat, Completes(p, net)
      PROVE  TermsInv'
  <2>1. MovedTo(p, "Completed", net, payment[p].refunded)
    BY <1>3, CompletesMoves
  <2>2. receipt' = [receipt EXCEPT ![p] = now] /\ receipt \in [Ids -> 0 .. MaxTime]
    BY <1>3 DEF Completes, Typed, CompletionTyped
  <2>3. ASSUME NEW q \in Ids \ {p}
        PROVE  Terms(q)'
    <3>1. receipt'[q] = receipt[q] /\ now' = now
      BY <2>1, <2>2 DEF MovedTo
    <3>2. QED
      BY <1>1, <2>1, <3>1, TermsKept DEF MovedTo, TermsInv
  <2>4. Terms(p)'
    BY <1>1, <2>1, <2>2 DEF MovedTo, Terms, Open
  <2>5. QED
    BY <2>3, <2>4 DEF TermsInv
<1>4. ASSUME NEW p \in Ids, NEW st \in {"Refunded", "Expired"}, GivesBack(p, st)
      PROVE  TermsInv'
  <2>1. MovedTo(p, st, payment[p].amount, payment[p].refunded) /\ receipt' = receipt
    BY <1>4, GivesBackMoves DEF GivesBack, completionVars
  <2>2. Terms(p)'
    BY <2>1, MovedTerms DEF MovedTo, Terms, Open
  <2>3. QED
    BY <2>1, <2>2, MovedTerms DEF TermsInv
<1>5. ASSUME NEW p \in Ids, NEW x \in Nat, Refunds(p, x)
      PROVE  TermsInv'
  <2>1. /\ MovedTo(p, AfterRefund(p, x), payment[p].amount, payment[p].refunded + x)
        /\ receipt' = receipt
    BY <1>5, RefundsMoves DEF Refunds, completionVars
  <2>2. Terms(p)'
    <3>1. payment[p].amount \in Nat /\ payment[p].refunded \in Nat /\ Terms(p)
          /\ payment[p].status \in Open
      BY <2>1 DEF MovedTo, TermsInv
    <3>2. AfterRefund(p, x) \in Open => payment[p].refunded + x < payment[p].amount
      BY <3>1 DEF AfterRefund, Open
    <3>3. QED
      BY <2>1, <3>1, <3>2, MovedTerms DEF MovedTo, Terms
  <2>3. QED
    BY <2>1, <2>2, MovedTerms DEF TermsInv
<1>6. ASSUME NEW p \in Ids, NEW st \in {"Disputed", "Completed"}, Decides(p, st)
      PROVE  TermsInv'
  <2>1. MovedTo(p, st, payment[p].amount, payment[p].refunded) /\ receipt' = receipt
    BY <1>6, DecidesMoves DEF Decides, completionVars
  <2>2. Terms(p)'
    BY <2>1, MovedTerms DEF MovedTo, Terms, TermsInv
  <2>3. QED
    BY <2>1, <2>2, MovedTerms DEF TermsInv
<1>7. ASSUME NEW m \in Merchants, NEW batch \in Selection, Settles(m, batch)
      PROVE  TermsInv'
  <2>1. UNCHANGED <<payment, taken, receipt, now>>
    BY <1>7, SettlementEffect DEF entryVars, completionVars
  <2>2. QED
    BY <1>1, <2>1, TermsKept DEF TermsInv
<1>8. ASSUME Rest
      PROVE  TermsInv'
  BY <1>1, <1>8, TermsKept DEF TermsInv, Rest, recordVars, completionVars
<1>9. QED
  BY <1>2, <1>3, <1>4, <1>5, <1>6, <1>7, <1>8, StepIsOneOf DEF MovesPayment

LEMMA InitTerms == Init => TermsInv
<1>1. SUFFICES ASSUME Init
               PROVE  TermsInv
  OBVIOUS
<1>2. payment = [p \in Ids |-> NoPayment] /\ receipt = [p \in Ids |-> 0]
  BY <1>1 DEF Init, InitLedger
<1>3. NoPayment.status = "None"
  BY DEF NoPayment
<1> HIDE DEF NoPayment
<1>4. QED
  BY <1>2, <1>3 DEF TermsInv, Terms, Open

-----------------------------------------------------------------------------
(* Volumes *)

(* What the merchant completed in a bucket.                                 *)
CompletedIn(m, b) ==
    {p \in Ids : payment[p].merchant = m /\ receipt[p] > 0 /\ Bucket(receipt[p]) = b}

Owed == [p \in Ids |-> taken[p].owed]

VolumeInv ==
    \A m \in Merchants, b \in Buckets :
        volume[m][b] = SumFunctionOnSet(Owed, CompletedIn(m, b))

LEMMA IdsFinite == ASSUME NEW S, S \subseteq Ids PROVE IsFiniteSet(S)
<1>1. IsFiniteSet(Ids)
  <2>1. 0 \in Int /\ MaxPayments - 1 \in Int
    BY PaymentConstants
  <2>2. QED
    BY <2>1, FS_Interval DEF Ids
<1>2. QED
  BY <1>1, FS_Subset

LEMMA OwedTyped ==
    ASSUME Typed
    PROVE  \A p \in Ids : Owed[p] \in Nat
BY DEF Typed, EntryTyped, TakenType, Owed

LEMMA VolumeKept ==
    ASSUME Typed, VolumeInv, volume' = volume, receipt' = receipt,
           \A p \in Ids : receipt[p] > 0 =>
               payment'[p].merchant = payment[p].merchant /\ taken'[p].owed = taken[p].owed
    PROVE  VolumeInv'
<1>1. SUFFICES ASSUME NEW m \in Merchants, NEW b \in Buckets
               PROVE  volume'[m][b] = SumFunctionOnSet(Owed', CompletedIn(m, b)')
  BY DEF VolumeInv, Buckets, Bucket
<1>2. CompletedIn(m, b)' = CompletedIn(m, b)
  BY DEF CompletedIn, Bucket
<1>3. IsFiniteSet(CompletedIn(m, b))
  BY IdsFinite DEF CompletedIn
<1>4. \A p \in CompletedIn(m, b) : Owed'[p] = Owed[p]
  BY DEF CompletedIn, Owed
<1>5. SumFunctionOnSet(Owed', CompletedIn(m, b)) = SumFunctionOnSet(Owed, CompletedIn(m, b))
  BY <1>3, <1>4, SumEqual
<1>6. QED
  BY <1>2, <1>5 DEF VolumeInv

LEMMA CompletionVolume ==
    ASSUME Typed, TermsInv, VolumeInv, NEW p \in Ids, NEW net \in Nat, Completes(p, net)
    PROVE  VolumeInv'
<1> DEFINE m == payment[p].merchant
           b == Bucket(now)
           x == payment[p].amount
<1>1. MovedTo(p, "Completed", net, payment[p].refunded)
  BY CompletesMoves
<1>2. /\ payment[p].status \in Open /\ m \in Merchants /\ x \in Nat
      /\ payment'[p].merchant = m /\ taken' = taken
      /\ \A q \in Ids \ {p} : payment'[q] = payment[q]
  BY <1>1 DEF MovedTo
<1>3. /\ volume' = [volume EXCEPT ![m][b] = @ + x]
      /\ receipt' = [receipt EXCEPT ![p] = now]
  BY DEF Completes
<1>4. now \in Nat /\ now > 0 /\ b \in Buckets
  <2>1. now \in Genesis .. MaxTime /\ Genesis \in Nat /\ Genesis > 0 /\ MaxTime \in Nat
    BY PaymentConstants DEF Typed, ClockTyped
  <2>2. QED
    BY <2>1, BucketsInOrder DEF Buckets
<1>5. /\ volume \in [Merchants -> [Buckets -> Nat]] /\ receipt \in [Ids -> 0 .. MaxTime]
  BY DEF Typed, CompletionTyped
<1>6. ~(receipt[p] > 0) /\ Owed[p] = x /\ Owed' = Owed
  BY <1>2 DEF TermsInv, Terms, Open, Owed
<1> HIDE DEF m, b, x
<1>7. SUFFICES ASSUME NEW n \in Merchants, NEW d \in Buckets
               PROVE  volume'[n][d] = SumFunctionOnSet(Owed, CompletedIn(n, d)')
  BY <1>6 DEF VolumeInv, Buckets, Bucket
<1>8. volume[n][d] = SumFunctionOnSet(Owed, CompletedIn(n, d))
  BY DEF VolumeInv
<1>9. receipt'[p] = now /\ \A q \in Ids \ {p} : receipt'[q] = receipt[q]
  BY <1>3, <1>5
<1>10. CASE n = m /\ d = b
  <2>1. CompletedIn(n, d)' = CompletedIn(n, d) \cup {p} /\ p \notin CompletedIn(n, d)
    BY <1>2, <1>4, <1>6, <1>9, <1>10 DEF CompletedIn, b, m, Bucket
  <2>2. IsFiniteSet(CompletedIn(n, d)) /\ \A q \in CompletedIn(n, d) \cup {p} : Owed[q] \in Int
    BY IdsFinite, OwedTyped DEF CompletedIn
  <2>3. SumFunctionOnSet(Owed, CompletedIn(n, d) \cup {p})
          = SumFunctionOnSet(Owed, CompletedIn(n, d)) + Owed[p]
    BY <2>1, <2>2, SumAdd
  <2>4. volume'[n][d] = volume[n][d] + x
    BY <1>3, <1>4, <1>5, <1>10
  <2>5. QED
    BY <1>6, <1>8, <2>1, <2>3, <2>4
<1>11. CASE ~(n = m /\ d = b)
  <2>1. CompletedIn(n, d)' = CompletedIn(n, d)
    BY <1>2, <1>4, <1>6, <1>9, <1>11 DEF CompletedIn, b, m, Bucket
  <2>2. volume'[n][d] = volume[n][d]
    BY <1>2, <1>3, <1>4, <1>5, <1>11
  <2>3. QED
    BY <1>8, <2>1, <2>2
<1>12. QED
  BY <1>10, <1>11

LEMMA StepKeepsVolume ==
    ASSUME Typed, TermsInv, VolumeInv, [Next]_vars
    PROVE  VolumeInv'
<1>1. ASSUME NEW c \in Customers, NEW n \in {1, 2}, Makes(c, n)
      PROVE  VolumeInv'
  <2>1. \A q \in Ids : receipt[q] > 0 => q < nextId
    BY DEF TermsInv, Terms, Typed, PaymentsTyped
  <2>2. volume' = volume /\ receipt' = receipt
        /\ \A q \in Ids : q < nextId => payment'[q] = payment[q] /\ taken'[q] = taken[q]
    BY <1>1 DEF Makes, completionVars
  <2>3. QED
    BY <2>1, <2>2, VolumeKept
<1>2. ASSUME NEW p \in Ids, NEW st, NEW a, NEW b, MovedTo(p, st, a, b),
             UNCHANGED completionVars
      PROVE  VolumeInv'
  BY <1>2, VolumeKept DEF MovedTo, completionVars
<1>3. ASSUME NEW p \in Ids, MovesPayment(p)
      PROVE  VolumeInv'
  <2>1. ASSUME NEW st \in {"Refunded", "Expired"}, GivesBack(p, st)
        PROVE  VolumeInv'
    BY <1>2, <2>1, GivesBackMoves DEF GivesBack
  <2>2. ASSUME NEW x \in Nat, Refunds(p, x)
        PROVE  VolumeInv'
    BY <1>2, <2>2, RefundsMoves DEF Refunds
  <2>3. ASSUME NEW st \in {"Disputed", "Completed"}, Decides(p, st)
        PROVE  VolumeInv'
    BY <1>2, <2>3, DecidesMoves DEF Decides
  <2>4. QED
    BY <1>3, <2>1, <2>2, <2>3, CompletionVolume DEF MovesPayment
<1>4. ASSUME NEW m \in Merchants, NEW batch \in Selection, Settles(m, batch)
      PROVE  VolumeInv'
  <2>1. UNCHANGED <<payment, taken, receipt, volume>>
    BY <1>4, SettlementEffect DEF entryVars, completionVars
  <2>2. QED
    BY <2>1, VolumeKept
<1>5. ASSUME Rest
      PROVE  VolumeInv'
  BY <1>5, VolumeKept DEF Rest, recordVars, completionVars
<1>6. QED
  BY <1>1, <1>3, <1>4, <1>5, StepIsOneOf

(* From the fourth bucket on the rolling volume is the sum of four buckets. *)
LEMMA VolumeOfFour ==
    ASSUME Typed, TermsInv, VolumeInv, Bucket(now) >= 3, NEW m \in Merchants
    PROVE  RollingVolume(m) =
             SumFunctionOnSet([p \in Ids |-> taken[p].owed],
                 {p \in Ids : /\ payment[p].merchant = m
                              /\ receipt[p] > 0
                              /\ Bucket(receipt[p]) > Bucket(now) - 4})
<1> DEFINE b == Bucket(now)
           R == {p \in Ids : /\ payment[p].merchant = m
                             /\ receipt[p] > 0
                             /\ Bucket(receipt[p]) > b - 4}
           C(i) == CompletedIn(m, i)
           s(i) == SumFunctionOnSet(Owed, C(i))
<1>1. b \in Nat /\ b >= 3 /\ \A i \in 0 .. b : i \in Buckets
  <2>1. now \in Genesis .. MaxTime /\ Genesis \in Nat /\ MaxTime \in Nat
    BY PaymentConstants DEF Typed, ClockTyped
  <2>2. b \in Nat /\ Bucket(MaxTime) \in Nat /\ b <= Bucket(MaxTime)
    BY <2>1, BucketsInOrder
  <2> HIDE DEF b
  <2>3. \A i \in 0 .. b : i \in Buckets
    BY <2>2 DEF Buckets
  <2>4. QED
    BY <2>2, <2>3 DEF b
<1>2. RollingVolume(m) = volume[m][b] + volume[m][b - 1] + volume[m][b - 2] + volume[m][b - 3]
  BY <1>1 DEF RollingVolume
<1>3. \A p \in Ids : receipt[p] > 0 => Bucket(receipt[p]) \in Nat /\ Bucket(receipt[p]) <= b
  <2>1. now \in Nat /\ \A p \in Ids : receipt[p] \in Nat /\ (receipt[p] > 0 => receipt[p] <= now)
    BY PaymentConstants DEF Typed, ClockTyped, CompletionTyped, TermsInv, Terms
  <2>2. QED
    BY <2>1, BucketsInOrder
<1> HIDE DEF b
<1>4. R = ((C(b) \cup C(b - 1)) \cup C(b - 2)) \cup C(b - 3)
  <2>1. \A x \in Nat : x <= b /\ x > b - 4 <=> x \in {b, b - 1, b - 2, b - 3}
    BY <1>1
  <2>2. \A p \in Ids : receipt[p] > 0 =>
          (Bucket(receipt[p]) > b - 4 <=> Bucket(receipt[p]) \in {b, b - 1, b - 2, b - 3})
    BY <1>3, <2>1
  <2>3. QED
    BY <2>2 DEF CompletedIn
<1>5. \A i : IsFiniteSet(C(i)) /\ \A p \in C(i) : Owed[p] \in Int
  BY IdsFinite, OwedTyped DEF CompletedIn
<1>6. /\ C(b) \cap C(b - 1) = {}
      /\ (C(b) \cup C(b - 1)) \cap C(b - 2) = {}
      /\ ((C(b) \cup C(b - 1)) \cup C(b - 2)) \cap C(b - 3) = {}
  <2>1. b # b - 1 /\ b # b - 2 /\ b # b - 3 /\ b - 1 # b - 2 /\ b - 1 # b - 3 /\ b - 2 # b - 3
    BY <1>1
  <2>2. \A i, j : i # j => C(i) \cap C(j) = {}
    BY DEF CompletedIn
  <2> HIDE DEF C
  <2>3. QED
    BY <2>1, <2>2
<1> HIDE DEF C, R
<1>7. SumFunctionOnSet(Owed, C(b) \cup C(b - 1)) = s(b) + s(b - 1)
  BY <1>5, <1>6, SumUnion
<1>8. SumFunctionOnSet(Owed, (C(b) \cup C(b - 1)) \cup C(b - 2)) = s(b) + s(b - 1) + s(b - 2)
  <2>1. IsFiniteSet(C(b) \cup C(b - 1))
    BY <1>5, FS_Union
  <2>2. QED
    BY <1>5, <1>6, <1>7, <2>1, SumUnion
<1>9. SumFunctionOnSet(Owed, R) = s(b) + s(b - 1) + s(b - 2) + s(b - 3)
  <2>1. IsFiniteSet(C(b) \cup C(b - 1))
    BY <1>5, FS_Union
  <2>2. IsFiniteSet((C(b) \cup C(b - 1)) \cup C(b - 2))
    BY <1>5, <2>1, FS_Union
  <2>3. QED
    BY <1>4, <1>5, <1>6, <1>8, <2>2, SumUnion
<1>10. /\ volume[m][b] = s(b) /\ volume[m][b - 1] = s(b - 1)
       /\ volume[m][b - 2] = s(b - 2) /\ volume[m][b - 3] = s(b - 3)
  <2>1. b \in Buckets /\ b - 1 \in Buckets /\ b - 2 \in Buckets /\ b - 3 \in Buckets
    BY <1>1
  <2>2. QED
    BY <2>1 DEF VolumeInv, C
<1>11. RollingVolume(m) = SumFunctionOnSet(Owed, R)
  BY <1>2, <1>9, <1>10
<1>12. QED
  BY <1>11 DEF Owed, R, b

(* From the fourth bucket on, the volume a merchant's fee depends on is what *)
(* completed in the last four buckets, each payment once and with its fee.  *)
THEOREM VolumeCountsRecent == Spec => []VolumeIsRecent
<1> DEFINE IInv == Typed /\ TermsInv /\ VolumeInv
<1>1. Init => IInv
  <2>1. SUFFICES ASSUME Init
                 PROVE  VolumeInv
    BY InitTyped, InitTerms
  <2>2. /\ volume = [m \in Merchants |-> [b \in Buckets |-> 0]]
        /\ receipt = [p \in Ids |-> 0]
    BY <2>1 DEF Init, InitLedger
  <2>3. \A m \in Merchants, b \in Buckets : CompletedIn(m, b) = {}
    BY <2>2 DEF CompletedIn
  <2>4. QED
    BY <2>2, <2>3, SumEmpty DEF VolumeInv
<1>2. IInv /\ [Next]_vars => IInv'
  BY StepTyped, StepKeepsTerms, StepKeepsVolume
<1>3. IInv => VolumeIsRecent
  BY VolumeOfFour DEF VolumeIsRecent
<1>4. QED
  BY <1>1, <1>2, <1>3, PTL DEF Spec

-----------------------------------------------------------------------------
(* The statistics *)

Counted == {p \in Ids : p < nextId /\ ~taken[p].multi}
Stored == {p \in Ids : p < nextId}
Done == {p \in Ids : receipt[p] > 0}
Whole == {p \in In({"Refunded"}) : payment[p].refunded < payment[p].amount}
OfToken(S, t) == {p \in S : payment[p].token = t}
Amounts == [p \in Ids |-> payment[p].amount]
Parts == [p \in Ids |-> payment[p].refunded]

StatsInv ==
    /\ stats.created = Cardinality(Counted)
    /\ stats.completed = Cardinality(Done)
    /\ stats.expired = Cardinality(In({"Expired"}))
    /\ \A t \in Token :
          /\ stats.volumeCompleted[t] = SumFunctionOnSet(Amounts, OfToken(Done, t))
          /\ stats.volumeRefunded[t] = SumFunctionOnSet(Amounts, OfToken(Whole, t))
                                         + SumFunctionOnSet(Parts, OfToken(Stored, t))

LEMMA StatsInvIsStatsAgree == StatsInv => StatsAgree
<1>1. {p \in {p \in Ids : p < nextId} : ~taken[p].multi} = Counted
  BY DEF Counted
<1>2. QED
  BY <1>1 DEF StatsInv, StatsAgree, AmountOf, Stored, Done, Whole, OfToken, Amounts, Parts

LEMMA AmountsTyped ==
    ASSUME Typed
    PROVE  \A p \in Ids : Amounts[p] \in Nat /\ Parts[p] \in Nat
BY DEF Typed, PaymentsTyped, PaymentType, Amounts, Parts

LEMMA SetsFinite ==
    /\ IsFiniteSet(Counted) /\ IsFiniteSet(Stored) /\ IsFiniteSet(Done) /\ IsFiniteSet(Whole)
    /\ IsFiniteSet(In({"Expired"}))
    /\ \A t : /\ IsFiniteSet(OfToken(Stored, t)) /\ IsFiniteSet(OfToken(Done, t))
              /\ IsFiniteSet(OfToken(Whole, t))
BY IdsFinite DEF Counted, Stored, Done, Whole, OfToken, In

(* The sums agree where the payments they are over do.                      *)
LEMMA SumsKept ==
    ASSUME Typed, NEW t, NEW S \in SUBSET Ids,
           \A p \in S : payment'[p] = payment[p]
    PROVE  /\ SumFunctionOnSet(Amounts', S) = SumFunctionOnSet(Amounts, S)
           /\ SumFunctionOnSet(Parts', S) = SumFunctionOnSet(Parts, S)
<1>1. IsFiniteSet(S)
  BY IdsFinite
<1>2. \A p \in S : Amounts'[p] = Amounts[p] /\ Parts'[p] = Parts[p]
  BY DEF Amounts, Parts
<1>3. QED
  BY <1>1, <1>2, SumEqual

LEMMA AllKept ==
    ASSUME Typed, StatsInv, stats' = stats, payment' = payment, taken' = taken,
           receipt' = receipt, nextId' = nextId
    PROVE  StatsInv'
BY DEF StatsInv, Counted, Stored, Done, Whole, OfToken, Amounts, Parts, In

(* One payment goes from open to another status.                            *)
LEMMA CompletionCounted ==
    ASSUME Typed, TermsInv, StatsInv, NEW p \in Ids, NEW net \in Nat, Completes(p, net)
    PROVE  StatsInv'
<1> DEFINE t == payment[p].token
           r == payment[p].refunded
<1>1. MovedTo(p, "Completed", net, r)
  BY CompletesMoves
<1>2. /\ payment[p].status \in Open /\ t \in Token
      /\ payment'[p].status = "Completed" /\ payment'[p].amount = net
      /\ payment'[p].refunded = r /\ payment'[p].token = t /\ r \in Nat
      /\ taken' = taken /\ nextId' = nextId /\ p < nextId
      /\ \A q \in Ids \ {p} : payment'[q] = payment[q]
  BY <1>1 DEF MovedTo
<1>3. /\ receipt' = [receipt EXCEPT ![p] = now]
      /\ stats' = [stats EXCEPT !.completed = @ + 1, !.volumeCompleted[t] = @ + net]
  BY DEF Completes
<1>4. now > 0 /\ receipt \in [Ids -> 0 .. MaxTime]
  BY PaymentConstants DEF Typed, ClockTyped, CompletionTyped
<1>5. stats \in StatsType
  BY DEF Typed, MoneyTyped
<1>6. ~(receipt[p] > 0) /\ receipt'[p] = now /\ \A q \in Ids \ {p} : receipt'[q] = receipt[q]
  BY <1>2, <1>3, <1>4 DEF TermsInv, Terms, Open
<1>7. Done' = Done \cup {p} /\ p \notin Done
  BY <1>4, <1>6 DEF Done
<1>8. Counted' = Counted /\ Stored' = Stored
  BY <1>2 DEF Counted, Stored
<1>9. In({"Expired"})' = In({"Expired"}) /\ p \notin Whole /\ Whole' = Whole
  BY <1>2 DEF In, Whole, Open
<1>10. stats'.created = Cardinality(Counted') /\ stats'.expired = Cardinality(In({"Expired"})')
  BY <1>3, <1>5, <1>8, <1>9 DEF StatsInv, StatsType
<1>11. stats'.completed = Cardinality(Done')
  <2>1. Cardinality(Done \cup {p}) = Cardinality(Done) + 1
    BY <1>7, SetsFinite, FS_AddElement
  <2>2. stats'.completed = stats.completed + 1
    BY <1>3, <1>5 DEF StatsType
  <2>3. QED
    BY <1>7, <2>1, <2>2 DEF StatsInv
<1> DEFINE A == Amounts
           B == Amounts'
           C == Parts
           E == Parts'
<1>12. \A q \in Ids : A[q] \in Nat /\ C[q] \in Nat
  BY AmountsTyped
<1>13. /\ \A q \in Ids \ {p} : B[q] = A[q]
       /\ B[p] = net /\ E = C
  BY <1>2 DEF Amounts, Parts
<1>14. stats'.volumeRefunded = stats.volumeRefunded
  BY <1>3, <1>5 DEF StatsType
<1>15. \A s \in Token : stats'.volumeCompleted[s]
                          = stats.volumeCompleted[s] + (IF s = t THEN net ELSE 0)
  <2>1. stats.volumeCompleted \in [Token -> Nat]
    BY <1>5 DEF StatsType
  <2>2. stats'.volumeCompleted = [stats.volumeCompleted EXCEPT ![t] = @ + net]
    BY <1>3, <1>5 DEF StatsType
  <2> HIDE DEF t
  <2>3. QED
    BY <1>2, <2>1, <2>2
<1> HIDE DEF A, B, C, E
<1>16. ASSUME NEW s \in Token
       PROVE  /\ stats'.volumeCompleted[s] = SumFunctionOnSet(B, OfToken(Done, s)')
              /\ stats'.volumeRefunded[s] = SumFunctionOnSet(B, OfToken(Whole, s)')
                                              + SumFunctionOnSet(E, OfToken(Stored, s)')
  <2>1. /\ stats.volumeCompleted[s] = SumFunctionOnSet(A, OfToken(Done, s))
        /\ stats.volumeRefunded[s] = SumFunctionOnSet(A, OfToken(Whole, s))
                                       + SumFunctionOnSet(C, OfToken(Stored, s))
    BY DEF StatsInv, A, C
  <2>2. OfToken(Whole, s)' = OfToken(Whole, s) /\ OfToken(Stored, s)' = OfToken(Stored, s)
        /\ p \notin OfToken(Whole, s) /\ OfToken(Whole, s) \subseteq Ids
    BY <1>2, <1>8, <1>9 DEF OfToken, Whole, In, Stored
  <2>3. SumFunctionOnSet(B, OfToken(Whole, s)) = SumFunctionOnSet(A, OfToken(Whole, s))
    <3>1. \A q \in OfToken(Whole, s) : B[q] = A[q]
      BY <1>13, <2>2
    <3>2. QED
      BY <3>1, SetsFinite, SumEqual
  <2> DEFINE S == OfToken(Done, s)
  <2>4. IsFiniteSet(S) /\ p \notin S /\ S \subseteq Ids
    BY <1>7, SetsFinite DEF OfToken, Done
  <2>5. OfToken(Done, s)' = IF s = t THEN S \cup {p} ELSE S
    BY <1>2, <1>7 DEF OfToken, Done
  <2> HIDE DEF S, t
  <2>6. SumFunctionOnSet(B, S) = SumFunctionOnSet(A, S) /\ \A q \in S \cup {p} : B[q] \in Int
    <3>1. \A q \in S : B[q] = A[q]
      BY <1>13, <2>4
    <3>2. QED
      BY <1>12, <1>13, <2>4, <3>1, SumEqual
  <2>7. SumFunctionOnSet(B, S \cup {p}) = SumFunctionOnSet(A, S) + net
    BY <1>13, <2>4, <2>6, SumAdd
  <2>8. SumFunctionOnSet(A, S) \in Int
    BY <1>12, <2>4, SumInt
  <2>9. stats'.volumeCompleted[s] = SumFunctionOnSet(B, OfToken(Done, s)')
    <3>1. stats.volumeCompleted[s] = SumFunctionOnSet(A, S)
      BY <2>1 DEF S
    <3>2. QED
      BY <1>15, <2>5, <2>6, <2>7, <2>8, <3>1
  <2>10. QED
    BY <1>13, <1>14, <2>1, <2>2, <2>3, <2>9
<1>17. QED
  BY <1>10, <1>11, <1>16 DEF StatsInv, B, E

LEMMA ReturnCounted ==
    ASSUME Typed, TermsInv, StatsInv, NEW p \in Ids, NEW st \in {"Refunded", "Expired"},
           GivesBack(p, st)
    PROVE  StatsInv'
<1> DEFINE t == payment[p].token
           x == payment[p].amount
           r == payment[p].refunded
<1>1. MovedTo(p, st, x, r)
  BY GivesBackMoves
<1>2. /\ payment[p].status \in Open /\ t \in Token /\ x \in Nat
      /\ payment'[p].status = st /\ payment'[p].amount = x
      /\ payment'[p].refunded = r /\ payment'[p].token = t
      /\ taken' = taken /\ nextId' = nextId /\ p < nextId
      /\ \A q \in Ids \ {p} : payment'[q] = payment[q]
  BY <1>1 DEF MovedTo
<1>3. r < x /\ ~(receipt[p] > 0)
  BY <1>2 DEF TermsInv, Terms, Open
<1>4. /\ receipt' = receipt
      /\ stats' = IF st = "Expired" THEN [stats EXCEPT !.expired = @ + 1]
                  ELSE [stats EXCEPT !.refunded = @ + 1, !.volumeRefunded[t] = @ + x]
  BY DEF GivesBack, completionVars
<1>5. stats \in StatsType
  BY DEF Typed, MoneyTyped
<1>6. Done' = Done /\ p \notin Done /\ Counted' = Counted /\ Stored' = Stored
  BY <1>2, <1>3, <1>4 DEF Done, Counted, Stored
<1>7. Amounts' = Amounts /\ Parts' = Parts /\ \A q \in Ids : payment'[q].token = payment[q].token
  BY <1>2 DEF Amounts, Parts
<1>8. \A s \in Token : OfToken(Done, s)' = OfToken(Done, s)
                       /\ OfToken(Stored, s)' = OfToken(Stored, s)
  BY <1>6, <1>7 DEF OfToken, Done, Stored
<1>9. CASE st = "Expired"
  <2>1. /\ stats'.created = stats.created /\ stats'.completed = stats.completed
        /\ stats'.expired = stats.expired + 1
        /\ stats'.volumeCompleted = stats.volumeCompleted
        /\ stats'.volumeRefunded = stats.volumeRefunded
    BY <1>4, <1>5, <1>9 DEF StatsType
  <2>2. In({"Expired"})' = In({"Expired"}) \cup {p} /\ p \notin In({"Expired"})
    BY <1>2, <1>9 DEF In, Open
  <2>3. Cardinality(In({"Expired"})') = Cardinality(In({"Expired"})) + 1
    BY <2>2, SetsFinite, FS_AddElement
  <2>4. Whole' = Whole
    BY <1>2, <1>9 DEF Whole, In, Open
  <2>5. \A s \in Token : OfToken(Whole, s)' = OfToken(Whole, s)
    BY <1>7, <2>4 DEF OfToken, Whole, In
  <2>6. QED
    BY <1>6, <1>7, <1>8, <2>1, <2>3, <2>5 DEF StatsInv
<1>10. CASE st = "Refunded"
  <2>1. /\ stats'.created = stats.created /\ stats'.completed = stats.completed
        /\ stats'.expired = stats.expired
        /\ stats'.volumeCompleted = stats.volumeCompleted
        /\ stats'.volumeRefunded = [stats.volumeRefunded EXCEPT ![t] = @ + x]
    BY <1>4, <1>5, <1>10 DEF StatsType
  <2>2. In({"Expired"})' = In({"Expired"})
    BY <1>2, <1>10 DEF In, Open
  <2>3. Whole' = Whole \cup {p} /\ p \notin Whole
    BY <1>2, <1>3, <1>10 DEF Whole, In, Open
  <2>4. ASSUME NEW s \in Token
        PROVE  stats'.volumeRefunded[s] = SumFunctionOnSet(Amounts, OfToken(Whole, s)')
                                            + SumFunctionOnSet(Parts, OfToken(Stored, s)')
    <3> DEFINE S == OfToken(Whole, s)
               y == SumFunctionOnSet(Amounts, S)
               z == SumFunctionOnSet(Parts, OfToken(Stored, s))
    <3>1. stats.volumeRefunded[s] = y + z /\ stats.volumeRefunded \in [Token -> Nat]
      BY <1>5 DEF StatsInv, StatsType
    <3>2. IsFiniteSet(S) /\ p \notin S /\ S \subseteq Ids
      BY <2>3, SetsFinite DEF OfToken, Whole, In
    <3>3. OfToken(Whole, s)' = IF s = t THEN S \cup {p} ELSE S
      BY <1>7, <2>3 DEF OfToken, Whole, In
    <3>4. \A q \in S \cup {p} : Amounts[q] \in Int
      BY <3>2, AmountsTyped
    <3>5. Amounts[p] = x
      BY DEF Amounts
    <3>6. y \in Int /\ z \in Int
      <4>1. \A q \in OfToken(Stored, s) : Parts[q] \in Int
        BY AmountsTyped DEF OfToken, Stored
      <4>2. QED
        BY <3>2, <3>4, <4>1, SetsFinite, SumInt
    <3> HIDE DEF S, t, x, z
    <3>7. SumFunctionOnSet(Amounts, S \cup {p}) = y + x
      BY <3>2, <3>4, <3>5, SumAdd
    <3>8. stats'.volumeRefunded[s] = stats.volumeRefunded[s] + (IF s = t THEN x ELSE 0)
      BY <1>2, <2>1, <3>1
    <3> HIDE DEF y
    <3>9. SumFunctionOnSet(Amounts, OfToken(Whole, s)') = y + (IF s = t THEN x ELSE 0)
      BY <3>3, <3>6, <3>7 DEF y
    <3>10. SumFunctionOnSet(Parts, OfToken(Stored, s)') = z
      BY <1>8 DEF z
    <3>11. QED
      BY <1>2, <3>1, <3>6, <3>8, <3>9, <3>10
  <2>5. QED
    BY <1>6, <1>7, <1>8, <2>1, <2>2, <2>4 DEF StatsInv
<1>11. QED
  BY <1>9, <1>10

LEMMA RefundCounted ==
    ASSUME Typed, TermsInv, StatsInv, NEW p \in Ids, NEW x \in Nat, Refunds(p, x)
    PROVE  StatsInv'
<1> DEFINE t == payment[p].token
           a == payment[p].amount
           r == payment[p].refunded
           st == AfterRefund(p, x)
<1>1. MovedTo(p, st, a, r + x) /\ st \in Open \cup {"Refunded"}
  BY RefundsMoves
<1>2. /\ payment[p].status \in Open /\ t \in Token /\ a \in Nat /\ r \in Nat
      /\ payment'[p].status = st /\ payment'[p].amount = a
      /\ payment'[p].refunded = r + x /\ payment'[p].token = t
      /\ taken' = taken /\ nextId' = nextId /\ p < nextId
      /\ \A q \in Ids \ {p} : payment'[q] = payment[q]
  BY <1>1 DEF MovedTo
<1>3. st = "Refunded" => r + x >= a
  BY <1>2 DEF AfterRefund, Open
<1> HIDE DEF st
<1>4. /\ receipt' = receipt
      /\ stats' = [stats EXCEPT !.refunded = @ + 1, !.volumeRefunded[t] = @ + x]
  BY DEF Refunds, completionVars
<1>5. stats \in StatsType
  BY DEF Typed, MoneyTyped
<1>6. Done' = Done /\ Counted' = Counted /\ Stored' = Stored
  BY <1>2, <1>4 DEF Done, Counted, Stored
<1>7. Amounts' = Amounts /\ \A q \in Ids : payment'[q].token = payment[q].token
  BY <1>2 DEF Amounts
<1>8. In({"Expired"})' = In({"Expired"})
  BY <1>1, <1>2 DEF In, Open
<1>9. Whole' = Whole
  <2>1. \A q \in Ids \ {p} : q \in Whole' <=> q \in Whole
    BY <1>2 DEF Whole, In
  <2>2. p \notin Whole
    BY <1>2 DEF Whole, In, Open
  <2>3. p \notin Whole'
    BY <1>1, <1>2, <1>3 DEF Whole, In
  <2>4. Whole \subseteq Ids /\ Whole' \subseteq Ids
    BY DEF Whole, In
  <2>5. QED
    BY <2>1, <2>2, <2>3, <2>4
<1>10. \A s \in Token : /\ OfToken(Done, s)' = OfToken(Done, s)
                        /\ OfToken(Whole, s)' = OfToken(Whole, s)
                        /\ OfToken(Stored, s)' = OfToken(Stored, s)
  BY <1>6, <1>7, <1>9 DEF OfToken, Done, Stored, Whole, In
<1>11. /\ stats'.created = stats.created /\ stats'.completed = stats.completed
       /\ stats'.expired = stats.expired
       /\ stats'.volumeCompleted = stats.volumeCompleted
       /\ stats'.volumeRefunded = [stats.volumeRefunded EXCEPT ![t] = @ + x]
  BY <1>4, <1>5 DEF StatsType
<1>12. ASSUME NEW s \in Token
       PROVE  stats'.volumeRefunded[s] = SumFunctionOnSet(Amounts, OfToken(Whole, s))
                                           + SumFunctionOnSet(Parts', OfToken(Stored, s))
  <2> DEFINE S == OfToken(Stored, s)
             A == Parts
             B == Parts'
             y == SumFunctionOnSet(Amounts, OfToken(Whole, s))
             z == SumFunctionOnSet(A, S)
  <2>1. stats.volumeRefunded[s] = y + z /\ stats.volumeRefunded \in [Token -> Nat]
    BY <1>5 DEF StatsInv, StatsType
  <2>2. IsFiniteSet(S) /\ S \subseteq Ids /\ (p \in S <=> s = t)
    BY <1>2, SetsFinite DEF OfToken, Stored
  <2>3. \A q \in S : A[q] \in Int
    BY <2>2, AmountsTyped
  <2>4. A[p] = r /\ B[p] = r + x /\ \A q \in Ids \ {p} : B[q] = A[q]
    BY <1>2 DEF Parts
  <2>5. y \in Int
    <3>1. \A q \in OfToken(Whole, s) : Amounts[q] \in Int
      BY AmountsTyped DEF OfToken, Whole, In
    <3>2. QED
      BY <3>1, SetsFinite, SumInt
  <2>6. z \in Int
    BY <2>2, <2>3, SumInt
  <2> HIDE DEF S, A, B, y, t, r
  <2>7. SumFunctionOnSet(B, S) = z + (IF s = t THEN x ELSE 0)
    <3>1. CASE s = t
      <4>1. p \in S /\ B[p] \in Int
        BY <1>2, <2>2, <2>4, <3>1
      <4>2. \A q \in S \ {p} : B[q] = A[q]
        BY <2>2, <2>4
      <4>3. SumFunctionOnSet(B, S) = z - A[p] + B[p]
        BY <2>2, <2>3, <4>1, <4>2, SumChange
      <4> HIDE DEF z
      <4>4. QED
        BY <1>2, <2>4, <2>6, <3>1, <4>3
    <3>2. CASE s # t
      <4>1. \A q \in S : B[q] = A[q]
        BY <2>2, <2>4, <3>2
      <4>2. SumFunctionOnSet(B, S) = z
        BY <2>2, <4>1, SumEqual
      <4> HIDE DEF z
      <4>3. QED
        BY <2>6, <3>2, <4>2
    <3>3. QED
      BY <3>1, <3>2
  <2>8. stats'.volumeRefunded[s] = stats.volumeRefunded[s] + (IF s = t THEN x ELSE 0)
    BY <1>2, <1>11, <2>1
  <2> HIDE DEF z
  <2>9. stats'.volumeRefunded[s] = y + SumFunctionOnSet(B, S)
    BY <2>1, <2>5, <2>6, <2>7, <2>8
  <2>10. QED
    BY <2>9 DEF y, B, S
<1>13. QED
  BY <1>6, <1>7, <1>8, <1>10, <1>11, <1>12 DEF StatsInv

LEMMA DecisionCounted ==
    ASSUME Typed, TermsInv, StatsInv, NEW p \in Ids, NEW st \in {"Disputed", "Completed"},
           Decides(p, st)
    PROVE  StatsInv'
<1>1. MovedTo(p, st, payment[p].amount, payment[p].refunded)
  BY DecidesMoves
<1>2. /\ payment[p].status \in Open
      /\ payment'[p].status = st /\ payment'[p].amount = payment[p].amount
      /\ payment'[p].refunded = payment[p].refunded /\ payment'[p].token = payment[p].token
      /\ taken' = taken /\ nextId' = nextId
      /\ \A q \in Ids \ {p} : payment'[q] = payment[q]
  BY <1>1 DEF MovedTo
<1>3. receipt' = receipt /\ stats' = stats
  BY DEF Decides, completionVars
<1>4. Done' = Done /\ Counted' = Counted /\ Stored' = Stored
  BY <1>2, <1>3 DEF Done, Counted, Stored
<1>5. /\ Amounts' = Amounts /\ Parts' = Parts
      /\ \A q \in Ids : payment'[q].token = payment[q].token
  BY <1>2 DEF Amounts, Parts
<1>6. In({"Expired"})' = In({"Expired"}) /\ Whole' = Whole
  BY <1>2 DEF In, Whole, Open
<1>7. \A s \in Token : /\ OfToken(Done, s)' = OfToken(Done, s)
                       /\ OfToken(Whole, s)' = OfToken(Whole, s)
                       /\ OfToken(Stored, s)' = OfToken(Stored, s)
  BY <1>4, <1>5, <1>6 DEF OfToken, Done, Stored, Whole, In
<1>8. QED
  BY <1>3, <1>4, <1>5, <1>6, <1>7 DEF StatsInv

(* New payments are counted, and none of them is refunded.                  *)
LEMMA CreationCounted ==
    ASSUME Typed, TermsInv, StatsInv, NEW c \in Customers, NEW n \in {1, 2}, Makes(c, n)
    PROVE  StatsInv'
<1> DEFINE New == {q \in Ids : q >= nextId /\ q < nextId'}
<1>1. nextId \in Nat /\ nextId' = nextId + n /\ nextId' <= MaxPayments /\ MaxPayments \in Nat
  BY PaymentConstants DEF Makes, Typed, PaymentsTyped
<1>2. /\ \A q \in Stored : payment'[q] = payment[q] /\ taken'[q] = taken[q]
      /\ \A q \in Ids \ New : payment'[q] = payment[q] /\ taken'[q] = taken[q]
      /\ \A q \in New : Fresh(q, c)
  BY <1>1 DEF Makes, Stored, Ids
<1>3. Stored' = Stored \cup New /\ Stored \cap New = {}
  BY <1>1 DEF Stored, Ids
<1>4. New \subseteq Ids /\ IsFiniteSet(New) /\ Cardinality(New) = n
  <2>1. New = nextId .. nextId + n - 1
    BY <1>1 DEF Ids
  <2>2. nextId \in Int /\ nextId + n - 1 \in Int /\ nextId <= nextId + n - 1
    BY <1>1
  <2> HIDE DEF New
  <2>3. Cardinality(New) = (nextId + n - 1) - nextId + 1 /\ IsFiniteSet(New)
    BY <2>1, <2>2, FS_Interval
  <2>4. QED
    BY <1>1, <2>3 DEF New
<1>5. \A q \in New : payment[q].status = "None" /\ ~(receipt[q] > 0)
  <2>1. \A q \in New : q \in Ids /\ ~(q < nextId)
    BY <1>1 DEF Ids
  <2> HIDE DEF New
  <2>2. \A q \in New : payment[q].status = "None"
    BY <2>1 DEF Typed, PaymentsTyped
  <2>3. \A q \in New : payment[q].status = "None" => ~(receipt[q] > 0)
    BY <2>1 DEF TermsInv, Terms
  <2>4. QED
    BY <2>2, <2>3
<1> HIDE DEF New
<1>6. receipt' = receipt /\ stats \in StatsType
  BY DEF Makes, completionVars, Typed, MoneyTyped
<1>7. Done' = Done /\ Done \subseteq Ids \ New
  BY <1>5, <1>6 DEF Done
<1>8. /\ In({"Expired"})' = In({"Expired"})
      /\ Whole' = Whole /\ Whole \subseteq Ids \ New
  BY <1>2, <1>5 DEF In, Whole, Fresh
<1>9. stats'.created = Cardinality(Counted')
  <2>1. Counted \subseteq Stored /\ Counted \cap New = {}
    BY <1>3 DEF Counted, Stored
  <2>2. CASE (\A q \in New : ~taken'[q].multi) /\ stats' = [stats EXCEPT !.created = @ + n]
    <3>1. Counted' = Counted \cup New
      BY <1>2, <1>3, <2>2 DEF Counted, Stored
    <3>2. Counted \cap New = {} /\ IsFiniteSet(Counted) /\ IsFiniteSet(Counted \cap New)
      BY <2>1, SetsFinite, FS_EmptySet
    <3>3. Cardinality(Counted \cup New) =
            Cardinality(Counted) + Cardinality(New) - Cardinality(Counted \cap New)
      BY <1>4, <3>2, FS_Union
    <3>4. Cardinality(Counted \cap New) = 0 /\ Cardinality(Counted) \in Nat
      BY <3>2, FS_EmptySet, FS_CardinalityType
    <3>5. stats'.created = stats.created + n
      BY <1>6, <2>2 DEF StatsType
    <3>6. QED
      BY <1>4, <3>1, <3>3, <3>4, <3>5 DEF StatsInv
  <2>3. CASE (\A q \in New : taken'[q].multi) /\ stats' = stats
    <3>1. Counted' = Counted
      BY <1>2, <1>3, <2>3 DEF Counted, Stored
    <3>2. QED
      BY <2>3, <3>1 DEF StatsInv
  <2>4. QED
    BY <2>2, <2>3 DEF Makes, New
<1>10. /\ stats'.completed = stats.completed /\ stats'.expired = stats.expired
       /\ stats'.volumeCompleted = stats.volumeCompleted
       /\ stats'.volumeRefunded = stats.volumeRefunded
  BY <1>6 DEF Makes, StatsType
<1>11. ASSUME NEW s \in Token
       PROVE  /\ stats'.volumeCompleted[s] = SumFunctionOnSet(Amounts', OfToken(Done, s)')
              /\ stats'.volumeRefunded[s] = SumFunctionOnSet(Amounts', OfToken(Whole, s)')
                                              + SumFunctionOnSet(Parts', OfToken(Stored, s)')
  <2>1. OfToken(Done, s)' = OfToken(Done, s) /\ OfToken(Whole, s)' = OfToken(Whole, s)
    BY <1>2, <1>7, <1>8 DEF OfToken, Done, Whole, In
  <2>2. /\ OfToken(Done, s) \in SUBSET Ids /\ OfToken(Whole, s) \in SUBSET Ids
        /\ \A q \in OfToken(Done, s) \cup OfToken(Whole, s) : payment'[q] = payment[q]
    BY <1>2, <1>7, <1>8 DEF OfToken
  <2>3. /\ SumFunctionOnSet(Amounts', OfToken(Done, s)) = SumFunctionOnSet(Amounts, OfToken(Done, s))
        /\ SumFunctionOnSet(Amounts', OfToken(Whole, s)) = SumFunctionOnSet(Amounts, OfToken(Whole, s))
    BY <2>2, SumsKept
  <2> DEFINE S == OfToken(Stored, s)
             T == OfToken(Stored, s)'
             A == Parts
             B == Parts'
  <2>4. S \subseteq T /\ T \subseteq Ids /\ IsFiniteSet(T)
    BY <1>2, <1>3, IdsFinite, FS_Subset DEF OfToken, Stored
  <2>5. \A q \in S : B[q] = A[q] /\ A[q] \in Int
    BY <1>2, AmountsTyped DEF OfToken, Stored, Parts
  <2>6. \A q \in T \ S : B[q] = 0
    <3>1. \A q \in T \ S : q \in New
      BY <1>2, <1>3 DEF OfToken, Stored
    <3>2. QED
      BY <1>2, <1>4, <3>1 DEF Fresh, Parts
  <2> HIDE DEF S, T, A, B
  <2>7. SumFunctionOnSet(B, T) = SumFunctionOnSet(A, S)
    BY <2>4, <2>5, <2>6, SumPart
  <2>8. QED
    BY <1>10, <2>1, <2>3, <2>7 DEF StatsInv, A, B, S, T
<1>12. QED
  BY <1>7, <1>8, <1>9, <1>10, <1>11 DEF StatsInv

LEMMA StepKeepsStats ==
    ASSUME Typed, TermsInv, StatsInv, [Next]_vars
    PROVE  StatsInv'
<1>1. ASSUME NEW m \in Merchants, NEW batch \in Selection, Settles(m, batch)
      PROVE  StatsInv'
  <2>1. UNCHANGED <<payment, taken, receipt, stats, nextId>>
    BY <1>1, SettlementEffect DEF entryVars, completionVars
  <2>2. QED
    BY <2>1, AllKept
<1>2. ASSUME Rest
      PROVE  StatsInv'
  BY <1>2, AllKept DEF Rest, recordVars, completionVars
<1>3. QED
  BY <1>1, <1>2, StepIsOneOf, CreationCounted, CompletionCounted, ReturnCounted, RefundCounted,
     DecisionCounted DEF MovesPayment

(* The statistics agree with the payments: what is created, completed,      *)
(* expired and refunded is counted once, in its token, whatever the order.  *)
THEOREM StatisticsFollowPayments == Spec => []StatsAgree
<1> DEFINE IInv == Typed /\ TermsInv /\ StatsInv
<1>1. Init => IInv
  <2>1. SUFFICES ASSUME Init
                 PROVE  StatsInv
    BY InitTyped, InitTerms
  <2>2. /\ payment = [p \in Ids |-> NoPayment] /\ receipt = [p \in Ids |-> 0] /\ nextId = 0
        /\ stats = [created |-> 0, completed |-> 0, refunded |-> 0, expired |-> 0,
                    volumeCompleted |-> [t \in Token |-> 0],
                    volumeRefunded |-> [t \in Token |-> 0]]
    BY <2>1 DEF Init, InitLedger
  <2>3. NoPayment.status = "None"
    BY DEF NoPayment
  <2> HIDE DEF NoPayment
  <2>4. /\ Counted = {} /\ Stored = {} /\ Done = {} /\ In({"Expired"}) = {} /\ Whole = {}
    BY <2>2, <2>3, PaymentConstants DEF Counted, Stored, Done, In, Whole, Ids
  <2>5. \A t : OfToken(Done, t) = {} /\ OfToken(Whole, t) = {} /\ OfToken(Stored, t) = {}
    BY <2>4 DEF OfToken
  <2>6. /\ Cardinality(Counted) = 0 /\ Cardinality(Done) = 0 /\ Cardinality(In({"Expired"})) = 0
    BY <2>4, FS_EmptySet
  <2>7. \A t : /\ SumFunctionOnSet(Amounts, OfToken(Done, t)) = 0
               /\ SumFunctionOnSet(Amounts, OfToken(Whole, t)) = 0
               /\ SumFunctionOnSet(Parts, OfToken(Stored, t)) = 0
    BY <2>5, SumEmpty
  <2>8. QED
    BY <2>2, <2>6, <2>7 DEF StatsInv
<1>2. IInv /\ [Next]_vars => IInv'
  BY StepTyped, StepKeepsTerms, StepKeepsStats
<1>3. IInv => StatsAgree
  BY StatsInvIsStatsAgree
<1>4. QED
  BY <1>1, <1>2, <1>3, PTL DEF Spec

-----------------------------------------------------------------------------
(* Rate limits *)

Limits == {FirstLimit} \cup (Limit \cap LimitType)
Most == Max({l.max : l \in Limits})
Shortest == Min({l.window : l \in Limits})

LEMMA LimitsHaveBounds ==
    /\ Most \in Nat /\ Shortest \in Nat /\ Shortest > 0
    /\ \A l \in Limits : l.max <= Most /\ Shortest <= l.window
<1> DEFINE M == {l.max : l \in Limits}
           W == {l.window : l \in Limits}
<1>1. FirstLimit \in Limits /\ Limits \subseteq LimitType /\ IsFiniteSet(Limits)
  <2>1. IsFiniteSet(Limit \cap LimitType)
    BY PaymentConstants, FS_Subset
  <2>2. IsFiniteSet(Limits)
    <3>1. Limits = (Limit \cap LimitType) \cup {FirstLimit}
      BY DEF Limits
    <3>2. QED
      BY <2>1, <3>1, FS_AddElement
  <2>3. QED
    BY <2>2, PaymentConstants DEF Limits
<1>2. M \subseteq Nat /\ M # {} /\ W \subseteq Nat \ {0} /\ W # {}
  BY <1>1 DEF LimitType
<1>3. IsFiniteSet(M)
  <2> DEFINE f == [l \in Limits |-> l.max]
  <2>1. f \in [Limits -> M] /\ \A m \in M : \E l \in Limits : f[l] = m
    OBVIOUS
  <2> HIDE DEF M, f
  <2>2. f \in Surjection(Limits, M)
    BY <2>1 DEF Surjection
  <2>3. QED
    BY <1>1, <2>2, FS_Surjection
<1> HIDE DEF M, W
<1>4. PICK n \in Nat : M \subseteq 0 .. n
  BY <1>2, <1>3, FiniteHasBound
<1>5. Max(M) \in M /\ \A y \in M : y <= Max(M)
  BY <1>2, <1>4, MaxIsGreatest
<1>6. Min(W) \in W /\ \A y \in W : Min(W) <= y
  BY <1>2, MinIsLeast
<1>7. Most = Max(M) /\ Shortest = Min(W)
  BY DEF Most, Shortest, M, W
<1>8. \A l \in Limits : l.max \in M /\ l.window \in W
  BY DEF M, W
<1>9. Most \in Nat /\ Shortest \in Nat /\ Shortest > 0
  <2>1. \A w \in W : w \in Nat /\ w > 0
    BY <1>2
  <2>2. Max(M) \in Nat /\ Min(W) \in Nat /\ Min(W) > 0
    BY <1>2, <1>5, <1>6, <2>1
  <2>3. QED
    BY <1>7, <2>2
<1>10. \A l \in Limits : l.max <= Most /\ Shortest <= l.window
  BY <1>5, <1>6, <1>7, <1>8
<1>11. QED
  BY <1>9, <1>10

(* Those of the payments made that fall into the stretch that begins at t.  *)
Within(S, date, t) == {p \in S : date[p] >= t /\ date[p] <= t + Shortest - 1}

(* The payments of a customer are those counted in his window, and earlier  *)
(* ones; a stretch of time that reaches the window holds no more of those   *)
(* than one window allows.                                                  *)
RateOf(own, date, use, time) ==
    /\ use.start <= time /\ use.count <= Most
    /\ use.count = 0 => own = {}
    /\ \A p \in own : date[p] <= time
    /\ \A t \in Nat : Cardinality(Within(own, date, t)) <= 2 * Most
    /\ \E cur \in SUBSET own :
          /\ Cardinality(cur) <= use.count
          /\ \A p \in own \ cur : date[p] <= use.start
          /\ \A t \in Nat : t + Shortest - 1 >= use.start =>
                Cardinality(Within(own \ cur, date, t)) <= Most

LEMMA CountWithin ==
    ASSUME NEW S, IsFiniteSet(S), NEW T, T \subseteq S
    PROVE  IsFiniteSet(T) /\ Cardinality(T) \in Nat /\ Cardinality(T) <= Cardinality(S)
BY FS_Subset, FS_CardinalityType

LEMMA CountTogether ==
    ASSUME NEW S, IsFiniteSet(S), NEW T, IsFiniteSet(T)
    PROVE  /\ IsFiniteSet(S \cup T)
           /\ Cardinality(S \cup T) <= Cardinality(S) + Cardinality(T)
           /\ Cardinality(S) \in Nat /\ Cardinality(T) \in Nat /\ Cardinality(S \cup T) \in Nat
<1>1. /\ IsFiniteSet(S \cup T) /\ IsFiniteSet(S \cap T)
      /\ Cardinality(S \cup T) = Cardinality(S) + Cardinality(T) - Cardinality(S \cap T)
  BY FS_Union, FS_Subset
<1>2. /\ Cardinality(S) \in Nat /\ Cardinality(T) \in Nat /\ Cardinality(S \cap T) \in Nat
      /\ Cardinality(S \cup T) \in Nat
  BY <1>1, FS_CardinalityType
<1>3. QED
  BY <1>1, <1>2

(* A window that begins: what was made before is behind it.                 *)
LEMMA WindowBegins ==
    ASSUME NEW own, IsFiniteSet(own), NEW date, \A p \in own : date[p] \in Nat,
           NEW use \in [count : Nat, start : Nat], NEW time \in Nat,
           RateOf(own, date, use, time),
           NEW l \in Limits, use.count = 0 \/ time - use.start >= l.window,
           NEW new, IsFiniteSet(new), NEW n \in Nat, n > 0, Cardinality(new) = n, n <= l.max,
           \A p \in new : date[p] = time
    PROVE  RateOf(own \cup new, date, [count |-> n, start |-> time], time)
<1> DEFINE u == [count |-> n, start |-> time]
           all == own \cup new
           cur == all \cap new
<1>1. u.count = n /\ u.start = time
  OBVIOUS
<1>2. /\ Most \in Nat /\ Shortest \in Nat /\ Shortest > 0 /\ n <= Most
      /\ l.max \in Nat /\ l.window \in Nat /\ l.max <= Most /\ Shortest <= l.window
  <2>1. l \in LimitType
    BY PaymentConstants DEF Limits
  <2>2. l.max \in Nat /\ l.window \in Nat
    BY <2>1 DEF LimitType
  <2>3. QED
    BY <2>2, LimitsHaveBounds
<1>3. /\ use.start <= time /\ use.count <= Most /\ (use.count = 0 => own = {})
      /\ \A p \in own : date[p] <= time
      /\ \A t \in Nat : Cardinality(Within(own, date, t)) <= 2 * Most
  BY DEF RateOf
<1>4. PICK old \in SUBSET own :
          /\ Cardinality(old) <= use.count
          /\ \A p \in own \ old : date[p] <= use.start
  BY DEF RateOf
<1> HIDE DEF u
<1>5. ASSUME NEW t \in Nat, t + Shortest - 1 >= time
      PROVE  Cardinality(Within(own, date, t)) <= Most
  <2>1. CASE use.count = 0
    <3>1. Within(own, date, t) = {}
      BY <1>3, <2>1 DEF Within
    <3>2. QED
      BY <1>2, <3>1, FS_EmptySet
  <2>2. CASE time - use.start >= l.window
    <3>1. t > use.start
      BY <1>2, <1>5, <2>2
    <3>2. Within(own, date, t) \subseteq old
      <4>1. \A p \in own \ old : ~(date[p] >= t)
        BY <1>4, <3>1
      <4>2. QED
        BY <4>1 DEF Within
    <3>3. IsFiniteSet(old)
      BY FS_Subset
    <3>4. /\ Cardinality(Within(own, date, t)) <= Cardinality(old)
          /\ Cardinality(Within(own, date, t)) \in Nat /\ Cardinality(old) \in Nat
      BY <3>2, <3>3, CountWithin, FS_CardinalityType
    <3>5. QED
      BY <1>2, <1>3, <1>4, <3>4
  <2>3. QED
    BY <2>1, <2>2
<1>6. ASSUME NEW t \in Nat
      PROVE  Cardinality(Within(all, date, t)) <= 2 * Most
  <2>1. IsFiniteSet(Within(own, date, t)) /\ Cardinality(Within(own, date, t)) \in Nat
    <3>1. Within(own, date, t) \subseteq own
      BY DEF Within
    <3>2. QED
      BY <3>1, CountWithin
  <2>2. CASE t + Shortest - 1 >= time
    <3>1. Within(all, date, t) \subseteq Within(own, date, t) \cup new
      BY DEF Within
    <3>2. /\ IsFiniteSet(Within(own, date, t) \cup new)
          /\ Cardinality(Within(own, date, t) \cup new)
               <= Cardinality(Within(own, date, t)) + n
          /\ Cardinality(Within(own, date, t) \cup new) \in Nat
      BY <2>1, CountTogether
    <3>3. /\ Cardinality(Within(all, date, t)) <= Cardinality(Within(own, date, t) \cup new)
          /\ Cardinality(Within(all, date, t)) \in Nat
      BY <3>1, <3>2, CountWithin
    <3>4. Cardinality(Within(own, date, t)) <= Most
      BY <1>5, <2>2
    <3>5. QED
      BY <1>2, <2>1, <3>2, <3>3, <3>4
  <2>3. CASE ~(t + Shortest - 1 >= time)
    <3>1. \A p \in new : ~(date[p] <= t + Shortest - 1)
      BY <1>2, <2>3
    <3>2. Within(all, date, t) = Within(own, date, t)
      BY <3>1 DEF Within
    <3>3. QED
      BY <1>3, <3>2
  <2>4. QED
    BY <2>2, <2>3
<1>7. /\ cur \in SUBSET all
      /\ Cardinality(cur) <= u.count
      /\ \A p \in all \ cur : date[p] <= u.start
  <2>1. cur = new /\ all \ cur \subseteq own /\ cur \in SUBSET all
    OBVIOUS
  <2> HIDE DEF all, cur
  <2>2. Cardinality(cur) <= u.count
    BY <1>1, <2>1
  <2>3. \A p \in all \ cur : date[p] <= u.start
    BY <1>1, <1>3, <2>1
  <2>4. QED
    BY <2>1, <2>2, <2>3
<1>8. ASSUME NEW t \in Nat, t + Shortest - 1 >= u.start
      PROVE  Cardinality(Within(all \ cur, date, t)) <= Most
  <2>1. Within(all \ cur, date, t) \subseteq Within(own, date, t)
    BY DEF Within
  <2>2. IsFiniteSet(Within(own, date, t))
    <3>1. Within(own, date, t) \subseteq own
      BY DEF Within
    <3>2. QED
      BY <3>1, CountWithin
  <2>3. /\ Cardinality(Within(all \ cur, date, t)) <= Cardinality(Within(own, date, t))
        /\ Cardinality(Within(all \ cur, date, t)) \in Nat
        /\ Cardinality(Within(own, date, t)) \in Nat
    BY <2>1, <2>2, CountWithin, FS_CardinalityType
  <2>4. Cardinality(Within(own, date, t)) <= Most
    BY <1>1, <1>5, <1>8
  <2>5. QED
    BY <1>2, <2>3, <2>4
<1>9. /\ u.start <= time /\ u.count <= Most
      /\ u.count = 0 => all = {}
      /\ \A p \in all : date[p] <= time
  BY <1>1, <1>2, <1>3
<1> HIDE DEF all, cur
<1>10. RateOf(all, date, u, time)
  BY <1>6, <1>7, <1>8, <1>9 DEF RateOf
<1>11. QED
  BY <1>10 DEF all, u

(* A window that goes on.                                                   *)
LEMMA WindowGoesOn ==
    ASSUME NEW own, IsFiniteSet(own), NEW date, \A p \in own : date[p] \in Nat,
           NEW use \in [count : Nat, start : Nat], NEW time \in Nat,
           RateOf(own, date, use, time),
           NEW new, IsFiniteSet(new), NEW n \in Nat, n > 0, Cardinality(new) = n,
           new \cap own = {}, use.count + n <= Most,
           \A p \in new : date[p] = time
    PROVE  RateOf(own \cup new, date, [use EXCEPT !.count = @ + n], time)
<1> DEFINE u == [use EXCEPT !.count = @ + n]
           all == own \cup new
<1>1. u.count = use.count + n /\ u.start = use.start /\ use.count \in Nat /\ use.start \in Nat
  OBVIOUS
<1>2. Most \in Nat /\ Shortest \in Nat /\ Shortest > 0
  BY LimitsHaveBounds
<1>3. /\ use.start <= time /\ use.count <= Most /\ (use.count = 0 => own = {})
      /\ \A p \in own : date[p] <= time
      /\ \A t \in Nat : Cardinality(Within(own, date, t)) <= 2 * Most
  BY DEF RateOf
<1>4. PICK old \in SUBSET own :
          /\ Cardinality(old) <= use.count
          /\ \A p \in own \ old : date[p] <= use.start
          /\ \A t \in Nat : t + Shortest - 1 >= use.start =>
                Cardinality(Within(own \ old, date, t)) <= Most
  BY DEF RateOf
<1> DEFINE cur == old \cup new
<1> HIDE DEF u
<1>5. IsFiniteSet(old) /\ Cardinality(old) \in Nat
  BY CountWithin
<1>6. /\ IsFiniteSet(cur) /\ Cardinality(cur) \in Nat
      /\ Cardinality(cur) <= use.count + n
  <2>1. /\ IsFiniteSet(cur) /\ Cardinality(cur) \in Nat
        /\ Cardinality(cur) <= Cardinality(old) + n
    BY <1>5, CountTogether
  <2> HIDE DEF cur
  <2>2. QED
    BY <1>1, <1>4, <1>5, <2>1
<1>7. all \ cur = own \ old
  OBVIOUS
<1>8. ASSUME NEW t \in Nat
      PROVE  Cardinality(Within(all, date, t)) <= 2 * Most
  <2>1. CASE t + Shortest - 1 >= use.start
    <3> DEFINE w == Within(own \ old, date, t)
    <3>1. w \subseteq own
      BY DEF Within
    <3>2. IsFiniteSet(w) /\ Cardinality(w) \in Nat /\ Cardinality(w) <= Most
      BY <1>4, <2>1, <3>1, CountWithin
    <3>3. Within(all, date, t) \subseteq w \cup cur
      BY DEF Within
    <3> HIDE DEF w, cur, all
    <3>4. /\ IsFiniteSet(w \cup cur) /\ Cardinality(w \cup cur) \in Nat
          /\ Cardinality(w \cup cur) <= Cardinality(w) + Cardinality(cur)
      BY <1>6, <3>2, CountTogether
    <3>5. /\ Cardinality(Within(all, date, t)) <= Cardinality(w \cup cur)
          /\ Cardinality(Within(all, date, t)) \in Nat
      BY <3>3, <3>4, CountWithin
    <3>6. QED
      BY <1>1, <1>2, <1>6, <3>2, <3>4, <3>5
  <2>2. CASE ~(t + Shortest - 1 >= use.start)
    <3>1. \A p \in new : ~(date[p] <= t + Shortest - 1)
      BY <1>1, <1>2, <1>3, <2>2
    <3>2. Within(all, date, t) = Within(own, date, t)
      BY <3>1 DEF Within
    <3>3. QED
      BY <1>3, <3>2
  <2>3. QED
    BY <2>1, <2>2
<1>9. /\ cur \in SUBSET all
      /\ Cardinality(cur) <= u.count
      /\ \A p \in all \ cur : date[p] <= u.start
      /\ \A t \in Nat : t + Shortest - 1 >= u.start =>
            Cardinality(Within(all \ cur, date, t)) <= Most
  BY <1>1, <1>4, <1>6, <1>7
<1>10. /\ u.start <= time /\ u.count <= Most
       /\ u.count = 0 => all = {}
       /\ \A p \in all : date[p] <= time
  BY <1>1, <1>2, <1>3
<1> HIDE DEF all, cur
<1>11. RateOf(all, date, u, time)
  BY <1>8, <1>9, <1>10 DEF RateOf
<1>12. QED
  BY <1>11 DEF all, u

(* Time passes, and dates stay.                                             *)
LEMMA RateStays ==
    ASSUME NEW own, NEW date, NEW date2, \A p \in own : date2[p] = date[p] /\ date[p] \in Nat,
           NEW use \in [count : Nat, start : Nat], NEW time \in Nat, NEW time2 \in Nat, time <= time2,
           RateOf(own, date, use, time)
    PROVE  RateOf(own, date2, use, time2)
<1>1. \A S \in SUBSET own, t \in Nat : Within(S, date2, t) = Within(S, date, t)
  BY DEF Within
<1>2. PICK cur \in SUBSET own :
          /\ Cardinality(cur) <= use.count
          /\ \A p \in own \ cur : date[p] <= use.start
          /\ \A t \in Nat : t + Shortest - 1 >= use.start =>
                Cardinality(Within(own \ cur, date, t)) <= Most
  BY DEF RateOf
<1>3. /\ use.start <= time /\ use.count <= Most /\ (use.count = 0 => own = {})
      /\ \A p \in own : date[p] <= time
      /\ \A t \in Nat : Cardinality(Within(own, date, t)) <= 2 * Most
  BY DEF RateOf
<1>4. use.start <= time2 /\ \A p \in own : date2[p] <= time2
  BY <1>3
<1>5. /\ \A p \in own \ cur : date2[p] <= use.start
      /\ \A t \in Nat : t + Shortest - 1 >= use.start =>
                Cardinality(Within(own \ cur, date2, t)) <= Most
  <2>1. own \ cur \in SUBSET own
    OBVIOUS
  <2>2. QED
    BY <1>1, <1>2, <2>1
<1>6. \A t \in Nat : Cardinality(Within(own, date2, t)) <= 2 * Most
  BY <1>1, <1>3
<1>7. QED
  BY <1>2, <1>3, <1>4, <1>5, <1>6 DEF RateOf

MadeBy(c) == {p \in Ids : p < nextId /\ payment[p].customer = c}
Dates == [p \in Ids |-> payment[p].createdAt]

RateInv ==
    /\ limit \in Limits
    /\ \A c \in Customers : RateOf(MadeBy(c), Dates, usage[c], now)

LEMMA DatesTyped ==
    ASSUME Typed
    PROVE  /\ \A p \in Ids : Dates[p] \in Nat
           /\ now \in Nat /\ nextId \in Nat
           /\ \A c \in Customers : /\ usage[c] \in [count : Nat, start : Nat]
                                   /\ IsFiniteSet(MadeBy(c)) /\ MadeBy(c) \subseteq Ids
<1>1. \A p \in Ids : Dates[p] \in Nat
  BY DEF Typed, PaymentsTyped, PaymentType, Dates
<1>2. now \in Nat /\ nextId \in Nat
  BY PaymentConstants DEF Typed, ClockTyped, PaymentsTyped
<1>3. \A c \in Customers : usage[c] \in [count : Nat, start : Nat]
  BY DEF Typed, EntryTyped
<1>4. \A c \in Customers : IsFiniteSet(MadeBy(c)) /\ MadeBy(c) \subseteq Ids
  BY IdsFinite DEF MadeBy
<1>5. QED
  BY <1>1, <1>2, <1>3, <1>4

LEMMA LimitAgreed ==
    ASSUME Typed, RateInv, [Next]_vars
    PROVE  limit' \in Limits
<1>1. limit \in Limits
  BY DEF RateInv
<1>2. CASE CreateStep
  <2>1. \/ \E c \in Customers, n \in {1, 2} : Makes(c, n)
        \/ \E k \in Key : KeyLapses(k)
    BY <1>2, CreateStepMakes
  <2>2. QED
    BY <1>1, <2>1 DEF Makes, KeyLapses, configVars
<1>3. CASE PaymentStep
  <2>1. ASSUME NEW p \in Ids, MovesPayment(p)
        PROVE  limit' = limit
    BY <2>1 DEF MovesPayment, Completes, GivesBack, Refunds, Decides, configVars
  <2>2. ASSUME NEW m \in Merchants, NEW batch \in Selection, Settles(m, batch)
        PROVE  limit' = limit
    BY <2>2, SettlementEffect DEF configVars
  <2>3. QED
    BY <1>1, <1>3, <2>1, <2>2, PaymentStepMoves
<1>4. CASE SubscriptionStep
  BY <1>1, <1>4 DEF SubscriptionStep, CreateSubscription, ChargeSubscription,
                    CancelSubscription, configVars
<1>5. CASE ConfigStep
  <2>1. ASSUME NEW l \in Limit, UpdateRateLimitConfig(l)
        PROVE  limit' \in Limits
    <3>1. l \in [max : Nat, window : Nat] /\ l.max > 0 /\ l.window > 0 /\ limit' = l
      BY <2>1, PaymentConstants DEF UpdateRateLimitConfig
    <3>2. QED
      BY <3>1 DEF Limits, LimitType
  <2>2. QED
    BY <1>1, <1>5, <2>1
       DEF ConfigStep, UpdateFee, UpdateFeeTiers, SetPaymentTimeout, SetMaxBatchSize,
           SetOracle, SetOpenMode, ApproveMerchant, RevokeMerchant, ChangeApproval
<1>6. CASE AdminStep \/ Tick \/ UNCHANGED vars
  BY <1>1, <1>6 DEF AdminStep, PauseContract, ResumeContract, Tick, vars, configVars
<1>7. QED
  BY <1>2, <1>3, <1>4, <1>5, <1>6 DEF Next

(* No date, customer or count moves. *)
LEMMA RatesKept ==
    ASSUME Typed, RateInv, NEW c \in Customers, now' \in Nat, now' >= now,
           usage'[c] = usage[c], MadeBy(c)' = MadeBy(c),
           \A p \in MadeBy(c) : payment'[p].createdAt = payment[p].createdAt
    PROVE  RateOf(MadeBy(c)', Dates', usage'[c], now')
<1>1. \A p \in MadeBy(c) : Dates'[p] = Dates[p] /\ Dates[p] \in Nat
  BY DatesTyped DEF Dates, MadeBy
<1>2. RateOf(MadeBy(c), Dates, usage[c], now)
  BY DEF RateInv
<1>3. now \in Nat /\ usage[c] \in [count : Nat, start : Nat]
  BY DatesTyped
<1>4. QED
  BY <1>1, <1>2, <1>3, RateStays

LEMMA CreationKeepsRates ==
    ASSUME Typed, RateInv, NEW c \in Customers, NEW n \in {1, 2}, Makes(c, n)
    PROVE  \A d \in Customers : RateOf(MadeBy(d)', Dates', usage'[d], now')
<1> DEFINE New == {q \in Ids : q >= nextId /\ q < nextId'}
<1>1. /\ nextId \in Nat /\ nextId' = nextId + n /\ nextId' <= MaxPayments /\ MaxPayments \in Nat
      /\ now' = now /\ now \in Nat
  BY PaymentConstants DEF Makes, Typed, PaymentsTyped, ClockTyped
<1>2. New \subseteq Ids /\ IsFiniteSet(New) /\ Cardinality(New) = n
  <2>1. New = nextId .. nextId + n - 1
    BY <1>1 DEF Ids
  <2>2. nextId \in Int /\ nextId + n - 1 \in Int /\ nextId <= nextId + n - 1
    BY <1>1
  <2> HIDE DEF New
  <2>3. Cardinality(New) = (nextId + n - 1) - nextId + 1 /\ IsFiniteSet(New)
    BY <2>1, <2>2, FS_Interval
  <2>4. QED
    BY <1>1, <2>3 DEF New
<1>3. /\ \A q \in Ids : q < nextId => payment'[q] = payment[q]
      /\ \A q \in New : payment'[q].customer = c /\ payment'[q].createdAt = now
  BY DEF Makes, Fresh
<1>4. \A d \in Customers : MadeBy(d)' = IF d = c THEN MadeBy(d) \cup New ELSE MadeBy(d)
  <2>1. \A q \in Ids : q < nextId' <=> q < nextId \/ q \in New
    BY <1>1 DEF Ids
  <2>2. \A q \in New : ~(q < nextId)
    BY <1>1 DEF Ids
  <2> HIDE DEF New
  <2>3. QED
    BY <1>2, <1>3, <2>1, <2>2 DEF MadeBy
<1>5. New \cap MadeBy(c) = {}
  BY <1>1 DEF MadeBy, Ids
<1> HIDE DEF New
<1>6. /\ UsageAfter(c, n).count <= limit.max
      /\ usage' = [usage EXCEPT ![c] = UsageAfter(c, n)]
      /\ usage \in [Customers -> [count : Nat, start : Nat]]
  BY DEF Makes, EnforceRateLimit, Typed, EntryTyped
<1>7. ASSUME NEW d \in Customers, d # c
      PROVE  RateOf(MadeBy(d)', Dates', usage'[d], now')
  <2>1. usage'[d] = usage[d] /\ MadeBy(d)' = MadeBy(d)
    BY <1>4, <1>6, <1>7
  <2>2. \A p \in MadeBy(d) : payment'[p].createdAt = payment[p].createdAt
    BY <1>3 DEF MadeBy
  <2>3. now' \in Nat /\ now' >= now
    BY <1>1
  <2>4. QED
    BY <2>1, <2>2, <2>3, RatesKept
<1>8. RateOf(MadeBy(c)', Dates', usage'[c], now')
  <2> DEFINE own == MadeBy(c)
             date == Dates'
             use == usage[c]
  <2>1. /\ IsFiniteSet(own) /\ use \in [count : Nat, start : Nat]
        /\ \A p \in own : date[p] = Dates[p] /\ Dates[p] \in Nat
    BY <1>3, DatesTyped DEF MadeBy, Dates
  <2>2. \A p \in New : date[p] = now
    BY <1>2, <1>3 DEF Dates
  <2>3. RateOf(own, date, use, now)
    <3>1. RateOf(own, Dates, use, now)
      BY DEF RateInv
    <3>2. now <= now
      BY <1>1
    <3> HIDE DEF own, date, use
    <3>3. QED
      BY <1>1, <2>1, <3>1, <3>2, RateStays
  <2>4. limit \in Limits /\ limit.max <= Most /\ limit.max \in Nat /\ Most \in Nat
    <3>1. limit \in Limits /\ limit \in LimitType
      BY DEF RateInv, Typed, ConfigTyped
    <3>2. QED
      BY <3>1, LimitsHaveBounds DEF LimitType
  <2>5. n \in Nat /\ n > 0
    OBVIOUS
  <2>6. usage'[c] = UsageAfter(c, n)
    BY <1>6
  <2>7. MadeBy(c)' = own \cup New
    BY <1>4
  <2>8. CASE WindowOver(c)
    <3>1. UsageAfter(c, n) = [count |-> n, start |-> now]
      BY <2>8 DEF UsageAfter
    <3>2. n <= limit.max
      BY <1>6, <3>1
    <3>3. use.count = 0 \/ now - use.start >= limit.window
      BY <2>8 DEF WindowOver
    <3> HIDE DEF own, date, use
    <3>4. \A p \in own : date[p] \in Nat
      BY <2>1
    <3>5. RateOf(own \cup New, date, [count |-> n, start |-> now], now)
      BY <1>1, <1>2, <2>1, <2>2, <2>3, <2>4, <2>5, <3>2, <3>3, <3>4, WindowBegins
    <3>6. QED
      BY <1>1, <2>6, <2>7, <3>1, <3>5 DEF date
  <2>9. CASE ~WindowOver(c)
    <3>1. UsageAfter(c, n) = [use EXCEPT !.count = @ + n]
      BY <2>9 DEF UsageAfter
    <3>2. use.count + n <= Most
      <4>1. use.count + n <= limit.max
        BY <1>6, <2>1, <3>1
      <4> HIDE DEF use
      <4>2. QED
        BY <2>1, <2>4, <2>5, <4>1
    <3>3. New \cap own = {}
      BY <1>5
    <3> HIDE DEF own, date, use
    <3>4. \A p \in own : date[p] \in Nat
      BY <2>1
    <3>5. RateOf(own \cup New, date, [use EXCEPT !.count = @ + n], now)
      BY <1>1, <1>2, <2>1, <2>2, <2>3, <2>5, <3>2, <3>3, <3>4, WindowGoesOn
    <3>6. QED
      BY <1>1, <2>6, <2>7, <3>1, <3>5 DEF date
  <2>10. QED
    BY <2>8, <2>9
<1>9. QED
  BY <1>7, <1>8

LEMMA StepKeepsRates ==
    ASSUME Typed, RateInv, [Next]_vars
    PROVE  RateInv'
<1>1. now \in Nat /\ now' \in Nat /\ nextId \in Nat
  <2>1. now' \in Genesis .. MaxTime /\ now \in Genesis .. MaxTime /\ nextId \in Nat
    BY StepTyped, PaymentConstants DEF Typed, ClockTyped, PaymentsTyped
  <2>2. Genesis \in Nat
    BY PaymentConstants
  <2>3. QED
    BY <2>1, <2>2
<1>2. SUFFICES \A d \in Customers : RateOf(MadeBy(d)', Dates', usage'[d], now')
  BY LimitAgreed DEF RateInv
<1>3. ASSUME usage' = usage, nextId' = nextId, now' >= now,
             \A q \in Ids : /\ payment'[q].customer = payment[q].customer
                            /\ payment'[q].createdAt = payment[q].createdAt
      PROVE  \A d \in Customers : RateOf(MadeBy(d)', Dates', usage'[d], now')
  <2>1. \A d \in Customers : MadeBy(d)' = MadeBy(d)
    BY <1>3 DEF MadeBy
  <2>2. \A d \in Customers : \A p \in MadeBy(d) : payment'[p].createdAt = payment[p].createdAt
    BY <1>3 DEF MadeBy
  <2>3. QED
    BY <1>1, <1>3, <2>1, <2>2, RatesKept
<1>4. ASSUME NEW p \in Ids, NEW st, NEW a, NEW b, MovedTo(p, st, a, b)
      PROVE  \A d \in Customers : RateOf(MadeBy(d)', Dates', usage'[d], now')
  <2>1. /\ usage' = usage /\ nextId' = nextId /\ now' >= now
        /\ \A q \in Ids : /\ payment'[q].customer = payment[q].customer
                          /\ payment'[q].createdAt = payment[q].createdAt
    BY <1>1, <1>4 DEF MovedTo
  <2>2. QED
    BY <1>3, <2>1
<1>5. ASSUME NEW p \in Ids, MovesPayment(p)
      PROVE  \A d \in Customers : RateOf(MadeBy(d)', Dates', usage'[d], now')
  <2>1. \E st, a, b : MovedTo(p, st, a, b)
    BY <1>5, CompletesMoves, GivesBackMoves, RefundsMoves, DecidesMoves DEF MovesPayment
  <2>2. QED
    BY <1>4, <2>1
<1>6. ASSUME NEW m \in Merchants, NEW batch \in Selection, Settles(m, batch)
      PROVE  \A d \in Customers : RateOf(MadeBy(d)', Dates', usage'[d], now')
  <2>1. UNCHANGED <<payment, usage, nextId, now>>
    BY <1>6, SettlementEffect DEF entryVars
  <2>2. now' >= now
    BY <1>1, <2>1
  <2>3. QED
    BY <1>3, <2>1, <2>2
<1>7. ASSUME Rest
      PROVE  \A d \in Customers : RateOf(MadeBy(d)', Dates', usage'[d], now')
  BY <1>3, <1>7 DEF Rest, recordVars
<1>8. QED
  BY <1>5, <1>6, <1>7, StepIsOneOf, CreationKeepsRates

(* Whatever limits the admin sets meanwhile, a customer makes in any stretch *)
(* as long as the shortest window at most two times the largest number of   *)
(* payments: a stretch meets two windows, one of which lies before it.      *)
THEOREM RatesAreLimited == Spec => []RateHeld
<1> DEFINE IInv == Typed /\ RateInv
<1>1. Init => IInv
  <2>1. SUFFICES ASSUME Init
                 PROVE  RateInv
    BY InitTyped
  <2>2. limit = FirstLimit /\ now = Genesis /\ nextId = 0
        /\ usage = [c \in Customers |-> [count |-> 0, start |-> 0]]
    BY <2>1 DEF Init, InitConfig, InitLedger
  <2>3. limit \in Limits
    BY <2>2 DEF Limits
  <2>4. ASSUME NEW c \in Customers
        PROVE  RateOf(MadeBy(c), Dates, usage[c], now)
    <3>1. MadeBy(c) = {}
      BY <2>2, PaymentConstants DEF MadeBy, Ids
    <3>2. usage[c].count = 0 /\ usage[c].start = 0 /\ 0 <= now
      BY <2>2, PaymentConstants
    <3>3. \A t \in Nat : Within({}, Dates, t) = {}
      BY DEF Within
    <3>4. Cardinality({}) = 0 /\ Most \in Nat
      BY FS_EmptySet, LimitsHaveBounds
    <3>5. {} \in SUBSET MadeBy(c) /\ MadeBy(c) \ {} = {}
      BY <3>1
    <3>6. /\ usage[c].start <= now /\ usage[c].count <= Most
          /\ \A t \in Nat : Cardinality(Within({}, Dates, t)) <= 2 * Most
          /\ \A t \in Nat : Cardinality(Within({}, Dates, t)) <= Most
      <4>1. 0 <= Most /\ 0 <= 2 * Most
        BY <3>4
      <4>2. usage[c].start <= now /\ usage[c].count <= Most
        BY <3>2, <4>1
      <4>3. \A t \in Nat : Cardinality(Within({}, Dates, t)) = 0
        BY <3>3, <3>4
      <4>4. QED
        BY <4>1, <4>2, <4>3
    <3>7. RateOf({}, Dates, usage[c], now)
      <4>1. {} \in SUBSET {} /\ {} \ {} = {}
        OBVIOUS
      <4>2. QED
        BY <3>2, <3>4, <3>6, <4>1 DEF RateOf
    <3>8. QED
      BY <3>1, <3>7
  <2>5. QED
    BY <2>3, <2>4 DEF RateInv
<1>2. IInv /\ [Next]_vars => IInv'
  BY StepTyped, StepKeepsRates
<1>3. IInv => RateHeld
  <2>1. SUFFICES ASSUME IInv, NEW c \in Customers, NEW t \in Genesis .. now
                 PROVE  Cardinality({p \in Ids : /\ p < nextId
                                                 /\ payment[p].customer = c
                                                 /\ payment[p].createdAt \in t .. t + Shortest - 1})
                          <= 2 * Most
    BY DEF RateHeld, Limits, Most, Shortest
  <2>2. Typed /\ RateInv
    BY <2>1
  <2>3. t \in Nat /\ Shortest \in Nat
    <3>1. Genesis \in Nat /\ now \in Nat
      BY <2>2, DatesTyped, PaymentConstants
    <3>2. QED
      BY <3>1, LimitsHaveBounds
  <2>4. \A p \in Ids : Dates[p] = payment[p].createdAt /\ payment[p].createdAt \in Nat
    BY <2>2, DatesTyped DEF Dates
  <2>5. {p \in Ids : /\ p < nextId
                     /\ payment[p].customer = c
                     /\ payment[p].createdAt \in t .. t + Shortest - 1}
          = Within(MadeBy(c), Dates, t)
    BY <2>3, <2>4 DEF Within, MadeBy
  <2>6. Cardinality(Within(MadeBy(c), Dates, t)) <= 2 * Most
    BY <2>2, <2>3 DEF RateInv, RateOf
  <2>7. QED
    BY <2>5, <2>6
<1>4. QED
  BY <1>1, <1>2, <1>3, PTL DEF Spec

-----------------------------------------------------------------------------
(* The balances, in terms of the payments *)

(* What left on the account of the payments recorded in the token t.        *)
PaidIn(t) == [p \in Ids |-> IF payment[p].token = t THEN paid[p] ELSE 0]

BooksBalance ==
    \A t \in Token :
        balance[t] = SumFunctionOnSet(TakenIn(t), Ids) - SumFunctionOnSet(PaidIn(t), Ids)

NothingAhead == \A p \in Ids : p >= nextId => taken[p].amount = 0

LedgerInv == BooksBalance /\ NothingAhead

LEMMA BooksTyped ==
    ASSUME Typed, NEW t
    PROVE  /\ \A p \in Ids : TakenIn(t)[p] \in Int /\ PaidIn(t)[p] \in Int
           /\ SumFunctionOnSet(TakenIn(t), Ids) \in Int
           /\ SumFunctionOnSet(PaidIn(t), Ids) \in Int
<1>1. \A p \in Ids : taken[p].amount \in Nat /\ paid[p] \in Nat
  BY DEF Typed, EntryTyped, TakenType, MoneyTyped
<1>2. \A p \in Ids : TakenIn(t)[p] \in Int /\ PaidIn(t)[p] \in Int
  BY <1>1 DEF TakenIn, PaidIn
<1>3. QED
  BY <1>2, IdsFinite, SumInt

(* A call that leaves the balances, or moves one payment.                   *)
LEMMA UnmovedBalances ==
    ASSUME BooksBalance, balance' = balance, taken' = taken, paid' = paid,
           \A q \in Ids : payment'[q].token = payment[q].token
    PROVE  BooksBalance'
<1>1. ASSUME NEW t
      PROVE  TakenIn(t)' = TakenIn(t) /\ PaidIn(t)' = PaidIn(t)
  BY DEF TakenIn, PaidIn
<1>2. QED
  BY <1>1 DEF BooksBalance

LEMMA MovedBalances ==
    ASSUME Typed, BooksBalance, NEW p \in Ids, NEW x \in Nat, PayOut(p, x), taken' = taken,
           \A q \in Ids : payment'[q].token = payment[q].token
    PROVE  BooksBalance'
<1>1. SUFFICES ASSUME NEW t \in Token
               PROVE  balance'[t] = SumFunctionOnSet(TakenIn(t)', Ids)
                                      - SumFunctionOnSet(PaidIn(t)', Ids)
  BY DEF BooksBalance
<1> DEFINE f == PaidIn(t)
           g == PaidIn(t)'
           y == IF payment[p].token = t THEN x ELSE 0
<1>2. TakenIn(t)' = TakenIn(t)
  BY DEF TakenIn
<1>3. /\ paid'[p] = paid[p] + x /\ paid[p] \in Nat
      /\ \A q \in Ids \ {p} : paid'[q] = paid[q]
  BY PaidOutTyped DEF Typed, MoneyTyped
<1>4. /\ \A q \in Ids \ {p} : g[q] = f[q]
      /\ g[p] = f[p] + y
  BY <1>3 DEF PaidIn
<1>5. /\ \A q \in Ids : f[q] \in Int
      /\ SumFunctionOnSet(f, Ids) \in Int /\ SumFunctionOnSet(TakenIn(t), Ids) \in Int
  BY BooksTyped
<1>6. balance'[t] = balance[t] - y /\ balance[t] \in Nat /\ y \in Nat
  <2>1. payment[p].token \in Token /\ balance \in [Token -> Nat]
    BY DEF Typed, PaymentsTyped, PaymentType, MoneyTyped
  <2>2. balance' = [balance EXCEPT ![payment[p].token] = @ - x]
    BY DEF PayOut
  <2>3. QED
    BY <2>1, <2>2
<1>7. balance[t] = SumFunctionOnSet(TakenIn(t), Ids) - SumFunctionOnSet(f, Ids)
  BY DEF BooksBalance
<1> HIDE DEF f, g, y
<1>8. SumFunctionOnSet(g, Ids) = SumFunctionOnSet(f, Ids) - f[p] + g[p]
  <2>1. g[p] \in Int
    BY <1>4, <1>5, <1>6
  <2>2. QED
    BY <1>4, <1>5, <2>1, IdsFinite, SumChange
<1>9. f[p] \in Int
  BY <1>5
<1>10. QED
  BY <1>2, <1>4, <1>5, <1>6, <1>7, <1>8, <1>9 DEF g

LEMMA MoveKeepsBooks ==
    ASSUME Typed, LedgerInv, NEW p \in Ids, MovesPayment(p)
    PROVE  LedgerInv'
<1>1. ASSUME NEW st, NEW a, NEW b, MovedTo(p, st, a, b)
      PROVE  /\ taken' = taken /\ nextId' = nextId
             /\ \A q \in Ids : payment'[q].token = payment[q].token
  BY <1>1 DEF MovedTo
<1>2. ASSUME NEW net \in Nat, Completes(p, net)
      PROVE  LedgerInv'
  <2>1. MovedTo(p, "Completed", net, payment[p].refunded)
    BY <1>2, CompletesMoves
  <2>2. PayOut(p, payment[p].amount) /\ payment[p].amount \in Nat
    BY <1>2, <2>1 DEF Completes, MovedTo
  <2>3. QED
    BY <1>1, <2>1, <2>2, MovedBalances DEF LedgerInv, NothingAhead
<1>3. ASSUME NEW st \in {"Refunded", "Expired"}, GivesBack(p, st)
      PROVE  LedgerInv'
  <2>1. MovedTo(p, st, payment[p].amount, payment[p].refunded)
    BY <1>3, GivesBackMoves
  <2>2. PayOut(p, payment[p].amount) /\ payment[p].amount \in Nat
    BY <1>3, <2>1 DEF GivesBack, MovedTo
  <2>3. QED
    BY <1>1, <2>1, <2>2, MovedBalances DEF LedgerInv, NothingAhead
<1>4. ASSUME NEW x \in Nat, Refunds(p, x)
      PROVE  LedgerInv'
  <2>1. MovedTo(p, AfterRefund(p, x), payment[p].amount, payment[p].refunded + x)
    BY <1>4, RefundsMoves
  <2>2. PayOut(p, x)
    BY <1>4 DEF Refunds
  <2>3. QED
    BY <1>1, <2>1, <2>2, MovedBalances DEF LedgerInv, NothingAhead
<1>5. ASSUME NEW st \in {"Disputed", "Completed"}, Decides(p, st)
      PROVE  LedgerInv'
  <2>1. MovedTo(p, st, payment[p].amount, payment[p].refunded)
    BY <1>5, DecidesMoves
  <2>2. balance' = balance /\ paid' = paid
    BY <1>5 DEF Decides
  <2>3. QED
    BY <1>1, <2>1, <2>2, UnmovedBalances DEF LedgerInv, NothingAhead
<1>6. QED
  BY <1>2, <1>3, <1>4, <1>5 DEF MovesPayment

(* Payments are made: what comes in is on their accounts.                   *)
LEMMA MakingKeepsBooks ==
    ASSUME Typed, AccountInv, LedgerInv, NEW c \in Customers, NEW n \in {1, 2}, Makes(c, n)
    PROVE  LedgerInv'
<1>1. nextId \in Nat /\ nextId' = nextId + n /\ paid' = paid /\ Credited
  BY PaymentConstants DEF Typed, PaymentsTyped, Makes
<1>2. /\ \A q \in Ids \ MadeNow : payment'[q] = payment[q] /\ taken'[q] = taken[q]
      /\ MadeNow \subseteq Ids
      /\ \A q \in MadeNow : q >= nextId
  BY <1>1 DEF Makes, MadeNow, Ids
<1>3. \A q \in MadeNow : paid[q] = 0 /\ taken[q].amount = 0
  BY <1>2 DEF AccountInv, AccountAgrees, LedgerInv, NothingAhead
<1>4. NothingAhead'
  BY <1>1 DEF Makes, LedgerInv, NothingAhead, Ids
<1>5. ASSUME NEW t \in Token
      PROVE  balance'[t] = SumFunctionOnSet(TakenIn(t)', Ids)
                             - SumFunctionOnSet(PaidIn(t)', Ids)
  <2> DEFINE f == TakenIn(t)
             g == TakenIn(t)'
             S == SumFunctionOnSet(f, Ids)
  <2>1. SumFunctionOnSet(PaidIn(t)', Ids) = SumFunctionOnSet(PaidIn(t), Ids)
    <3>1. \A q \in Ids : PaidIn(t)[q] = PaidIn(t)'[q]
      <4>1. ASSUME NEW q \in Ids, q \in MadeNow
            PROVE  PaidIn(t)[q] = PaidIn(t)'[q]
        BY <1>1, <1>3, <4>1 DEF PaidIn
      <4>2. ASSUME NEW q \in Ids, q \notin MadeNow
            PROVE  PaidIn(t)[q] = PaidIn(t)'[q]
        BY <1>1, <1>2, <4>2 DEF PaidIn
      <4>3. QED
        BY <4>1, <4>2
    <3>2. QED
      BY <3>1, IdsFinite, SumEqual
  <2>2. \A q \in Ids \ MadeNow : g[q] = f[q]
    BY <1>2 DEF TakenIn
  <2>3. \A q \in MadeNow : f[q] = 0
    BY <1>2, <1>3 DEF TakenIn
  <2>4. \A q \in Ids : f[q] \in Int /\ g[q] \in Int
    <3>1. taken' \in [Ids -> TakenType]
      BY DEF Makes
    <3>2. \A q \in Ids : g[q] \in Int
      BY <3>1 DEF TakenIn, TakenType
    <3>3. QED
      BY <3>2, BooksTyped
  <2>5. balance'[t] = balance[t] + SumFunctionOnSet(g, MadeNow)
    BY <1>1 DEF Credited
  <2>6. balance[t] = SumFunctionOnSet(f, Ids) - SumFunctionOnSet(PaidIn(t), Ids)
    BY DEF LedgerInv, BooksBalance
  <2>7. SumFunctionOnSet(PaidIn(t), Ids) \in Int
    BY BooksTyped
  <2> HIDE DEF f, g
  <2>8. /\ SumFunctionOnSet(g, Ids) - SumFunctionOnSet(f, Ids)
             = SumFunctionOnSet(g, MadeNow) - SumFunctionOnSet(f, MadeNow)
        /\ SumFunctionOnSet(f, Ids) \in Int /\ SumFunctionOnSet(g, Ids) \in Int
        /\ SumFunctionOnSet(g, MadeNow) \in Int
    BY <1>2, <2>2, <2>4, IdsFinite, SumDiffer
  <2>9. SumFunctionOnSet(f, MadeNow) = 0
    BY <1>2, <2>3, IdsFinite, SumZero
  <2>10. QED
    BY <2>1, <2>5, <2>6, <2>7, <2>8, <2>9 DEF g
<1>6. QED
  BY <1>4, <1>5 DEF LedgerInv, BooksBalance

(* Payments are settled together: each is on the merchant's bill as often   *)
(* as the list names it.                                                    *)
LEMMA BatchTotal ==
    ASSUME Typed, NEW m \in Merchants, NEW batch \in Selection, Settles(m, batch)
    PROVE  \E t \in Token, total \in Int :
              /\ balance' = [balance EXCEPT ![t] = @ - total]
              /\ \A p \in Named(batch) : payment[p].token = t
              /\ total = SumFunctionOnSet([p \in Named(batch) |->
                                              payment[p].amount * Times(batch, p)],
                                          Named(batch))
<1> DEFINE t == payment[batch[1]].token
           D == DOMAIN batch
           h == [i \in D |-> payment[batch[i]].amount]
           total == SumFunctionOnSet(h, D)
           T == Named(batch)
           f == [p \in T |-> payment[p].amount]
           owed == [p \in T |-> f[p] * Cardinality({i \in D : batch[i] = p})]
<1>1. /\ batch \in Seq(Ids) /\ batch # <<>>
      /\ \A i \in D : payment[batch[i]].token = t
      /\ balance' = [balance EXCEPT ![t] = @ - total]
  BY DEF Settles, SettleMerchantPayments
<1>2. T \subseteq Ids
  BY SettlementEffect
<1>3. D = 1 .. Len(batch) /\ Len(batch) \in Nat /\ IsFiniteSet(D)
  <2>1. DOMAIN batch = 1 .. Len(batch) /\ Len(batch) \in Nat
    BY <1>1, LenProperties
  <2>2. IsFiniteSet(1 .. Len(batch))
    BY <2>1, FS_Interval
  <2>3. QED
    BY <2>1, <2>2
<1>4. \A i \in D : batch[i] \in T
  BY DEF Named
<1>5. 1 \in D
  BY <1>1, <1>3, EmptySeq
<1>6. \A p \in Ids : payment[p].amount \in Nat /\ payment[p].token \in Token
  BY DEF Typed, PaymentsTyped, PaymentType
<1>7. t \in Token /\ \A p \in T : payment[p].token = t
  BY <1>1, <1>2, <1>4, <1>5, <1>6 DEF Named
<1>8. IsFiniteSet(T)
  BY <1>2, IdsFinite
<1>9. \A p \in T : f[p] \in Int
  BY <1>2, <1>6
<1>10. \A i \in D : h[i] = f[batch[i]] /\ h[i] \in Int
  BY <1>4, <1>9
<1>11. owed = [p \in T |-> payment[p].amount * Times(batch, p)]
  BY DEF Times
<1> HIDE DEF f, h, D, T
<1>12. total = SumFunctionOnSet(owed, T)
  <2>1. \A i \in D : h[i] = f[batch[i]]
    BY <1>10
  <2>2. IsFiniteSet(D)
    BY <1>3
  <2> HIDE DEF total, owed
  <2>3. SumFunctionOnSet(h, D)
          = SumFunctionOnSet([p \in T |-> f[p] * Cardinality({i \in D : batch[i] = p})], T)
    BY <1>4, <1>8, <1>9, <2>1, <2>2, SumByValue
  <2>4. QED
    BY <2>3 DEF total, owed
<1>13. total \in Int
  BY <1>3, <1>10, SumInt
<1> HIDE DEF total, owed, t
<1>14. QED
  BY <1>1, <1>7, <1>11, <1>12, <1>13 DEF T

LEMMA SettlingKeepsBooks ==
    ASSUME Typed, LedgerInv, NEW m \in Merchants, NEW batch \in Selection, Settles(m, batch)
    PROVE  LedgerInv'
<1> DEFINE T == Named(batch)
           owed == [p \in T |-> payment[p].amount * Times(batch, p)]
<1>1. /\ T \subseteq Ids
      /\ \A p \in T : Times(batch, p) \in Nat
      /\ paid' = [p \in Ids |-> IF p \in T THEN paid[p] + payment[p].amount * Times(batch, p)
                                ELSE paid[p]]
      /\ UNCHANGED <<payment, nextId, taken>>
  BY SettlementEffect DEF entryVars
<1>2. PICK t0 \in Token, total \in Int :
          /\ balance' = [balance EXCEPT ![t0] = @ - total]
          /\ \A p \in T : payment[p].token = t0
          /\ total = SumFunctionOnSet(owed, T)
  BY BatchTotal
<1>3. \A p \in T : owed[p] \in Int
  <2>1. \A p \in T : payment[p].amount \in Int
    BY <1>1 DEF Typed, PaymentsTyped, PaymentType
  <2>2. QED
    BY <1>1, <2>1
<1>4. \A p \in Ids : /\ p \in T => paid'[p] = paid[p] + owed[p]
                     /\ p \notin T => paid'[p] = paid[p]
  BY <1>1
<1>5. \A p \in Ids : paid[p] \in Int
  BY DEF Typed, MoneyTyped
<1> HIDE DEF T, owed
<1>6. ASSUME NEW t \in Token
      PROVE  balance'[t] = SumFunctionOnSet(TakenIn(t)', Ids)
                             - SumFunctionOnSet(PaidIn(t)', Ids)
  <2> DEFINE f == PaidIn(t)
             g == PaidIn(t)'
  <2>1. TakenIn(t)' = TakenIn(t)
    BY <1>1 DEF TakenIn
  <2>2. balance[t] = SumFunctionOnSet(TakenIn(t), Ids) - SumFunctionOnSet(f, Ids)
    BY DEF LedgerInv, BooksBalance
  <2>3. /\ \A p \in Ids : f[p] \in Int
        /\ SumFunctionOnSet(TakenIn(t), Ids) \in Int /\ SumFunctionOnSet(f, Ids) \in Int
    BY BooksTyped
  <2>4. balance \in [Token -> Nat]
    BY DEF Typed, MoneyTyped
  <2>5. CASE t # t0
    <3>1. \A p \in Ids : f[p] = g[p]
      BY <1>1, <1>2, <1>4, <2>5 DEF PaidIn
    <3>2. balance'[t] = balance[t]
      BY <1>2, <2>4, <2>5
    <3> HIDE DEF f, g
    <3>3. SumFunctionOnSet(f, Ids) = SumFunctionOnSet(g, Ids)
      BY <3>1, IdsFinite, SumEqual
    <3>4. QED
      BY <2>1, <2>2, <3>2, <3>3 DEF g
  <2>6. CASE t = t0
    <3>1. /\ \A p \in T : g[p] = f[p] + owed[p]
          /\ \A p \in Ids \ T : g[p] = f[p]
      BY <1>1, <1>2, <1>4, <2>6 DEF PaidIn
    <3>2. balance'[t] = balance[t] - total /\ balance[t] \in Int
      BY <1>2, <2>4, <2>6
    <3> HIDE DEF f, g
    <3>3. \A p \in Ids : f[p] \in Int /\ g[p] \in Int
      BY <1>3, <2>3, <3>1
    <3>4. IsFiniteSet(T)
      BY <1>1, IdsFinite
    <3>5. SumFunctionOnSet(g, T) = SumFunctionOnSet(f, T) + SumFunctionOnSet(owed, T)
      <4>1. \A p \in T : f[p] \in Int /\ owed[p] \in Int /\ g[p] = f[p] + owed[p]
        BY <1>1, <1>3, <3>1, <3>3
      <4>2. QED
        BY <3>4, <4>1, SumPlus
    <3>6. /\ SumFunctionOnSet(g, Ids) - SumFunctionOnSet(f, Ids)
               = SumFunctionOnSet(g, T) - SumFunctionOnSet(f, T)
          /\ SumFunctionOnSet(g, Ids) \in Int
          /\ SumFunctionOnSet(f, T) \in Int
      BY <1>1, <3>1, <3>3, IdsFinite, SumDiffer
    <3>7. QED
      BY <1>2, <2>1, <2>2, <2>3, <3>2, <3>5, <3>6 DEF g
  <2>7. QED
    BY <2>5, <2>6
<1>7. NothingAhead'
  BY <1>1 DEF LedgerInv, NothingAhead
<1>8. QED
  BY <1>6, <1>7 DEF LedgerInv, BooksBalance

LEMMA StepKeepsBooks ==
    ASSUME Typed, AccountInv, LedgerInv, [Next]_vars
    PROVE  LedgerInv'
<1>1. ASSUME Rest
      PROVE  LedgerInv'
  <2>1. UNCHANGED <<payment, balance, taken, paid, nextId>>
    BY <1>1 DEF Rest, recordVars
  <2>2. QED
    BY <2>1, UnmovedBalances DEF LedgerInv, NothingAhead
<1>2. QED
  BY <1>1, StepIsOneOf, MakingKeepsBooks, MoveKeepsBooks, SettlingKeepsBooks

LEMMA InitBooks == Init => Typed /\ AccountInv /\ LedgerInv
<1>1. SUFFICES ASSUME Init
               PROVE  AccountInv /\ LedgerInv
  BY InitTyped
<1>2. /\ payment = [p \in Ids |-> NoPayment] /\ paid = [p \in Ids |-> 0]
      /\ balance = [t \in Token |-> 0]
      /\ \A p \in Ids : taken[p].amount = 0
  BY <1>1 DEF Init, InitLedger
<1>3. NoPayment.status = "None" /\ NoPayment.refunded = 0
  BY DEF NoPayment
<1> HIDE DEF NoPayment
<1>4. AccountInv
  BY <1>2, <1>3 DEF AccountInv, AccountAgrees, Waiting, Left, PaidOut, Has, Open
<1>5. ASSUME NEW t \in Token
      PROVE  balance[t] = SumFunctionOnSet(TakenIn(t), Ids) - SumFunctionOnSet(PaidIn(t), Ids)
  <2>1. \A p \in Ids : TakenIn(t)[p] = 0 /\ PaidIn(t)[p] = 0
    BY <1>2 DEF TakenIn, PaidIn
  <2>2. /\ SumFunctionOnSet(TakenIn(t), Ids) = 0
        /\ SumFunctionOnSet(PaidIn(t), Ids) = 0
    BY <2>1, IdsFinite, SumZero
  <2>3. QED
    BY <1>2, <2>2
<1>6. QED
  BY <1>2, <1>4, <1>5 DEF LedgerInv, BooksBalance, NothingAhead

(* The contract's balance of each token is what was taken in for the        *)
(* payments in it less what left on the account of those recorded in it,    *)
(* whatever the calls and the repetitions in a settlement's list: nothing   *)
(* leaves but on a payment's account.  A payment taken in another token     *)
(* than it is recorded in is on both sides, which the code lets happen.     *)
THEOREM PaymentBooksBalance == Spec => []BooksBalance
<1>1. Init => Typed /\ AccountInv /\ LedgerInv
  BY InitBooks
<1>2. Typed /\ AccountInv /\ LedgerInv /\ [Next]_vars => (Typed /\ AccountInv /\ LedgerInv)'
  BY StepTyped, StepKeepsAccounts, StepKeepsBooks
<1>3. LedgerInv => BooksBalance
  BY DEF LedgerInv
<1>4. QED
  BY <1>1, <1>2, <1>3, PTL DEF Spec

(* The token is only in payments PaysWhatItTook speaks of, none of them     *)
(* refunded in part.                                                        *)
OnlyPlain(t) == \A p \in Ids : t \in {taken[p].token, payment[p].token} => Plain(p)

Unpaid(t) == {p \in Ids : payment[p].token = t /\ ~PaidOut(p)}
Takings == [p \in Ids |-> taken[p].amount]

PlainIsFunded ==
    \A t \in Token : OnlyPlain(t) =>
        /\ balance[t] = SumFunctionOnSet(Takings, Unpaid(t))
        /\ \A p \in Unpaid(t) : payment[p].status # "None" => payment[p].amount <= balance[t]

LEMMA BooksFundPlain ==
    ASSUME Typed, AccountInv, LedgerInv
    PROVE  PlainIsFunded
<1>1. SUFFICES ASSUME NEW t \in Token, OnlyPlain(t)
               PROVE  /\ balance[t] = SumFunctionOnSet(Takings, Unpaid(t))
                      /\ \A p \in Unpaid(t) :
                            payment[p].status # "None" => payment[p].amount <= balance[t]
  BY DEF PlainIsFunded
<1> DEFINE f == TakenIn(t)
           g == PaidIn(t)
           h == [p \in Ids |-> IF p \in Unpaid(t) THEN taken[p].amount ELSE 0]
           U == Unpaid(t)
<1>2. /\ balance[t] = SumFunctionOnSet(f, Ids) - SumFunctionOnSet(g, Ids)
      /\ SumFunctionOnSet(g, Ids) \in Int
  BY BooksTyped DEF LedgerInv, BooksBalance
<1>3. \A p \in Ids : taken[p].amount \in Nat /\ g[p] \in Int
  BY BooksTyped DEF Typed, EntryTyped, TakenType
<1>4. \A p \in Ids : g[p] \in Int /\ h[p] \in Int /\ f[p] = g[p] + h[p]
  <2>1. SUFFICES ASSUME NEW p \in Ids
                 PROVE  g[p] \in Int /\ h[p] \in Int /\ f[p] = g[p] + h[p]
    OBVIOUS
  <2>2. g[p] \in Int /\ h[p] \in Int /\ taken[p].amount \in Int
    BY <1>3
  <2>3. CASE t \in {taken[p].token, payment[p].token}
    <3>1. /\ taken[p].token = t /\ payment[p].token = t
          /\ paid[p] = IF PaidOut(p) THEN taken[p].amount ELSE 0
      BY <1>1, <2>3 DEF OnlyPlain, Plain, Traced, AccountInv, AccountAgrees
    <3>2. f[p] = taken[p].amount /\ g[p] = paid[p]
      BY <3>1 DEF TakenIn, PaidIn
    <3>3. h[p] = IF PaidOut(p) THEN 0 ELSE taken[p].amount
      BY <3>1 DEF Unpaid
    <3>4. QED
      BY <2>2, <3>1, <3>2, <3>3
  <2>4. CASE t \notin {taken[p].token, payment[p].token}
    BY <2>2, <2>4 DEF TakenIn, PaidIn, Unpaid
  <2>5. QED
    BY <2>3, <2>4
<1>5. /\ U \subseteq Ids
      /\ \A p \in U : h[p] = Takings[p] /\ Takings[p] \in Int
      /\ \A p \in Ids \ U : h[p] = 0
      /\ \A p \in U : Takings[p] = taken[p].amount /\ Takings[p] \in Nat
  BY <1>3 DEF Unpaid, Takings
<1>6. IsFiniteSet(Ids) /\ IsFiniteSet(U)
  BY <1>5, IdsFinite
<1> HIDE DEF f, g, h, U
<1>7. SumFunctionOnSet(f, Ids) = SumFunctionOnSet(g, Ids) + SumFunctionOnSet(h, Ids)
  BY <1>4, <1>6, SumPlus
<1>8. SumFunctionOnSet(h, Ids) = SumFunctionOnSet(Takings, U)
  BY <1>5, <1>6, SumPart
<1>9. SumFunctionOnSet(h, Ids) \in Int
  BY <1>4, <1>6, SumInt
<1>10. balance[t] = SumFunctionOnSet(Takings, U)
  BY <1>2, <1>7, <1>8, <1>9
<1>11. ASSUME NEW p \in U, payment[p].status # "None"
       PROVE  payment[p].amount <= balance[t]
  <2>1. p \in Ids /\ payment[p].token = t /\ ~PaidOut(p)
    BY <1>11 DEF U, Unpaid
  <2>2. payment[p].status \in Open \cup Closed
    BY <1>11, <2>1 DEF Typed, PaymentsTyped, PaymentType
  <2>3. Waiting(p)
    BY <2>1, <2>2 DEF PaidOut, Waiting, Has, Closed
  <2>4. taken[p].amount = payment[p].amount
    BY <1>1, <2>1, <2>3 DEF OnlyPlain, Plain, Traced, AccountInv, AccountAgrees
  <2>5. Takings[p] <= SumFunctionOnSet(Takings, U)
    BY <1>5, <1>6, <1>11, TermInSum
  <2>6. QED
    BY <1>5, <1>10, <1>11, <2>4, <2>5
<1>12. QED
  BY <1>10, <1>11 DEF U

(* A token in which no payment was refunded in part, named twice in a       *)
(* settlement or taken in as another is held in full for the payments that  *)
(* have not been paid out, no more and no less: each can be completed,      *)
(* expired, cancelled, decided or settled without waiting for other money.  *)
THEOREM PlainPaymentsAreFunded == Spec => []PlainIsFunded
<1>1. Init => Typed /\ AccountInv /\ LedgerInv
  BY InitBooks
<1>2. Typed /\ AccountInv /\ LedgerInv /\ [Next]_vars => (Typed /\ AccountInv /\ LedgerInv)'
  BY StepTyped, StepKeepsAccounts, StepKeepsBooks
<1>3. Typed /\ AccountInv /\ LedgerInv => PlainIsFunded
  BY BooksFundPlain
<1>4. QED
  BY <1>1, <1>2, <1>3, PTL DEF Spec

-----------------------------------------------------------------------------
(* The schedule that was missed *)

(* A scheduled payment whose time to run is over: executing it comes after  *)
(* its expiry, cancelling it after its schedule, and expiring it asks for a *)
(* payment that is not scheduled.                                           *)
Stranded(p) ==
    /\ Has(p, "ScheduledPending")
    /\ now >= payment[p].executeAfter
    /\ now >= payment[p].expiresAt

StaysPut(p) == payment'[p] = payment[p] /\ paid'[p] = paid[p]

LEMMA OneOtherMoves ==
    ASSUME PaymentInv, NEW p \in Ids, NEW q \in Ids \ {p}, NEW r, NEW x,
           payment' = [payment EXCEPT ![q] = r],
           PayOut(q, x) \/ paid' = paid
    PROVE  StaysPut(p)
<1>1. Maps
  BY DEF PaymentInv
<1>2. payment'[p] = payment[p]
  BY <1>1, OneRecordChanges
<1>3. paid'[p] = paid[p]
  BY <1>1, PayOutChanges
<1>4. QED
  BY <1>2, <1>3 DEF StaysPut

(* No call on a payment is open to one that is stranded.                    *)
LEMMA StrandedIsOutOfReach ==
    ASSUME PaymentInv, NEW p \in Ids, Stranded(p), now \in Int, payment[p].executeAfter \in Int,
           payment[p].expiresAt \in Int, PaymentStep
    PROVE  StaysPut(p)
<1>1. payment[p].status = "ScheduledPending"
  BY DEF Stranded, Has
<1>2. ASSUME NEW q \in Ids, CompletePayment(q) \/ ExecuteScheduledPayment(q)
      PROVE  StaysPut(p)
  <2>1. CompleteInternal(q)
    BY <1>2 DEF CompletePayment, ExecuteScheduledPayment
  <2>2. q # p
    BY <2>1 DEF CompleteInternal, Stranded
  <2>3. PICK x, r : PayOut(q, x) /\ payment' = [payment EXCEPT ![q] = r]
    BY <2>1 DEF CompleteInternal
  <2>4. QED
    BY <2>2, <2>3, OneOtherMoves
<1>3. ASSUME NEW m \in Merchants, NEW batch \in Selection, SettleMerchantPayments(m, batch)
      PROVE  StaysPut(p)
  <2>1. payment' = payment
    BY <1>3 DEF SettleMerchantPayments
  <2>2. p \notin Named(batch)
    BY <1>1, <1>3 DEF SettleMerchantPayments, Named, Has
  <2>3. paid' = [q \in Ids |-> IF q \in Named(batch)
                               THEN paid[q] + payment[q].amount * Times(batch, q)
                               ELSE paid[q]]
    BY <1>3 DEF SettleMerchantPayments, Named, Times
  <2>4. QED
    BY <2>1, <2>2, <2>3 DEF StaysPut
<1>4. ASSUME NEW q \in Ids, NEW st, GiveBack(q, st), q # p
      PROVE  StaysPut(p)
  <2>1. PICK x, r : PayOut(q, x) /\ payment' = [payment EXCEPT ![q] = r]
    BY <1>4 DEF GiveBack, SetStatus
  <2>2. QED
    BY <1>4, <2>1, OneOtherMoves
<1>5. ASSUME NEW c \in Address, NEW q \in Ids, CancelScheduledPayment(c, q)
      PROVE  StaysPut(p)
  <2>1. GiveBack(q, "Refunded") /\ now < payment[q].executeAfter
    BY <1>5 DEF CancelScheduledPayment
  <2>2. q # p
    BY <2>1 DEF Stranded
  <2>3. QED
    BY <1>4, <2>1, <2>2
<1>6. ASSUME NEW q \in Ids, ExpirePayment(q)
      PROVE  StaysPut(p)
  <2>1. GiveBack(q, "Expired") /\ payment[q].status = "Pending"
    BY <1>6 DEF ExpirePayment, Has
  <2>2. QED
    BY <1>1, <1>4, <2>1
<1>7. ASSUME NEW q \in Ids, NEW x \in Portion, PartialRefund(q, x)
      PROVE  StaysPut(p)
  <2>1. PayOut(q, x) /\ payment[q].status \in {"Pending", "Disputed"}
    BY <1>7 DEF PartialRefund
  <2>2. PICK r : payment' = [payment EXCEPT ![q] = r]
    BY <1>7 DEF PartialRefund
  <2>3. QED
    BY <1>1, <2>1, <2>2, OneOtherMoves
<1>8. ASSUME NEW c \in Address, NEW q \in Ids, DisputePayment(c, q)
      PROVE  StaysPut(p)
  <2>1. paid' = paid /\ payment[q].status = "Pending"
    BY <1>8 DEF DisputePayment, Has
  <2>2. PICK r : payment' = [payment EXCEPT ![q] = r]
    BY <1>8 DEF DisputePayment, SetStatus
  <2>3. QED
    BY <1>1, <2>1, <2>2, OneOtherMoves
<1>9. ASSUME NEW q \in Ids, NEW release \in BOOLEAN, ResolveDispute(q, release)
      PROVE  StaysPut(p)
  <2>1. payment[q].status = "Disputed" /\ q # p
    BY <1>1, <1>9 DEF ResolveDispute, Has
  <2>2. CASE release
    <3>1. paid' = paid
      BY <1>9, <2>2 DEF ResolveDispute
    <3>2. PICK r : payment' = [payment EXCEPT ![q] = r]
      BY <1>9, <2>2 DEF ResolveDispute, SetStatus
    <3>3. QED
      BY <2>1, <3>1, <3>2, OneOtherMoves
  <2>3. CASE ~release
    <3>1. GiveBack(q, "Refunded")
      BY <1>9, <2>3 DEF ResolveDispute
    <3>2. QED
      BY <1>4, <2>1, <3>1
  <2>4. QED
    BY <2>2, <2>3
<1>10. QED
  BY <1>2, <1>3, <1>5, <1>6, <1>7, <1>8, <1>9 DEF PaymentStep

LEMMA StrandedStays ==
    ASSUME Typed, PaymentInv, [Next]_vars, NEW p \in Ids, Stranded(p)
    PROVE  StaysPut(p) /\ Stranded(p)'
<1>1. /\ payment[p] \in PaymentType /\ now \in Nat
      /\ payment[p].status = "ScheduledPending"
      /\ payment[p].executeAfter \in Int /\ payment[p].expiresAt \in Int
  BY PaymentConstants DEF Typed, PaymentsTyped, PaymentType, ClockTyped, Stranded, Has
<1>2. p < nextId /\ now' >= now /\ now' \in Nat
  <2>1. p < nextId
    BY <1>1 DEF Typed, PaymentsTyped
  <2>2. now' \in Nat
    BY StepTyped, PaymentConstants DEF Typed, ClockTyped
  <2>3. now' >= now
    <3>1. ASSUME NEW c \in Customers, NEW n \in {1, 2}, Makes(c, n)
          PROVE  now' = now
      BY <3>1 DEF Makes
    <3>2. ASSUME NEW q \in Ids, MovesPayment(q)
          PROVE  now' = now
      BY <3>2 DEF MovesPayment, Completes, GivesBack, Refunds, Decides
    <3>3. ASSUME NEW m \in Merchants, NEW batch \in Selection, Settles(m, batch)
          PROVE  now' = now
      BY <3>3, SettlementEffect
    <3>4. QED
      BY <1>1, <3>1, <3>2, <3>3, StepIsOneOf DEF Rest
  <2>4. QED
    BY <2>1, <2>2, <2>3
<1>3. StaysPut(p)
  <2>1. CASE PaymentStep
    BY <1>1, <2>1, StrandedIsOutOfReach
  <2>2. CASE CreateStep
    <3>1. ASSUME NEW c \in Customers, NEW n \in {1, 2}, Makes(c, n)
          PROVE  StaysPut(p)
      BY <1>2, <3>1 DEF Makes, StaysPut
    <3>2. ASSUME NEW k \in Key, KeyLapses(k)
          PROVE  StaysPut(p)
      BY <3>2 DEF KeyLapses, recordVars, StaysPut
    <3>3. QED
      BY <2>2, <3>1, <3>2, CreateStepMakes
  <2>3. CASE SubscriptionStep \/ ConfigStep \/ AdminStep \/ Tick \/ UNCHANGED vars
    BY <2>3, OtherStepsKeep DEF Keep, StaysPut
  <2>4. QED
    BY <2>1, <2>2, <2>3 DEF Next
<1>4. Stranded(p)'
  BY <1>1, <1>2, <1>3 DEF Stranded, StaysPut, Has
<1>5. QED
  BY <1>3, <1>4

(* A scheduled payment that nobody ran before it expired, nor cancelled     *)
(* before its time came, keeps its status and the customer's money for      *)
(* ever: no call of anybody, the admin's included, moves it.                *)
THEOREM MissedScheduleIsForever ==
    Spec => [][\A p \in Ids : Stranded(p) =>
                  payment'[p] = payment[p] /\ paid'[p] = paid[p] /\ Stranded(p)']_vars
<1> DEFINE IInv == Typed /\ PaymentInv
           Stays == \A p \in Ids : Stranded(p) =>
                        payment'[p] = payment[p] /\ paid'[p] = paid[p] /\ Stranded(p)'
<1>1. Init => IInv
  BY InitTyped, InitPayments
<1>2. IInv /\ [Next]_vars => IInv'
  BY StepTyped, StepMovesPayments, MotionKeepsPayments
<1>3. IInv /\ [Next]_vars => [Stays]_vars
  BY StrandedStays DEF StaysPut
<1>4. QED
  BY <1>1, <1>2, <1>3, PTL DEF Spec
=============================================================================
