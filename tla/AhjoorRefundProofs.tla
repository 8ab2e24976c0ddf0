------------------------- MODULE AhjoorRefundProofs -------------------------
(***************************************************************************)
(* Theorems about AhjoorRefund: its types, the pending queue, the          *)
(* statistics and cumulative amounts, what each refund has been paid, the  *)
(* money behind open refunds, the finality of settled refunds and the      *)
(* pause.                                                                  *)
(*                                                                         *)
(* Every call is reduced to one of five moves: it leaves the records and   *)
(* the money alone (Keep), records a request or a refund by the merchant   *)
(* (those two actions themselves), decides one refund without processing   *)
(* it (Decision), or processes a set of refunds (Processing).  RefundInv   *)
(* is then shown for the moves.                                            *)
(***************************************************************************)
EXTENDS AhjoorRefund, Sums, TLAPS

(* Delegates are finitely many, as they are counted. *)
TypeInv == TypeOK /\ \A m \in Address : IsFiniteSet(delegates[m])

(* Identifiers ahead are unused. *)
Unused ==
    \A r \in Ids : r >= nextId =>
        /\ Has(r, "None") /\ refund[r].amount = 0 /\ ~refund[r].bySilence
        /\ taken[r] = 0 /\ released[r] = 0 /\ r \notin appealed

(* What a refund's status says of its appeal and of its money. *)
Tells(r) ==
    /\ ~Has(r, "Processed") => taken[r] = refund[r].amount
    /\ refund[r].status \in Waiting \cup {"None"} => released[r] = 0
    /\ refund[r].status \in Waiting \cup {"None", "Cancelled"} => r \notin appealed
    /\ Has(r, "UnderAppeal") => r \in appealed
    /\ Has(r, "Rejected") /\ r \notin appealed => released[r] \in {0, taken[r]}
    /\ refund[r].status \in Settled /\ r \notin appealed => released[r] = taken[r]
    /\ refund[r].bySilence => Has(r, "Processed")

StatusTells == \A r \in Ids : Tells(r)

(* The balance of a token covers what was placed in the contract in it and  *)
(* not paid out again; where an appeal had a refund paid twice, the second  *)
(* payment counts against the others.                                       *)
Due(t) == [r \in Ids |-> IF TokenOf(r) = t THEN taken[r] - released[r] ELSE 0]
Covered == \A t \in Token : SumFunctionOnSet(Due(t), Ids) <= balance[t]

RecordsInv == TypeInv /\ Unused /\ StatusTells /\ QueueAgrees
(* The statistics in two parts, as approvals need to know more of a record. *)
Counted == In({"Processed"})
Denied == In({"Rejected", "UnderAppeal"})
Endorsed == {r \in In({"Approved", "Processed"}) : ~refund[r].bySilence}

CountsAgree ==
    /\ stats.requested = nextId
    /\ stats.processed = Cardinality(Counted)
    /\ stats.total = AmountOf(Counted)
    /\ stats.rejected >= Cardinality(Denied)
ApprovalsAgree == stats.approved <= Cardinality(Endorsed)

RefundInv ==
    RecordsInv /\ Covered /\ CountsAgree /\ ApprovalsAgree /\ RefundedAmountAgrees

-----------------------------------------------------------------------------
(* The moves *)

Keep == UNCHANGED <<nextId, refund, pending, stats, refundedAmount, balance, taken,
                    released, appealed>>

(* Records outside S stay, those of S at most change their status, the time *)
(* of their rejection and how they were approved.                           *)
Touches(S) ==
    /\ refund' \in [Ids -> RefundType]
    /\ \A r \in Ids \ S : refund'[r] = refund[r]
    /\ \A r \in S : refund'[r].payment = refund[r].payment
                    /\ refund'[r].amount = refund[r].amount

Unpaid == UNCHANGED <<balance, released>>

CountsOne(n) == stats' = [stats EXCEPT !.rejected = @ + n]
CountsApproval == stats' = [stats EXCEPT !.approved = @ + 1]

(* A request is decided. *)
Decided(r) ==
    /\ Has(r, "Requested")
    /\ pending' = pending \ {r}
    /\ appealed' = appealed
    /\ \/ Has(r, "Approved")' /\ Unpaid /\ CountsApproval
       \/ Has(r, "Cancelled")' /\ GiveBack(r) /\ stats' = stats
       \/ Has(r, "Rejected")' /\ (Unpaid \/ GiveBack(r)) /\ CountsOne(1)

(* A rejection is appealed, or confirmed. *)
Appealed(r) ==
    /\ pending' = pending
    /\ \/ /\ Has(r, "Rejected") /\ Has(r, "UnderAppeal")'
          /\ Unpaid /\ stats' = stats /\ appealed' = appealed \cup {r}
       \/ /\ Has(r, "UnderAppeal") /\ Has(r, "Rejected")'
          /\ GiveBack(r) /\ CountsOne(1) /\ appealed' = appealed

Decision(r) ==
    /\ r \in Ids
    /\ Touches({r})
    /\ refund'[r].bySilence = refund[r].bySilence
    /\ UNCHANGED <<nextId, taken, refundedAmount>>
    /\ Decided(r) \/ Appealed(r)

Processing(S) ==
    /\ S \subseteq Ids
    /\ Touches(S)
    /\ \A r \in S : Has(r, "Processed")'
    /\ PayAll(S)
    /\ CountProcessed(S)
    /\ UNCHANGED <<nextId, taken, pending, appealed>>
    /\ \/ /\ \A r \in S : refund[r].status \in {"Approved", "UnderAppeal"}
          /\ \A r \in S : refund'[r].bySilence = refund[r].bySilence
          /\ RecordRefunded(S)
       \/ /\ \A r \in S : Has(r, "Requested") /\ refund'[r].bySilence = TRUE
          /\ refundedAmount' = refundedAmount

Move == Keep \/ Ask \/ (\E r \in Ids : Decision(r)) \/ \E S \in SUBSET Ids : Processing(S)


(* The part of the type that the moves are about, and the rest. *)
CoreTyped ==
    /\ nextId \in 0 .. MaxRefunds
    /\ refund \in [Ids -> RefundType]
    /\ pending \subseteq Ids
    /\ refundedAmount \in [Payment -> Nat]
    /\ stats \in StatsType
    /\ balance \in [Token -> Nat]
    /\ taken \in [Ids -> Nat] /\ released \in [Ids -> Nat]
    /\ appealed \subseteq Ids

RestTyped ==
    /\ now \in Nat /\ paused \in BOOLEAN
    /\ tiers \in Seq(TierType) /\ ValidTiers(tiers)
    /\ feeBps \in 0 .. MaxFeeBps
    /\ whitelist \subseteq Address
    /\ delegates \in [Address -> SUBSET Address]
    /\ \A m \in Address : Cardinality(delegates[m]) <= MaxDelegates
    /\ \A m \in Address : IsFiniteSet(delegates[m])
    /\ lastRequest \in [Address -> Nat]
    /\ extension \in [Ids -> Nat]
    /\ completed \subseteq Payment

LEMMA TypeParts == TypeInv <=> CoreTyped /\ RestTyped
BY DEF TypeInv, TypeOK, CoreTyped, RestTyped

LEMMA TypePartsNext == CoreTyped' /\ RestTyped' => TypeInv'
BY DEF TypeInv, TypeOK, CoreTyped, RestTyped

-----------------------------------------------------------------------------
(* Amounts *)

LEMMA IdsFinite == ASSUME NEW S \in SUBSET Ids PROVE IsFiniteSet(S)
<1>1. MaxRefunds - 1 \in Int
    BY RefundConstants
<1>2. IsFiniteSet(Ids)
    BY <1>1, FS_Interval DEF Ids
<1>3. QED
    BY <1>2, FS_Subset

LEMMA RecordTyped ==
    ASSUME CoreTyped, NEW r \in Ids
    PROVE  /\ refund[r].payment \in Payment /\ refund[r].amount \in Nat
           /\ refund[r].status \in Status /\ refund[r].bySilence \in BOOLEAN
           /\ refund[r].requestedAt \in Nat /\ refund[r].rejectedAt \in Nat
           /\ refund[r].customer \in Address
           /\ TokenOf(r) \in Token
BY RefundConstants DEF CoreTyped, RefundType, TokenOf, PaymentType

LEMMA AmountTyped ==
    ASSUME CoreTyped, NEW S \in SUBSET Ids
    PROVE  AmountOf(S) \in Nat
<1>1. \A r \in S : [q \in Ids |-> refund[q].amount][r] \in Nat
    BY RecordTyped
<1>2. QED
    BY <1>1, IdsFinite, SumNat DEF AmountOf

LEMMA OutflowTyped ==
    ASSUME CoreTyped, feeBps \in 0 .. MaxFeeBps, NEW r \in Ids
    PROVE  Outflow(r) \in Nat /\ Outflow(r) <= refund[r].amount
<1> DEFINE x == refund[r].amount
           y == FeeOn(x)
<1>1. x \in Nat
    BY RecordTyped
<1>2. feeBps \in Nat /\ feeBps <= 10000
    BY DEF MaxFeeBps
<1>3. y \in Nat /\ y <= x
    BY <1>1, <1>2, ShareOfAmount DEF FeeOn, BasisPoints
<1>4. Outflow(r) = IF HasFeeRecipient THEN x ELSE x - y
    BY DEF Outflow
<1> HIDE DEF x, y
<1>5. Outflow(r) \in Nat /\ Outflow(r) <= x
    BY <1>1, <1>3, <1>4
<1>6. QED
    BY <1>5 DEF x

(* What a call asks for is a positive amount, within the room of the tier.  *)
LEMMA EffectiveTyped ==
    ASSUME CoreTyped, RestTyped, NEW p \in Payment, NEW a \in Amount, Refundable(p, a)
    PROVE  EffectiveAmount(p, a) \in Nat /\ EffectiveAmount(p, a) > 0
<1>1. a \in Int /\ a > 0
    BY RefundConstants DEF Refundable
<1>2. ASSUME tiers # <<>>
      PROVE  TierRoom(p) \in Nat /\ TierRoom(p) > 0
  <2>1. Matching(p) # {} /\ TierRoom(p) > 0
    BY <1>2 DEF Refundable
  <2>2. Matching(p) \subseteq DOMAIN tiers /\ tiers \in Seq(TierType)
    BY DEF Matching, RestTyped
  <2>3. DOMAIN tiers \subseteq Nat
    BY <2>2
  <2> DEFINE i == Min(Matching(p))
  <2>4. i \in DOMAIN tiers
    BY <2>1, <2>2, <2>3, MinIsLeast
  <2> HIDE DEF i
  <2>5. tiers[i].bps \in Nat
    <3>1. tiers[i] \in TierType
      BY <2>2, <2>4
    <3>2. QED
      BY <3>1 DEF TierType
  <2>6. Terms[p].amount \in Nat /\ refundedAmount[p] \in Nat
    BY RefundConstants DEF PaymentType, CoreTyped
  <2>7. (Terms[p].amount * tiers[i].bps) \div 10000 \in Nat
    BY <2>5, <2>6, ShareOfAmount
  <2>8. TierRoom(p) = (Terms[p].amount * tiers[i].bps) \div 10000 - refundedAmount[p]
    BY DEF TierRoom, BasisPoints, i
  <2>9. TierRoom(p) \in Int
    BY <2>6, <2>7, <2>8
  <2>10. QED
    BY <2>1, <2>9
<1>3. QED
    BY <1>1, <1>2 DEF EffectiveAmount

-----------------------------------------------------------------------------
(* Types *)

LEMMA InitTypes == Init => TypeInv
<1>1. SUFFICES ASSUME Init PROVE TypeInv
  OBVIOUS
<1>2. NoRefund \in RefundType
  <2>1. (CHOOSE p \in Payment : TRUE) \in Payment
    BY RefundConstants
  <2>2. QED
    BY <2>1, RefundConstants DEF NoRefund, RefundType, Status
<1>3. CoreTyped
  BY <1>1, <1>2, RefundConstants DEF Init, CoreTyped, StatsType
<1>4. IsFiniteSet({}) /\ Cardinality({}) = 0
  BY FS_EmptySet
<1>5. RestTyped
  <2>1. /\ now \in Nat /\ paused \in BOOLEAN /\ feeBps \in 0 .. MaxFeeBps
        /\ whitelist \subseteq Address /\ completed \subseteq Payment
        /\ lastRequest \in [Address -> Nat] /\ extension \in [Ids -> Nat]
    BY <1>1, RefundConstants DEF Init
  <2>2. tiers \in Seq(TierType) /\ ValidTiers(tiers)
    BY <1>1, RefundConstants DEF Init
  <2>3. /\ delegates \in [Address -> SUBSET Address]
        /\ \A m \in Address : delegates[m] = {}
    BY <1>1 DEF Init
  <2>4. \A m \in Address : IsFiniteSet(delegates[m]) /\ Cardinality(delegates[m]) <= 5
    BY <1>4, <2>3
  <2>5. QED
    BY <2>1, <2>2, <2>3, <2>4 DEF RestTyped, MaxDelegates
<1>6. QED
  BY <1>3, <1>5, TypeParts

(* Calls that decide a refund leave the settings alone. *)
Frame == UNCHANGED <<now, paused, configVars, requestVars, extension, completed>>

LEMMA FrameTypes == ASSUME RestTyped, Frame PROVE RestTyped'
BY DEF RestTyped, Frame, configVars, requestVars, ValidTiers

LEMMA DecideFrames ==
    ASSUME NEW r \in Ids, Decide(r)
    PROVE  Frame \/ \E x \in Extra : ExtendRefundDeadline(r, x)
BY DEF Decide, ApproveRefund, RejectRefund, ProcessRefund, ProcessInternal,
   AutoApproveRefund, AutoCancelExpiredRequest, Cancel, AutoRejectStaleRefund,
   CancelRefundRequest, AppealRefund, AppealOf, ResolveAppeal, Frame

LEMMA AskRestTyped == ASSUME RestTyped, Ask PROVE RestTyped'
<1>1. ASSUME NEW p \in Payment, NEW a \in Amount, NEW c \in Customers,
             RequestRefund(c, p, a)
      PROVE  RestTyped'
  <2>1. c \in Address
    BY RefundConstants
  <2>2. lastRequest' \in [Address -> Nat]
    BY <1>1, <2>1 DEF RequestRefund, RestTyped
  <2>3. UNCHANGED <<now, paused, configVars, extension, completed>>
    BY <1>1 DEF RequestRefund
  <2>4. QED
    BY <2>2, <2>3 DEF RestTyped, configVars, ValidTiers
<1>2. ASSUME NEW p \in Payment, NEW a \in Amount, MerchantRefund(p, a)
      PROVE  RestTyped'
  BY <1>2 DEF RestTyped, MerchantRefund, configVars, ValidTiers
<1>3. QED
  BY <1>1, <1>2 DEF Ask

LEMMA DelegatesTyped ==
    ASSUME RestTyped, NEW m \in Address, NEW d \in Address,
           AddDelegate(m, d) \/ RemoveDelegate(m, d)
    PROVE  RestTyped'
<1>1. CASE AddDelegate(m, d)
  <2> DEFINE more == delegates[m] \cup {d}
  <2>1. IsFiniteSet(delegates[m]) /\ Cardinality(delegates[m]) < 5 /\ d \notin delegates[m]
    BY <1>1 DEF AddDelegate, RestTyped, MaxDelegates
  <2>2. Cardinality(delegates[m]) \in Nat
    BY <2>1, FS_CardinalityType
  <2>3. /\ IsFiniteSet(more) /\ Cardinality(more) <= 5
        /\ more \in SUBSET Address
    <3>1. IsFiniteSet(more) /\ Cardinality(more) = Cardinality(delegates[m]) + 1
      BY <2>1, FS_AddElement
    <3>2. more \in SUBSET Address
      BY DEF RestTyped
    <3> HIDE DEF more
    <3>3. QED
      BY <2>1, <2>2, <3>1, <3>2
  <2>4. delegates' = [delegates EXCEPT ![m] = more]
    BY <1>1 DEF AddDelegate
  <2> HIDE DEF more
  <2>5. /\ delegates' \in [Address -> SUBSET Address]
        /\ \A n \in Address : IsFiniteSet(delegates'[n]) /\ Cardinality(delegates'[n]) <= 5
    BY <2>3, <2>4 DEF RestTyped, MaxDelegates
  <2>6. QED
    BY <1>1, <2>5 DEF AddDelegate, RestTyped, MaxDelegates, requestVars, ValidTiers
<1>2. CASE RemoveDelegate(m, d)
  <2> DEFINE fewer == delegates[m] \ {d}
  <2>1. IsFiniteSet(delegates[m]) /\ Cardinality(delegates[m]) <= 5 /\ d \in delegates[m]
    BY <1>2 DEF RemoveDelegate, RestTyped, MaxDelegates
  <2>2. Cardinality(delegates[m]) \in Nat
    BY <2>1, FS_CardinalityType
  <2>3. /\ IsFiniteSet(fewer) /\ Cardinality(fewer) <= 5
        /\ fewer \in SUBSET Address
    <3>1. IsFiniteSet(fewer) /\ Cardinality(fewer) = Cardinality(delegates[m]) - 1
      BY <2>1, FS_RemoveElement
    <3>2. fewer \in SUBSET Address
      BY DEF RestTyped
    <3> HIDE DEF fewer
    <3>3. QED
      BY <2>1, <2>2, <3>1, <3>2
  <2>4. delegates' = [delegates EXCEPT ![m] = fewer]
    BY <1>2 DEF RemoveDelegate
  <2> HIDE DEF fewer
  <2>5. /\ delegates' \in [Address -> SUBSET Address]
        /\ \A n \in Address : IsFiniteSet(delegates'[n]) /\ Cardinality(delegates'[n]) <= 5
    BY <2>3, <2>4 DEF RestTyped, MaxDelegates
  <2>6. QED
    BY <1>2, <2>5 DEF RemoveDelegate, RestTyped, MaxDelegates, requestVars, ValidTiers
<1>3. QED
  BY <1>1, <1>2

LEMMA ConfigureTyped == ASSUME RestTyped, Configure PROVE RestTyped'
<1>1. ASSUME NEW ts \in TierTable, SetRefundTiers(ts)
      PROVE  RestTyped'
  <2>1. tiers' \in Seq(TierType) /\ ValidTiers(tiers')
    BY <1>1, RefundConstants DEF SetRefundTiers
  <2>2. ValidTiers(tiers)'
    BY <2>1 DEF ValidTiers
  <2>3. QED
    BY <1>1, <2>1, <2>2 DEF SetRefundTiers, RestTyped, requestVars
<1>2. ASSUME NEW f \in FeeRate, UpdateRefundFee(f)
      PROVE  RestTyped'
  BY <1>2, RefundConstants DEF UpdateRefundFee, RestTyped, requestVars, ValidTiers, MaxFeeBps
<1>3. ASSUME NEW p \in Payment, ChangeAutoApprove(Terms[p].merchant)
      PROVE  RestTyped'
  <2>1. Terms[p].merchant \in Address
    BY RefundConstants DEF PaymentType
  <2>2. whitelist' \subseteq Address
    BY <1>3, <2>1 DEF ChangeAutoApprove, RestTyped
  <2>3. QED
    BY <1>3, <2>2 DEF ChangeAutoApprove, RestTyped, requestVars, ValidTiers
<1>4. ASSUME NEW p \in Payment, NEW d \in Deputies,
             AddDelegate(Terms[p].merchant, d) \/ RemoveDelegate(Terms[p].merchant, d)
      PROVE  RestTyped'
  BY <1>4, DelegatesTyped, RefundConstants DEF PaymentType
<1>5. ASSUME NEW c \in Customers, WaiveCooldown(c)
      PROVE  RestTyped'
  BY <1>5, RefundConstants DEF WaiveCooldown, RestTyped, configVars, ValidTiers
<1>6. CASE SetPaused
  BY <1>6 DEF SetPaused, RestTyped, configVars, requestVars, ValidTiers
<1>7. QED
  BY <1>1, <1>2, <1>3, <1>4, <1>5, <1>6 DEF Configure

LEMMA RestStaysTyped == ASSUME RestTyped, [Next]_vars PROVE RestTyped'
<1>1. ASSUME NEW r \in Ids, NEW x \in Extra, ExtendRefundDeadline(r, x)
      PROVE  RestTyped'
  <2>1. extension' \in [Ids -> Nat]
    BY <1>1, RefundConstants DEF ExtendRefundDeadline, RestTyped
  <2>2. QED
    BY <1>1, <2>1 DEF ExtendRefundDeadline, RestTyped, configVars, requestVars, ValidTiers
<1>2. ASSUME NEW S \in SUBSET Ids, BulkProcessRefunds(S)
      PROVE  Frame
  BY <1>2 DEF BulkProcessRefunds, ProcessInternal, Frame
<1>3. ASSUME NEW p \in Payment, PaymentCompletes(p)
      PROVE  RestTyped'
  BY <1>3 DEF PaymentCompletes, RestTyped, configVars, requestVars, ValidTiers
<1>4. CASE Tick
  BY <1>4 DEF Tick, RestTyped, configVars, requestVars, ValidTiers
<1>5. CASE UNCHANGED vars
  BY <1>5 DEF vars, RestTyped, configVars, requestVars, ValidTiers
<1>6. QED
  BY <1>1, <1>2, <1>3, <1>4, <1>5, DecideFrames, FrameTypes, AskRestTyped, ConfigureTyped
  DEF Next

-----------------------------------------------------------------------------
(* Every step is a move *)

LEMMA StatusTouches ==
    ASSUME CoreTyped, NEW r \in Ids, NEW s \in Status, SetStatus(r, s)
    PROVE  /\ Touches({r}) /\ refund'[r].status = s
           /\ refund'[r].bySilence = refund[r].bySilence
BY DEF CoreTyped, SetStatus, Touches, RefundType

LEMMA RejectTouches ==
    ASSUME CoreTyped, now \in Nat, NEW r \in Ids, Reject(r)
    PROVE  /\ Touches({r}) /\ refund'[r].status = "Rejected"
           /\ refund'[r].bySilence = refund[r].bySilence
           /\ CountsOne(1)
<1> DEFINE n == [refund[r] EXCEPT !.status = "Rejected", !.rejectedAt = now]
<1>1. refund \in [Ids -> RefundType] /\ refund' = [refund EXCEPT ![r] = n] /\ CountsOne(1)
  BY DEF CoreTyped, Reject, CountsOne
<1>2. refund[r] \in RefundType /\ "Rejected" \in Status
  BY <1>1 DEF Status
<1>3. n \in RefundType
  BY <1>2 DEF RefundType
<1>4. /\ n.status = "Rejected" /\ n.bySilence = refund[r].bySilence
      /\ n.payment = refund[r].payment /\ n.amount = refund[r].amount
  BY <1>2 DEF RefundType
<1> HIDE DEF n
<1>5. refund'[r] = n /\ \A q \in Ids \ {r} : refund'[q] = refund[q]
  BY <1>1
<1>6. refund' \in [Ids -> RefundType]
  BY <1>1, <1>3
<1>7. QED
  BY <1>1, <1>4, <1>5, <1>6 DEF Touches

LEMMA DecisionMoves ==
    ASSUME CoreTyped, now \in Nat, NEW r \in Ids,
           \/ \E a \in Address : ApproveRefund(a, r) \/ RejectRefund(a, r)
           \/ Cancel(r)
           \/ AutoRejectStaleRefund(r)
           \/ \E c \in Address : AppealRefund(c, r)
           \/ ResolveAppeal(r) /\ RefuseAppeal(r)
    PROVE  Decision(r)
<1>1. ASSUME NEW a \in Address, ApproveRefund(a, r)
      PROVE  Decision(r)
  <2>1. SetStatus(r, "Approved") /\ "Approved" \in Status
    BY <1>1 DEF ApproveRefund, Status, Waiting
  <2>2. Decided(r) /\ UNCHANGED <<nextId, taken, refundedAmount>>
    BY <1>1, <2>1, StatusTouches DEF ApproveRefund, Decided, Dequeue, Unpaid, CountsApproval,
       requestVars, Has
  <2>3. QED
    BY <2>1, <2>2, StatusTouches DEF Decision
<1>2. ASSUME NEW a \in Address, RejectRefund(a, r)
      PROVE  Decision(r)
  <2>1. Reject(r)
    BY <1>2 DEF RejectRefund
  <2>2. Decided(r) /\ UNCHANGED <<nextId, taken, refundedAmount>>
    BY <1>2, <2>1, RejectTouches DEF RejectRefund, Decided, Dequeue, Unpaid, requestVars, Has
  <2>3. QED
    BY <2>1, <2>2, RejectTouches DEF Decision
<1>3. CASE Cancel(r)
  <2>1. SetStatus(r, "Cancelled") /\ "Cancelled" \in Status
    BY <1>3 DEF Cancel, Status, Settled
  <2>2. Decided(r) /\ UNCHANGED <<nextId, taken, refundedAmount>>
    BY <1>3, <2>1, StatusTouches DEF Cancel, Decided, Dequeue, requestVars, Has
  <2>3. QED
    BY <2>1, <2>2, StatusTouches DEF Decision
<1>4. CASE AutoRejectStaleRefund(r)
  <2>1. Reject(r)
    BY <1>4 DEF AutoRejectStaleRefund
  <2>2. Decided(r) /\ UNCHANGED <<nextId, taken, refundedAmount>>
    BY <1>4, <2>1, RejectTouches DEF AutoRejectStaleRefund, Decided, Dequeue, requestVars, Has
  <2>3. QED
    BY <2>1, <2>2, RejectTouches DEF Decision
<1>5. ASSUME NEW c \in Address, AppealRefund(c, r)
      PROVE  Decision(r)
  <2>1. SetStatus(r, "UnderAppeal") /\ "UnderAppeal" \in Status
    BY <1>5 DEF AppealRefund, AppealOf, Status
  <2>2. Appealed(r) /\ UNCHANGED <<nextId, taken, refundedAmount>>
    BY <1>5, <2>1, StatusTouches DEF AppealRefund, AppealOf, Appealed, Unpaid, requestVars, Has
  <2>3. QED
    BY <2>1, <2>2, StatusTouches DEF Decision
<1>6. CASE ResolveAppeal(r) /\ RefuseAppeal(r)
  <2>1. Reject(r)
    BY <1>6 DEF RefuseAppeal
  <2>2. Appealed(r) /\ UNCHANGED <<nextId, taken, refundedAmount>>
    BY <1>6, <2>1, RejectTouches DEF ResolveAppeal, RefuseAppeal, Appealed, requestVars, Has
  <2>3. QED
    BY <2>1, <2>2, RejectTouches DEF Decision
<1>7. QED
  BY <1>1, <1>2, <1>3, <1>4, <1>5, <1>6

LEMMA ProcessInternalMoves ==
    ASSUME CoreTyped, NEW S \in SUBSET Ids, ProcessInternal(S)
    PROVE  Processing(S)
<1> DEFINE new(r) == [refund[r] EXCEPT !.status = "Processed"]
<1>1. refund' = [r \in Ids |-> IF r \in S THEN new(r) ELSE refund[r]]
  BY DEF ProcessInternal
<1>2. \A r \in Ids : /\ new(r) \in RefundType /\ new(r).status = "Processed"
                     /\ new(r).bySilence = refund[r].bySilence
                     /\ new(r).payment = refund[r].payment
                     /\ new(r).amount = refund[r].amount
  BY DEF CoreTyped, RefundType, Status, Settled
<1> HIDE DEF new
<1>3. /\ Touches(S)
      /\ \A r \in S : Has(r, "Processed")' /\ refund'[r].bySilence = refund[r].bySilence
  BY <1>1, <1>2 DEF Touches, CoreTyped, Has
<1>4. \A r \in S : refund[r].status = "Approved"
  BY DEF ProcessInternal, Has
<1>5. /\ PayAll(S) /\ CountProcessed(S) /\ RecordRefunded(S)
      /\ UNCHANGED <<nextId, taken, pending, appealed>>
  BY DEF ProcessInternal, requestVars
<1>6. QED
  BY <1>3, <1>4, <1>5 DEF Processing

LEMMA AutoApproveMoves ==
    ASSUME CoreTyped, NEW r \in Ids, AutoApproveRefund(r)
    PROVE  Processing({r})
<1>1. refund' = [refund EXCEPT ![r].status = "Processed", ![r].bySilence = TRUE]
  BY DEF AutoApproveRefund
<1>2. Touches({r}) /\ refund'[r].status = "Processed" /\ refund'[r].bySilence = TRUE
  <2> DEFINE n == [refund[r] EXCEPT !.status = "Processed", !.bySilence = TRUE]
  <2>1. refund \in [Ids -> RefundType] /\ refund' = [refund EXCEPT ![r] = n]
    BY <1>1 DEF CoreTyped
  <2>2. refund[r] \in RefundType /\ "Processed" \in Status
    BY <2>1 DEF Status, Settled
  <2>3. n \in RefundType
    BY <2>2 DEF RefundType
  <2>4. /\ n.status = "Processed" /\ n.bySilence = TRUE
        /\ n.payment = refund[r].payment /\ n.amount = refund[r].amount
    BY <2>2 DEF RefundType
  <2> HIDE DEF n
  <2>5. refund'[r] = n /\ \A q \in Ids \ {r} : refund'[q] = refund[q]
    BY <2>1
  <2>6. refund' \in [Ids -> RefundType]
    BY <2>1, <2>3
  <2>7. QED
    BY <2>4, <2>5, <2>6 DEF Touches
<1>3. /\ PayAll({r}) /\ CountProcessed({r}) /\ Has(r, "Requested")
      /\ UNCHANGED <<nextId, taken, pending, appealed, refundedAmount>>
  BY DEF AutoApproveRefund, requestVars
<1>4. QED
  BY <1>2, <1>3 DEF Processing, Has

LEMMA GrantMoves ==
    ASSUME CoreTyped, NEW r \in Ids, ResolveAppeal(r), GrantAppeal(r)
    PROVE  Processing({r})
<1>1. SetStatus(r, "Processed") /\ "Processed" \in Status
  BY DEF GrantAppeal, Status, Settled
<1>2. /\ Touches({r}) /\ refund'[r].status = "Processed"
      /\ refund'[r].bySilence = refund[r].bySilence
  BY <1>1, StatusTouches
<1>3. /\ PayAll({r}) /\ CountProcessed({r}) /\ RecordRefunded({r}) /\ Has(r, "UnderAppeal")
      /\ UNCHANGED <<nextId, taken, pending, appealed>>
  BY DEF ResolveAppeal, GrantAppeal, requestVars
<1>4. QED
  BY <1>2, <1>3 DEF Processing, Has

LEMMA SettingsKeep ==
    ASSUME Configure \/ Tick \/ \E p \in Payment : PaymentCompletes(p)
    PROVE  Keep
BY DEF Configure, SetRefundTiers, UpdateRefundFee, ChangeAutoApprove, AddDelegate,
   RemoveDelegate, WaiveCooldown, SetPaused, Tick, PaymentCompletes, Keep, requestVars,
   recordVars

LEMMA StepMoves == ASSUME TypeInv, [Next]_vars PROVE Move
<1>1. CoreTyped /\ RestTyped /\ now \in Nat
  BY TypeParts DEF RestTyped
<1>2. ASSUME NEW r \in Ids, Decide(r)
      PROVE  Move
  <2>1. CASE \E x \in Extra : ExtendRefundDeadline(r, x)
    BY <2>1 DEF ExtendRefundDeadline, Move, Keep, requestVars, recordVars
  <2>2. CASE ProcessRefund(r)
    BY <1>1, <2>2, ProcessInternalMoves DEF ProcessRefund, Move
  <2>3. CASE AutoApproveRefund(r)
    BY <1>1, <2>3, AutoApproveMoves DEF Move
  <2>4. CASE AutoCancelExpiredRequest(r) \/ \E c \in Address : CancelRefundRequest(c, r)
    <3>1. Cancel(r)
      BY <2>4 DEF AutoCancelExpiredRequest, CancelRefundRequest
    <3>2. QED
      BY <1>1, <3>1, DecisionMoves DEF Move
  <2>5. CASE ResolveAppeal(r)
    BY <1>1, <2>5, DecisionMoves, GrantMoves DEF Move, ResolveAppeal
  <2>6. CASE \/ \E a \in Address : ApproveRefund(a, r) \/ RejectRefund(a, r)
             \/ AutoRejectStaleRefund(r)
             \/ \E c \in Address : AppealRefund(c, r)
    BY <1>1, <2>6, DecisionMoves DEF Move
  <2>7. QED
    BY <1>2, <2>1, <2>2, <2>3, <2>4, <2>5, <2>6 DEF Decide
<1>3. ASSUME NEW S \in SUBSET Ids, BulkProcessRefunds(S)
      PROVE  Move
  BY <1>1, <1>3, ProcessInternalMoves DEF BulkProcessRefunds, Move
<1>4. CASE UNCHANGED vars
  BY <1>4 DEF vars, requestVars, recordVars, Keep, Move
<1>5. QED
  BY <1>2, <1>3, <1>4, SettingsKeep DEF Next, Move

-----------------------------------------------------------------------------
(* What the moves do to money and records *)

LEMMA GiveBackPays ==
    ASSUME CoreTyped, NEW r \in Ids, GiveBack(r)
    PROVE  /\ balance' \in [Token -> Nat] /\ released' \in [Ids -> Nat]
           /\ balance' = [balance EXCEPT ![TokenOf(r)] = @ - refund[r].amount]
           /\ released' = [released EXCEPT ![r] = @ + refund[r].amount]
<1>1. /\ refund[r].amount \in Nat /\ TokenOf(r) \in Token
      /\ balance \in [Token -> Nat] /\ released \in [Ids -> Nat]
  BY RecordTyped DEF CoreTyped
<1> DEFINE x == refund[r].amount
           t == TokenOf(r)
<1>2. /\ x <= balance[t] /\ balance' = [balance EXCEPT ![t] = @ - x]
      /\ released' = [released EXCEPT ![r] = @ + x]
  BY DEF GiveBack
<1>3. x \in Nat /\ t \in Token
  BY <1>1
<1> HIDE DEF x, t
<1>4. balance[t] - x \in Nat /\ released[r] + x \in Nat
  BY <1>1, <1>2, <1>3
<1>5. balance' \in [Token -> Nat] /\ released' \in [Ids -> Nat]
  BY <1>1, <1>2, <1>3, <1>4
<1>6. QED
  BY <1>2, <1>5 DEF x, t

(* The outflow of a token when a set of refunds is paid. *)
OutOf(S, t) == SumFunctionOnSet([r \in Ids |-> Outflow(r)], {r \in S : TokenOf(r) = t})

LEMMA PayAllPays ==
    ASSUME CoreTyped, feeBps \in 0 .. MaxFeeBps, NEW S \in SUBSET Ids, PayAll(S)
    PROVE  /\ balance' \in [Token -> Nat] /\ released' \in [Ids -> Nat]
           /\ \A t \in Token : OutOf(S, t) \in Nat /\ balance'[t] = balance[t] - OutOf(S, t)
           /\ \A r \in S : released'[r] = released[r] + refund[r].amount
           /\ \A r \in Ids \ S : released'[r] = released[r]
<1>1. \A t \in Token : OutOf(S, t) \in Nat /\ OutOf(S, t) <= balance[t]
  <2> TAKE t \in Token
  <2> DEFINE out == [r \in Ids |-> Outflow(r)]
             T == {r \in S : TokenOf(r) = t}
  <2>1. \A r \in Ids : out[r] \in Nat
    BY OutflowTyped
  <2>2. IsFiniteSet(T) /\ T \subseteq Ids
    BY IdsFinite
  <2>3. OutOf(S, t) <= balance[t]
    BY DEF PayAll, OutOf
  <2>4. OutOf(S, t) = SumFunctionOnSet(out, T)
    BY DEF OutOf
  <2> HIDE DEF out, T
  <2>5. SumFunctionOnSet(out, T) \in Nat
    BY <2>1, <2>2, SumNat
  <2>6. QED
    BY <2>3, <2>4, <2>5
<1>2. balance' = [t \in Token |-> balance[t] - OutOf(S, t)]
  BY DEF PayAll, OutOf
<1>3. \A t \in Token : balance[t] - OutOf(S, t) \in Nat
  BY <1>1 DEF CoreTyped
<1>4. balance' \in [Token -> Nat] /\ \A t \in Token : balance'[t] = balance[t] - OutOf(S, t)
  BY <1>2, <1>3
<1>5. released' = [r \in Ids |-> IF r \in S THEN released[r] + refund[r].amount
                                 ELSE released[r]]
  BY DEF PayAll
<1>6. \A r \in Ids : released[r] \in Nat /\ released[r] + refund[r].amount \in Nat
  BY RecordTyped DEF CoreTyped
<1>7. released' \in [Ids -> Nat]
  BY <1>5, <1>6
<1>8. QED
  BY <1>1, <1>4, <1>5, <1>7

LEMMA CountProcessedCounts ==
    ASSUME CoreTyped, NEW S \in SUBSET Ids, CountProcessed(S)
    PROVE  /\ stats' \in StatsType
           /\ stats'.requested = stats.requested /\ stats'.rejected = stats.rejected
           /\ stats'.processed = stats.processed + Cardinality(S)
           /\ stats'.total = stats.total + AmountOf(S)
<1> DEFINE n == Cardinality(S)
           x == AmountOf(S)
<1>1. n \in Nat /\ x \in Nat
  BY IdsFinite, FS_CardinalityType, AmountTyped
<1>2. stats' = [stats EXCEPT !.processed = @ + n, !.total = @ + x]
  BY DEF CountProcessed
<1>3. stats \in StatsType
  BY DEF CoreTyped
<1> HIDE DEF n, x
<1>4. /\ stats' \in StatsType
      /\ stats'.requested = stats.requested /\ stats'.rejected = stats.rejected
      /\ stats'.processed = stats.processed + n
      /\ stats'.total = stats.total + x
  <2> DEFINE a == stats.processed + n
             b == stats.total + x
  <2>1. a \in Nat /\ b \in Nat
    BY <1>1, <1>3 DEF StatsType
  <2>2. stats' = [stats EXCEPT !.processed = a, !.total = b]
    BY <1>2
  <2> HIDE DEF a, b
  <2>3. /\ stats' \in StatsType
        /\ stats'.requested = stats.requested /\ stats'.rejected = stats.rejected
        /\ stats'.processed = a /\ stats'.total = b
    BY <1>3, <2>1, <2>2 DEF StatsType
  <2>4. QED
    BY <2>3 DEF a, b
<1>5. QED
  BY <1>4 DEF n, x

LEMMA RecordRefundedTyped ==
    ASSUME CoreTyped, NEW S \in SUBSET Ids, RecordRefunded(S)
    PROVE  refundedAmount' \in [Payment -> Nat]
<1>1. \A p \in Payment : LET T == {r \in S : refund[r].payment = p}
                         IN  AmountOf(T) \in Nat /\ refundedAmount[p] \in Nat
  BY AmountTyped DEF CoreTyped
<1>2. \A p \in Payment :
          refundedAmount[p] + AmountOf({r \in S : refund[r].payment = p}) \in Nat
  BY <1>1
<1>3. QED
  BY <1>2 DEF RecordRefunded

(* A new record under the next identifier. *)
LEMMA RecordAdds ==
    ASSUME CoreTyped, now \in Nat, NEW p \in Payment, NEW c \in Address, NEW x \in Nat,
           NEW s \in Status, Record(p, c, x, s)
    PROVE  /\ nextId \in Ids /\ nextId' = nextId + 1 /\ nextId' \in 0 .. MaxRefunds
           /\ refund' \in [Ids -> RefundType]
           /\ \A r \in Ids \ {nextId} : refund'[r] = refund[r]
           /\ refund'[nextId].status = s /\ ~refund'[nextId].bySilence
           /\ refund'[nextId].amount = x /\ refund'[nextId].payment = p
<1> DEFINE new == [payment |-> p, customer |-> c, amount |-> x, status |-> s,
                   requestedAt |-> now, rejectedAt |-> 0, bySilence |-> FALSE]
<1>1. /\ new \in RefundType /\ new.status = s /\ ~new.bySilence /\ new.amount = x
      /\ new.payment = p
  BY DEF RefundType
<1>2. nextId \in Ids /\ nextId' = nextId + 1 /\ nextId' \in 0 .. MaxRefunds
  BY RefundConstants DEF Record, CoreTyped, Ids
<1>3. refund' = [refund EXCEPT ![nextId] = new]
  BY DEF Record
<1> HIDE DEF new
<1>4. /\ refund' \in [Ids -> RefundType] /\ refund'[nextId] = new
      /\ \A r \in Ids \ {nextId} : refund'[r] = refund[r]
  BY <1>1, <1>2, <1>3 DEF CoreTyped
<1>5. QED
  BY <1>1, <1>2, <1>4

(* Two ways to add a record, as far as the invariants tell them apart. *)
Opened(x) ==
    /\ nextId \in Ids /\ nextId' = nextId + 1
    /\ x \in Nat
    /\ refund' \in [Ids -> RefundType]
    /\ \A r \in Ids \ {nextId} : refund'[r] = refund[r]
    /\ refund'[nextId].amount = x /\ ~refund'[nextId].bySilence
    /\ UNCHANGED <<released, appealed>>

Requests(x, t) ==
    /\ Opened(x) /\ x > 0 /\ t \in Token /\ Terms[refund'[nextId].payment].token = t
    /\ refund'[nextId].status \in Waiting
    /\ pending' = IF refund'[nextId].status = "Requested" THEN pending \cup {nextId}
                  ELSE pending
    /\ balance' = [balance EXCEPT ![t] = @ + x]
    /\ taken' = [taken EXCEPT ![nextId] = x]
    /\ stats' = [stats EXCEPT !.requested = @ + 1]
    /\ refundedAmount' = refundedAmount

Refunds(x, p) ==
    /\ Opened(x) /\ p \in Payment /\ refund'[nextId].payment = p
    /\ refund'[nextId].status = "Processed"
    /\ stats' = [stats EXCEPT !.requested = @ + 1, !.processed = @ + 1, !.total = @ + x]
    /\ refundedAmount' = [refundedAmount EXCEPT ![p] = @ + x]
    /\ UNCHANGED <<pending, balance, taken>>

LEMMA AskOpens ==
    ASSUME TypeInv, Ask
    PROVE  /\ nextId' \in 0 .. MaxRefunds
           /\ \/ \E x \in Nat, t \in Token : Requests(x, t)
              \/ \E x \in Nat, p \in Payment : Refunds(x, p)
<1>1. CoreTyped /\ RestTyped /\ now \in Nat
  BY TypeParts DEF RestTyped
<1>2. ASSUME NEW p \in Payment, NEW a \in Amount, NEW c \in Customers,
             RequestRefund(c, p, a)
      PROVE  nextId' \in 0 .. MaxRefunds /\ \E x \in Nat, t \in Token : Requests(x, t)
  <2> DEFINE approved == Terms[p].merchant \in whitelist
             s == IF approved THEN "Approved" ELSE "Requested"
             x == EffectiveAmount(p, a)
             t == Terms[p].token
  <2>1. /\ Record(p, c, x, s) /\ c \in Address /\ s \in Status
        /\ Refundable(p, a)
        /\ s \in Waiting /\ (s = "Requested" <=> ~approved)
    BY <1>2, RefundConstants DEF RequestRefund, Status, Waiting
  <2>2. x \in Nat /\ x > 0 /\ t \in Token
    BY <1>1, <2>1, EffectiveTyped, RefundConstants DEF PaymentType
  <2>3. /\ pending' = IF approved THEN pending ELSE pending \cup {nextId}
        /\ balance' = [balance EXCEPT ![t] = @ + x]
        /\ taken' = [taken EXCEPT ![nextId] = x]
        /\ stats' = [stats EXCEPT !.requested = @ + 1]
        /\ UNCHANGED <<refundedAmount, released, appealed>>
    BY <1>2 DEF RequestRefund
  <2>4. Terms[p].token = t
    OBVIOUS
  <2> HIDE DEF x, s, t, approved
  <2>5. /\ nextId \in Ids /\ nextId' = nextId + 1 /\ nextId' \in 0 .. MaxRefunds
        /\ refund' \in [Ids -> RefundType]
        /\ \A r \in Ids \ {nextId} : refund'[r] = refund[r]
        /\ refund'[nextId].status = s /\ ~refund'[nextId].bySilence
        /\ refund'[nextId].amount = x /\ refund'[nextId].payment = p
    BY <1>1, <2>1, <2>2, RecordAdds
  <2>6. Opened(x)
    BY <2>2, <2>3, <2>5 DEF Opened
  <2>7. pending' = IF refund'[nextId].status = "Requested" THEN pending \cup {nextId}
                   ELSE pending
    BY <2>1, <2>3, <2>5
  <2>8. Requests(x, t)
    BY <2>1, <2>2, <2>3, <2>4, <2>5, <2>6, <2>7 DEF Requests
  <2>9. QED
    BY <2>2, <2>5, <2>8
<1>3. ASSUME NEW p \in Payment, NEW a \in Amount, MerchantRefund(p, a)
      PROVE  nextId' \in 0 .. MaxRefunds /\ \E x \in Nat, q \in Payment : Refunds(x, q)
  <2>1. Terms[p].customer \in Address /\ "Processed" \in Status
    BY RefundConstants DEF PaymentType, Status, Settled
  <2>2. a \in Nat /\ Record(p, Terms[p].customer, a, "Processed")
    BY <1>3, RefundConstants DEF MerchantRefund
  <2>3. /\ nextId \in Ids /\ nextId' = nextId + 1 /\ nextId' \in 0 .. MaxRefunds
        /\ refund' \in [Ids -> RefundType]
        /\ \A r \in Ids \ {nextId} : refund'[r] = refund[r]
        /\ refund'[nextId].status = "Processed" /\ ~refund'[nextId].bySilence
        /\ refund'[nextId].amount = a /\ refund'[nextId].payment = p
    BY <1>1, <2>1, <2>2, RecordAdds
  <2>4. Refunds(a, p)
    BY <1>3, <2>2, <2>3 DEF MerchantRefund, Opened, Refunds
  <2>5. QED
    BY <2>2, <2>3, <2>4
<1>4. QED
  BY <1>2, <1>3 DEF Ask

-----------------------------------------------------------------------------
(* Types stay *)

LEMMA DecisionTyped == ASSUME CoreTyped, NEW r \in Ids, Decision(r) PROVE CoreTyped'
<1>1. /\ refund' \in [Ids -> RefundType]
      /\ UNCHANGED <<nextId, taken, refundedAmount>>
      /\ pending' \subseteq Ids /\ appealed' \subseteq Ids
  BY DEF Decision, Touches, Decided, Appealed, CoreTyped
<1>2. balance' \in [Token -> Nat] /\ released' \in [Ids -> Nat]
  <2>1. Unpaid \/ GiveBack(r)
    BY DEF Decision, Decided, Appealed
  <2>2. QED
    BY <2>1, GiveBackPays DEF Unpaid, CoreTyped
<1>3. stats' \in StatsType
  <2>1. CountsApproval \/ CountsOne(1) \/ stats' = stats
    BY DEF Decision, Decided, Appealed
  <2>2. QED
    BY <2>1 DEF CountsApproval, CountsOne, CoreTyped, StatsType
<1>4. QED
  BY <1>1, <1>2, <1>3 DEF CoreTyped

LEMMA ProcessingTyped ==
    ASSUME CoreTyped, feeBps \in 0 .. MaxFeeBps, NEW S \in SUBSET Ids, Processing(S)
    PROVE  CoreTyped'
<1>1. refund' \in [Ids -> RefundType] /\ UNCHANGED <<nextId, taken, pending, appealed>>
  BY DEF Processing, Touches
<1>2. /\ balance' \in [Token -> Nat] /\ released' \in [Ids -> Nat]
      /\ stats' \in StatsType
  BY PayAllPays, CountProcessedCounts DEF Processing
<1>3. refundedAmount' \in [Payment -> Nat]
  BY RecordRefundedTyped DEF Processing, CoreTyped
<1>4. QED
  BY <1>1, <1>2, <1>3 DEF CoreTyped

LEMMA AskTyped == ASSUME TypeInv, Ask PROVE CoreTyped'
<1>1. CoreTyped
  BY TypeParts
<1>2. ASSUME NEW x \in Nat, NEW t \in Token, Requests(x, t), nextId' \in 0 .. MaxRefunds
      PROVE  CoreTyped'
  <2>1. /\ balance' \in [Token -> Nat] /\ taken' \in [Ids -> Nat] /\ pending' \subseteq Ids
    BY <1>1, <1>2 DEF Requests, Opened, CoreTyped
  <2>2. stats' \in StatsType
    BY <1>1, <1>2 DEF Requests, CoreTyped, StatsType
  <2>3. QED
    BY <1>1, <1>2, <2>1, <2>2 DEF Requests, Opened, CoreTyped
<1>3. ASSUME NEW x \in Nat, NEW p \in Payment, Refunds(x, p), nextId' \in 0 .. MaxRefunds
      PROVE  CoreTyped'
  <2>1. refundedAmount' \in [Payment -> Nat]
    BY <1>1, <1>3 DEF Refunds, CoreTyped
  <2>2. stats' \in StatsType
    <3> DEFINE a == stats.requested + 1
               b == stats.processed + 1
               c == stats.total + x
    <3>1. stats \in StatsType /\ a \in Nat /\ b \in Nat /\ c \in Nat
      BY <1>1 DEF CoreTyped, StatsType
    <3>2. stats' = [stats EXCEPT !.requested = a, !.processed = b, !.total = c]
      BY <1>3 DEF Refunds
    <3> HIDE DEF a, b, c
    <3>3. QED
      BY <3>1, <3>2 DEF StatsType
  <2>3. QED
    BY <1>1, <1>3, <2>1, <2>2 DEF Refunds, Opened, CoreTyped
<1>4. QED
  BY <1>2, <1>3, AskOpens

LEMMA TypesStay == TypeInv /\ [Next]_vars => TypeInv'
<1>1. SUFFICES ASSUME TypeInv, [Next]_vars PROVE TypeInv'
  OBVIOUS
<1>2. CoreTyped /\ RestTyped /\ feeBps \in 0 .. MaxFeeBps
  BY <1>1, TypeParts DEF RestTyped
<1>3. RestTyped'
  BY <1>1, <1>2, RestStaysTyped
<1>4. Move
  BY <1>1, StepMoves
<1>5. CoreTyped'
  <2>1. CASE Keep
    BY <1>2, <2>1 DEF Keep, CoreTyped
  <2>2. CASE Ask
    BY <1>1, <2>2, AskTyped
  <2>3. CASE \E r \in Ids : Decision(r)
    BY <1>2, <2>3, DecisionTyped
  <2>4. CASE \E S \in SUBSET Ids : Processing(S)
    BY <1>2, <2>4, ProcessingTyped
  <2>5. QED
    BY <1>4, <2>1, <2>2, <2>3, <2>4 DEF Move
<1>6. QED
  BY <1>3, <1>5, TypePartsNext

(* Every record, balance and statistic of the refund contract keeps its     *)
(* type: no balance falls below zero, the fee stays within its cap, the     *)
(* tiers stay in order and no merchant has more delegates than allowed.     *)
THEOREM RefundTypeCorrect == Spec => []TypeOK
<1>1. TypeInv => TypeOK
  BY DEF TypeInv
<1>2. QED
  BY InitTypes, TypesStay, <1>1, PTL DEF Spec

-----------------------------------------------------------------------------
(* Records, queue and payments of each refund *)

LEMMA InitRecords == Init => RecordsInv
<1>1. SUFFICES ASSUME Init PROVE RecordsInv
  OBVIOUS
<1>2. \A r \in Ids : /\ refund[r] = NoRefund /\ taken[r] = 0 /\ released[r] = 0
                     /\ r \notin appealed
  BY <1>1 DEF Init
<1>3. NoRefund.status = "None" /\ NoRefund.amount = 0 /\ NoRefund.bySilence = FALSE
  BY DEF NoRefund
<1>4. pending = {}
  BY <1>1 DEF Init
<1>5. Unused /\ StatusTells /\ QueueAgrees
  BY <1>2, <1>3, <1>4 DEF Unused, StatusTells, Tells, QueueAgrees, Has, Waiting, Settled
<1>6. QED
  BY <1>1, <1>5, InitTypes DEF RecordsInv

(* A refund of which nothing changes is as it was. *)
LEMMA UntouchedTells ==
    ASSUME NEW r \in Ids, Tells(r), refund'[r] = refund[r], taken'[r] = taken[r],
           released'[r] = released[r], r \in appealed' <=> r \in appealed
    PROVE  Tells(r)'
BY DEF Tells, Has

LEMMA DecisionTells ==
    ASSUME CoreTyped, StatusTells, NEW r \in Ids, Decision(r)
    PROVE  StatusTells'
<1>1. ASSUME NEW q \in Ids, q # r
      PROVE  Tells(q)'
  <2>1. refund'[q] = refund[q] /\ taken'[q] = taken[q] /\ (q \in appealed' <=> q \in appealed)
    BY <1>1 DEF Decision, Touches, Decided, Appealed
  <2>2. released'[q] = released[q]
    <3>1. Unpaid \/ GiveBack(r)
      BY DEF Decision, Decided, Appealed
    <3>2. QED
      BY <1>1, <3>1, GiveBackPays DEF Unpaid, CoreTyped
  <2>3. QED
    BY <2>1, <2>2, UntouchedTells DEF StatusTells
<1>2. Tells(r)'
  <2>1. /\ Tells(r) /\ taken'[r] = taken[r] /\ refund'[r].amount = refund[r].amount
        /\ refund'[r].bySilence = refund[r].bySilence
        /\ released[r] \in Nat /\ refund[r].amount \in Nat
    BY RecordTyped DEF StatusTells, Decision, Touches, CoreTyped
  <2>2. GiveBack(r) => released'[r] = released[r] + refund[r].amount
    BY GiveBackPays DEF CoreTyped
  <2>3. Unpaid => released'[r] = released[r]
    BY DEF Unpaid
  <2>4. CASE Decided(r)
    BY <2>1, <2>2, <2>3, <2>4 DEF Decided, Tells, Has, Waiting, Settled
  <2>5. CASE Appealed(r)
    BY <2>1, <2>2, <2>3, <2>5 DEF Appealed, Tells, Has, Waiting, Settled
  <2>6. QED
    BY <2>4, <2>5 DEF Decision
<1>3. QED
  BY <1>1, <1>2 DEF StatusTells

LEMMA ProcessingTells ==
    ASSUME CoreTyped, feeBps \in 0 .. MaxFeeBps, StatusTells, NEW S \in SUBSET Ids,
           Processing(S)
    PROVE  StatusTells'
<1>1. /\ \A r \in S : released'[r] = released[r] + refund[r].amount
      /\ \A r \in Ids \ S : released'[r] = released[r]
  BY PayAllPays DEF Processing
<1>2. UNCHANGED <<taken, appealed>>
  BY DEF Processing
<1>3. ASSUME NEW q \in Ids \ S
      PROVE  Tells(q)'
  BY <1>1, <1>2, <1>3, UntouchedTells DEF StatusTells, Processing, Touches
<1>4. ASSUME NEW r \in S
      PROVE  Tells(r)'
  <2>1. /\ Tells(r) /\ refund'[r].amount = refund[r].amount
        /\ refund'[r].status = "Processed"
        /\ refund[r].status \in {"Requested", "Approved", "UnderAppeal"}
    BY <1>4 DEF StatusTells, Processing, Touches, Has
  <2>2. refund[r].amount \in Nat /\ released[r] \in Nat
    BY RecordTyped DEF CoreTyped
  <2>3. QED
    BY <1>1, <1>2, <2>1, <2>2 DEF Tells, Has, Waiting, Settled
<1>5. QED
  BY <1>3, <1>4 DEF StatusTells

LEMMA AskTells ==
    ASSUME TypeInv, Unused, StatusTells, Ask
    PROVE  StatusTells'
<1>1. CoreTyped
  BY TypeParts
<1>2. ASSUME NEW x, Opened(x), taken'[nextId] = taken[nextId] \/ taken'[nextId] = x,
             \A r \in Ids \ {nextId} : taken'[r] = taken[r],
             \/ refund'[nextId].status \in Waiting /\ taken'[nextId] = x
             \/ refund'[nextId].status = "Processed" /\ taken'[nextId] = taken[nextId]
      PROVE  StatusTells'
  <2>1. ASSUME NEW q \in Ids \ {nextId}
        PROVE  Tells(q)'
    BY <1>2, <2>1, UntouchedTells DEF StatusTells, Opened
  <2>2. nextId \in Ids /\ nextId >= nextId
    BY <1>2 DEF Opened, Ids
  <2>3. taken[nextId] = 0 /\ released[nextId] = 0 /\ nextId \notin appealed
    BY <2>2 DEF Unused
  <2>4. /\ refund'[nextId].amount = x /\ ~refund'[nextId].bySilence
        /\ released'[nextId] = 0 /\ nextId \notin appealed'
    BY <1>2, <2>3 DEF Opened
  <2>5. \/ refund'[nextId].status \in Waiting /\ taken'[nextId] = x
        \/ refund'[nextId].status = "Processed" /\ taken'[nextId] = 0
    BY <1>2, <2>3
  <2>6. PICK n \in Ids : n = nextId
    BY <2>2
  <2>7. Tells(n)'
    BY <2>4, <2>5, <2>6 DEF Tells, Has, Waiting, Settled
  <2>8. QED
    BY <2>1, <2>6, <2>7 DEF StatusTells
<1>3. ASSUME NEW x \in Nat, NEW t \in Token, Requests(x, t)
      PROVE  StatusTells'
  BY <1>1, <1>2, <1>3 DEF Requests, Opened, CoreTyped
<1>4. ASSUME NEW x \in Nat, NEW p \in Payment, Refunds(x, p)
      PROVE  StatusTells'
  BY <1>1, <1>2, <1>4 DEF Refunds
<1>5. QED
  BY <1>3, <1>4, AskOpens

LEMMA UnusedStays == ASSUME TypeInv, Unused, Move PROVE Unused'
<1>1. CoreTyped /\ feeBps \in 0 .. MaxFeeBps
  BY TypeParts DEF RestTyped
<1>2. ASSUME NEW r \in Ids, Decision(r)
      PROVE  Unused'
  <2>1. /\ Has(r, "Requested") \/ Has(r, "Rejected") \/ Has(r, "UnderAppeal")
        /\ Unpaid \/ GiveBack(r)
        /\ appealed' \subseteq appealed \cup {r}
    BY <1>2 DEF Decision, Decided, Appealed
  <2>2. ~(r >= nextId)
    BY <2>1 DEF Unused, Has
  <2>3. \A q \in Ids \ {r} : released'[q] = released[q]
    BY <1>1, <2>1, GiveBackPays DEF Unpaid, CoreTyped
  <2>4. QED
    BY <1>2, <2>1, <2>2, <2>3 DEF Unused, Decision, Touches, Has
<1>3. ASSUME NEW S \in SUBSET Ids, Processing(S)
      PROVE  Unused'
  <2>1. \A r \in S : refund[r].status # "None"
    BY <1>3 DEF Processing, Has
  <2>2. \A r \in S : ~(r >= nextId)
    BY <2>1 DEF Unused, Has
  <2>3. \A q \in Ids \ S : released'[q] = released[q]
    BY <1>1, <1>3, PayAllPays DEF Processing
  <2>4. QED
    BY <1>3, <2>2, <2>3 DEF Unused, Processing, Touches, Has
<1>4. ASSUME NEW x, Opened(x), \A r \in Ids \ {nextId} : taken'[r] = taken[r]
      PROVE  Unused'
  <2>1. \A r \in Ids : r >= nextId' => r >= nextId /\ r # nextId
    BY <1>1, <1>4 DEF Opened, CoreTyped, Ids
  <2>2. QED
    BY <1>4, <2>1 DEF Unused, Opened, Has
<1>5. CASE Ask
  BY <1>1, <1>4, <1>5, AskOpens DEF Requests, Refunds, CoreTyped
<1>6. CASE Keep
  BY <1>6 DEF Keep, Unused, Has
<1>7. QED
  BY <1>2, <1>3, <1>5, <1>6 DEF Move

(* Whoever is decided leaves the queue, unless approved by silence; who was *)
(* not a request any more was not in it.                                    *)
LEMMA QueueStays ==
    ASSUME TypeInv, Unused, StatusTells, QueueAgrees, Move
    PROVE  QueueAgrees'
<1>1. CoreTyped
  BY TypeParts
<1>2. ASSUME NEW r \in Ids, Decision(r)
      PROVE  QueueAgrees'
  <2>1. /\ \A q \in Ids \ {r} : refund'[q] = refund[q]
        /\ refund'[r].bySilence = refund[r].bySilence
        /\ refund'[r].status # "Requested" /\ ~Has(r, "Processed")
        /\ \/ Has(r, "Requested") /\ pending' = pending \ {r}
           \/ ~Has(r, "Requested") /\ pending' = pending
    BY <1>2 DEF Decision, Touches, Decided, Appealed, Has
  <2>2. ~refund[r].bySilence
    BY <2>1 DEF StatusTells, Tells
  <2>3. QED
    BY <2>1, <2>2 DEF QueueAgrees, Has
<1>3. ASSUME NEW S \in SUBSET Ids, Processing(S)
      PROVE  QueueAgrees'
  <2>1. /\ \A q \in Ids \ S : refund'[q] = refund[q]
        /\ \A r \in S : refund'[r].status = "Processed"
        /\ pending' = pending
        /\ \/ \A r \in S : /\ refund[r].status \in {"Approved", "UnderAppeal"}
                           /\ refund'[r].bySilence = refund[r].bySilence
           \/ \A r \in S : Has(r, "Requested") /\ refund'[r].bySilence = TRUE
    BY <1>3 DEF Processing, Touches, Has
  <2>2. QED
    BY <2>1 DEF QueueAgrees, Has
<1>4. ASSUME NEW x, Opened(x),
             \/ /\ refund'[nextId].status = "Requested"
                /\ pending' = pending \cup {nextId}
             \/ refund'[nextId].status # "Requested" /\ pending' = pending
      PROVE  QueueAgrees'
  <2>1. /\ nextId \in Ids /\ nextId >= nextId
        /\ \A r \in Ids \ {nextId} : refund'[r] = refund[r]
        /\ ~refund'[nextId].bySilence
    BY <1>4 DEF Opened, Ids
  <2>2. ~Has(nextId, "Requested") /\ ~refund[nextId].bySilence
    BY <2>1 DEF Unused, Has
  <2>3. nextId \notin pending
    BY <2>2 DEF QueueAgrees
  <2>4. CASE /\ refund'[nextId].status = "Requested"
             /\ pending' = pending \cup {nextId}
    BY <2>1, <2>4 DEF QueueAgrees, Has
  <2>5. CASE refund'[nextId].status # "Requested" /\ pending' = pending
    BY <2>1, <2>2, <2>3, <2>5 DEF QueueAgrees, Has
  <2>6. QED
    BY <1>4, <2>4, <2>5
<1>5. CASE Ask
  BY <1>4, <1>5, AskOpens DEF Requests, Refunds
<1>6. CASE Keep
  BY <1>6 DEF Keep, QueueAgrees, Has
<1>7. QED
  BY <1>2, <1>3, <1>5, <1>6 DEF Move

LEMMA RecordsStay == RecordsInv /\ [Next]_vars => RecordsInv'
<1>1. SUFFICES ASSUME RecordsInv, [Next]_vars PROVE RecordsInv'
  OBVIOUS
<1>2. /\ TypeInv /\ Unused /\ StatusTells /\ QueueAgrees
      /\ CoreTyped /\ feeBps \in 0 .. MaxFeeBps
  BY <1>1, TypeParts DEF RecordsInv, RestTyped
<1>3. Move
  BY <1>1, <1>2, StepMoves
<1>4. StatusTells'
  <2>1. CASE Keep
    BY <1>2, <2>1 DEF Keep, StatusTells, Tells, Has
  <2>2. QED
    BY <1>2, <1>3, <2>1, AskTells, DecisionTells, ProcessingTells DEF Move
<1>5. QED
  BY <1>1, <1>2, <1>3, <1>4, TypesStay, UnusedStays, QueueStays DEF RecordsInv

(* The pending queue is what the records say it is, whatever windows, fees   *)
(* and people there are: every request without a decision is in it, and      *)
(* beside these only refunds auto_approve_refund has processed.              *)
THEOREM QueueFollowsRecords == Spec => []QueueAgrees
<1>1. RecordsInv => QueueAgrees
  BY DEF RecordsInv
<1>2. QED
  BY InitRecords, RecordsStay, <1>1, PTL DEF Spec

(* A refund that was never appealed pays out once and everything: nothing    *)
(* while it waits, all that was placed in the contract once it is processed  *)
(* or cancelled, nothing or everything when it is rejected.                  *)
THEOREM UnappealedPaysOnce == Spec => []PaidOnceUnlessAppealed
<1>1. ASSUME RecordsInv
      PROVE  PaidOnceUnlessAppealed
  <2>1. ASSUME NEW r \in Ids \ appealed
        PROVE  \/ Has(r, "Rejected") /\ released[r] \in {0, taken[r]}
               \/ refund[r].status \in Settled /\ released[r] = taken[r]
               \/ refund[r].status \in Waiting \cup {"None"} /\ released[r] = 0
    <3>1. Tells(r) /\ refund[r].status \in Status
      BY <1>1, RecordTyped, TypeParts DEF RecordsInv, StatusTells
    <3>2. QED
      BY <2>1, <3>1 DEF Tells, Has, Status
  <2>2. QED
    BY <2>1 DEF PaidOnceUnlessAppealed
<1>2. QED
  BY InitRecords, RecordsStay, <1>1, PTL DEF Spec

(* A processed or cancelled refund keeps its record and is paid no more.     *)
THEOREM SettlementStays == Spec => SettledStays
<1> DEFINE Stays == \A r \in Ids : refund[r].status \in Settled =>
                       refund'[r] = refund[r] /\ released'[r] = released[r]
<1>1. ASSUME RecordsInv, [Next]_vars
      PROVE  Stays
  <2>1. TypeInv /\ Unused /\ CoreTyped /\ feeBps \in 0 .. MaxFeeBps
    BY <1>1, TypeParts DEF RecordsInv, RestTyped
  <2>2. Move
    BY <1>1, <2>1, StepMoves
  <2>3. CASE Keep
    BY <2>3 DEF Keep
  <2>4. CASE Ask
    <3>1. PICK x : Opened(x)
      BY <2>1, <2>4, AskOpens DEF Requests, Refunds
    <3>2. nextId \in Ids /\ nextId >= nextId
      BY <3>1 DEF Opened, Ids
    <3>3. refund[nextId].status = "None"
      BY <2>1, <3>2 DEF Unused, Has
    <3>4. QED
      BY <3>1, <3>3 DEF Opened, Settled
  <2>5. ASSUME NEW r \in Ids, Decision(r)
        PROVE  Stays
    <3>1. refund[r].status \notin Settled /\ (Unpaid \/ GiveBack(r))
      BY <2>5 DEF Decision, Decided, Appealed, Has, Settled
    <3>2. QED
      BY <2>1, <2>5, <3>1, GiveBackPays DEF Decision, Touches, Unpaid, CoreTyped
  <2>6. ASSUME NEW S \in SUBSET Ids, Processing(S)
        PROVE  Stays
    <3>1. /\ \A r \in Ids \ S : released'[r] = released[r] /\ refund'[r] = refund[r]
      BY <2>1, <2>6, PayAllPays DEF Processing, Touches
    <3>2. \A r \in S : refund[r].status \notin Settled
      BY <2>6 DEF Processing, Has, Settled
    <3>3. QED
      BY <3>1, <3>2
  <2>7. QED
    BY <2>2, <2>3, <2>4, <2>5, <2>6 DEF Move
<1>2. RecordsInv /\ [Next]_vars => [Stays]_vars
  BY <1>1
<1>3. QED
  BY InitRecords, RecordsStay, <1>2, PTL DEF Spec, SettledStays

-----------------------------------------------------------------------------
(* The money behind open refunds *)

LEMMA DueTyped ==
    ASSUME CoreTyped, NEW t
    PROVE  \A r \in Ids : Due(t)[r] \in Int
BY DEF Due, CoreTyped

LEMMA DecisionCovered ==
    ASSUME CoreTyped, Covered, NEW r \in Ids, Decision(r)
    PROVE  Covered'
<1>1. SUFFICES ASSUME NEW t \in Token
               PROVE  SumFunctionOnSet(Due(t)', Ids) <= balance'[t]
  BY DEF Covered
<1> DEFINE f == Due(t)
           g == Due(t)'
<1>2. /\ \A q \in Ids : TokenOf(q)' = TokenOf(q) /\ taken'[q] = taken[q]
      /\ refund[r].amount \in Nat /\ TokenOf(r) \in Token
      /\ SumFunctionOnSet(f, Ids) <= balance[t]
  BY RecordTyped DEF Decision, Touches, TokenOf, Covered
<1>3. CASE Unpaid
  <2>1. g = f
    BY <1>2, <1>3 DEF Due, Unpaid
  <2> HIDE DEF f, g
  <2>2. QED
    BY <1>2, <1>3, <2>1 DEF Unpaid, g
<1>4. CASE GiveBack(r)
  <2> DEFINE x == IF TokenOf(r) = t THEN refund[r].amount ELSE 0
  <2>1. /\ balance'[t] = balance[t] - x
        /\ released'[r] = released[r] + refund[r].amount
        /\ \A q \in Ids \ {r} : released'[q] = released[q]
    BY <1>2, <1>4, GiveBackPays DEF CoreTyped
  <2>2. \A q \in Ids : taken[q] \in Nat /\ released[q] \in Nat
    BY DEF CoreTyped
  <2>3. g[r] = f[r] - x /\ f[r] \in Int /\ x \in Nat
    BY <1>2, <2>1, <2>2 DEF Due
  <2>4. \A q \in Ids : f[q] \in Int
    BY DueTyped
  <2>5. \A q \in Ids \ {r} : g[q] = f[q]
    BY <1>2, <2>1 DEF Due
  <2>6. IsFiniteSet(Ids) /\ balance[t] \in Nat
    BY IdsFinite DEF CoreTyped
  <2> HIDE DEF f, g, x
  <2>7. g[r] \in Int
    BY <2>3
  <2>8. SumFunctionOnSet(g, Ids) = SumFunctionOnSet(f, Ids) - f[r] + g[r]
    BY <2>4, <2>5, <2>6, <2>7, SumChange
  <2>9. SumFunctionOnSet(f, Ids) \in Int
    BY <2>4, <2>6, SumInt
  <2>10. SumFunctionOnSet(g, Ids) <= balance'[t]
    BY <1>2, <2>1, <2>3, <2>6, <2>7, <2>8, <2>9
  <2>11. QED
    BY <2>10 DEF g
<1>5. QED
  BY <1>3, <1>4 DEF Decision, Decided, Appealed

(* Of what a processed refund was owed its amount is gone, of the balance   *)
(* no more than that.                                                       *)
LEMMA ProcessingCovered ==
    ASSUME CoreTyped, feeBps \in 0 .. MaxFeeBps, Covered, NEW S \in SUBSET Ids, Processing(S)
    PROVE  Covered'
<1>1. SUFFICES ASSUME NEW t \in Token
               PROVE  SumFunctionOnSet(Due(t)', Ids) <= balance'[t]
  BY DEF Covered
<1> DEFINE f == Due(t)
           g == Due(t)'
           T == {r \in S : TokenOf(r) = t}
           out == [r \in Ids |-> Outflow(r)]
           h == [r \in Ids |-> IF r \in T THEN out[r] ELSE 0]
           k == [r \in Ids |-> g[r] + h[r]]
<1>2. /\ balance'[t] = balance[t] - OutOf(S, t) /\ OutOf(S, t) \in Nat
      /\ \A r \in S : released'[r] = released[r] + refund[r].amount
      /\ \A r \in Ids \ S : released'[r] = released[r]
      /\ balance[t] \in Nat
  BY PayAllPays DEF Processing, CoreTyped
<1>3. /\ \A q \in Ids : TokenOf(q)' = TokenOf(q) /\ taken'[q] = taken[q]
      /\ SumFunctionOnSet(f, Ids) <= balance[t]
  BY DEF Processing, Touches, TokenOf, Covered
<1>4. \A q \in Ids : /\ taken[q] \in Nat /\ released[q] \in Nat /\ refund[q].amount \in Nat
                     /\ released'[q] \in Int
  BY <1>2, RecordTyped DEF CoreTyped
<1>5. \A q \in Ids : out[q] \in Nat /\ out[q] <= refund[q].amount
  BY OutflowTyped
<1>6. \A q \in Ids : f[q] \in Int /\ g[q] \in Int
  BY <1>3, <1>4 DEF Due
<1>7. \A q \in T : g[q] = f[q] - refund[q].amount
  BY <1>2, <1>3, <1>4 DEF Due
<1>8. \A q \in Ids \ T : g[q] = f[q]
  BY <1>2, <1>3, <1>4 DEF Due
<1>9. T \subseteq Ids /\ IsFiniteSet(Ids)
  BY IdsFinite
<1>10. OutOf(S, t) = SumFunctionOnSet(out, T)
  BY DEF OutOf
<1> HIDE DEF f, g, T, out
<1>11. \A q \in Ids : h[q] \in Int /\ k[q] = g[q] + h[q] /\ k[q] \in Int
  BY <1>5, <1>6
<1>12. \A q \in Ids : k[q] <= f[q]
  BY <1>4, <1>5, <1>6, <1>7, <1>8, <1>9
<1>13. /\ \A q \in T : h[q] = out[q] /\ out[q] \in Int
       /\ \A q \in Ids \ T : h[q] = 0
  BY <1>5, <1>9
<1> HIDE DEF h, k
<1>14. SumFunctionOnSet(h, Ids) = SumFunctionOnSet(out, T)
  BY <1>9, <1>13, SumPart
<1>15. SumFunctionOnSet(k, Ids) = SumFunctionOnSet(g, Ids) + SumFunctionOnSet(h, Ids)
  BY <1>6, <1>9, <1>11, SumPlus
<1>16. SumFunctionOnSet(k, Ids) <= SumFunctionOnSet(f, Ids)
  BY <1>6, <1>9, <1>11, <1>12, SumAtMost
<1>17. /\ SumFunctionOnSet(g, Ids) \in Int /\ SumFunctionOnSet(f, Ids) \in Int
       /\ SumFunctionOnSet(k, Ids) \in Int
  BY <1>6, <1>9, <1>11, SumInt
<1>18. SumFunctionOnSet(g, Ids) <= balance'[t]
  BY <1>2, <1>3, <1>10, <1>14, <1>15, <1>16, <1>17
<1>19. QED
  BY <1>18 DEF g

LEMMA AskCovered ==
    ASSUME TypeInv, Unused, Covered, Ask
    PROVE  Covered'
<1>1. CoreTyped
  BY TypeParts
<1>2. ASSUME NEW x \in Nat, Opened(x), NEW t \in Token, NEW y \in Nat,
             \A r \in Ids \ {nextId} : taken'[r] = taken[r],
             Terms[refund'[nextId].payment].token = t => taken'[nextId] = y,
             balance'[t] = balance[t] + y,
             Terms[refund'[nextId].payment].token # t => y = 0
      PROVE  SumFunctionOnSet(Due(t)', Ids) <= balance'[t]
  <2> DEFINE f == Due(t)
             g == Due(t)'
  <2>1. PICK n \in Ids : n = nextId
    BY <1>2 DEF Opened
  <2>2. /\ taken[n] = 0 /\ released[n] = 0 /\ released' = released
        /\ \A r \in Ids \ {n} : refund'[r] = refund[r] /\ taken'[r] = taken[r]
    BY <1>2, <2>1 DEF Unused, Opened, Ids
  <2>3. f[n] = 0
    BY <2>2 DEF Due
  <2>4. TokenOf(n)' = Terms[refund'[n].payment].token
    BY DEF TokenOf
  <2>5. g[n] = y
    BY <1>2, <2>1, <2>2, <2>4 DEF Due
  <2>6. \A r \in Ids \ {n} : g[r] = f[r]
    BY <2>2 DEF Due, TokenOf
  <2>7. /\ \A r \in Ids : f[r] \in Int
        /\ IsFiniteSet(Ids) /\ balance[t] \in Nat
        /\ SumFunctionOnSet(f, Ids) <= balance[t]
    BY <1>1, DueTyped, IdsFinite DEF CoreTyped, Covered
  <2> HIDE DEF f, g
  <2>8. SumFunctionOnSet(g, Ids) = SumFunctionOnSet(f, Ids) - f[n] + g[n]
    BY <2>5, <2>6, <2>7, SumChange
  <2>9. SumFunctionOnSet(f, Ids) \in Int
    BY <2>7, SumInt
  <2>10. SumFunctionOnSet(g, Ids) <= balance'[t]
    BY <1>2, <2>3, <2>5, <2>7, <2>8, <2>9
  <2>11. QED
    BY <2>10 DEF g
<1>3. ASSUME NEW x \in Nat, NEW u \in Token, Requests(x, u), NEW t \in Token
      PROVE  SumFunctionOnSet(Due(t)', Ids) <= balance'[t]
  <2> DEFINE y == IF u = t THEN x ELSE 0
  <2>1. y \in Nat /\ balance'[t] = balance[t] + y
    BY <1>1, <1>3 DEF Requests, CoreTyped
  <2>2. /\ Opened(x) /\ taken'[nextId] = x /\ Terms[refund'[nextId].payment].token = u
        /\ \A r \in Ids \ {nextId} : taken'[r] = taken[r]
    BY <1>1, <1>3 DEF Requests, Opened, CoreTyped
  <2>3. (u = t => x = y) /\ (u # t => y = 0)
    OBVIOUS
  <2> HIDE DEF y
  <2>4. QED
    BY <1>2, <2>1, <2>2, <2>3
<1>4. ASSUME NEW x \in Nat, NEW p \in Payment, Refunds(x, p), NEW t \in Token
      PROVE  SumFunctionOnSet(Due(t)', Ids) <= balance'[t]
  <2>1. Opened(x) /\ taken' = taken /\ balance' = balance
    BY <1>4 DEF Refunds
  <2>2. taken[nextId] = 0
    BY <2>1 DEF Opened, Unused, Ids
  <2>3. PICK y \in Nat : y = 0
    OBVIOUS
  <2>4. /\ \A r \in Ids \ {nextId} : taken'[r] = taken[r]
        /\ taken'[nextId] = 0 /\ taken'[nextId] = y
        /\ balance'[t] = balance[t] + y /\ y = 0
    BY <1>1, <2>1, <2>2, <2>3 DEF CoreTyped
  <2>5. QED
    BY <1>2, <2>1, <2>4
<1>5. QED
  BY <1>3, <1>4, AskOpens DEF Covered

-----------------------------------------------------------------------------
(* Statistics and cumulative amounts *)

Amounts == [r \in Ids |-> refund[r].amount]

LEMMA AmountsTyped ==
    ASSUME CoreTyped
    PROVE  \A r \in Ids : Amounts[r] \in Int /\ Amounts[r] = refund[r].amount
BY RecordTyped DEF Amounts

LEMMA TouchedAmounts == ASSUME NEW S, Touches(S) PROVE Amounts' = Amounts
BY DEF Amounts, Touches

(* A set of refunds joins those whose amounts are added up. *)
LEMMA AmountGrows ==
    ASSUME CoreTyped, NEW S \in SUBSET Ids, NEW D \in SUBSET Ids, D \cap S = {}
    PROVE  /\ SumFunctionOnSet(Amounts, D \cup S) = AmountOf(D) + AmountOf(S)
           /\ Cardinality(D \cup S) = Cardinality(D) + Cardinality(S)
           /\ AmountOf(D) \in Nat /\ AmountOf(S) \in Nat
           /\ Cardinality(D) \in Nat /\ Cardinality(S) \in Nat
<1>1. IsFiniteSet(D) /\ IsFiniteSet(S)
  BY IdsFinite
<1>2. \A r \in D \cup S : Amounts[r] \in Int
  BY AmountsTyped
<1>3. AmountOf(D) = SumFunctionOnSet(Amounts, D) /\ AmountOf(S) = SumFunctionOnSet(Amounts, S)
  BY DEF AmountOf, Amounts
<1>4. SumFunctionOnSet(Amounts, D \cup S)
        = SumFunctionOnSet(Amounts, D) + SumFunctionOnSet(Amounts, S)
  BY <1>1, <1>2, SumUnion
<1>5. /\ Cardinality(D \cup S) = Cardinality(D) + Cardinality(S) - Cardinality({})
      /\ Cardinality(D) \in Nat /\ Cardinality(S) \in Nat
  BY <1>1, FS_Union, FS_CardinalityType
<1>6. Cardinality({}) = 0
  BY FS_EmptySet
<1>7. AmountOf(D) \in Nat /\ AmountOf(S) \in Nat
  BY AmountTyped
<1>8. QED
  BY <1>3, <1>4, <1>5, <1>6, <1>7

(* What may be in a total while one record is added outside it or in it. *)
LEMMA OpenedAmounts ==
    ASSUME CoreTyped, NEW x \in Nat, Opened(x), NEW D \in SUBSET Ids, nextId \notin D
    PROVE  /\ SumFunctionOnSet(Amounts', D) = AmountOf(D)
           /\ SumFunctionOnSet(Amounts', D \cup {nextId}) = AmountOf(D) + x
           /\ AmountOf(D) \in Nat
           /\ Cardinality(D \cup {nextId}) = Cardinality(D) + 1
<1>1. IsFiniteSet(D) /\ AmountOf(D) = SumFunctionOnSet(Amounts, D) /\ AmountOf(D) \in Nat
  BY IdsFinite, AmountTyped DEF AmountOf, Amounts
<1>2. PICK n \in Ids : n = nextId
  BY DEF Opened
<1>3. \A r \in D : Amounts'[r] = Amounts[r]
  BY DEF Opened, Amounts
<1>4. Amounts'[n] = x /\ n \notin D
  BY <1>2 DEF Opened, Amounts
<1>5. \A r \in D : Amounts[r] \in Int /\ Amounts'[r] \in Int
  BY <1>3, AmountsTyped
<1>6. SumFunctionOnSet(Amounts', D) = SumFunctionOnSet(Amounts, D)
  BY <1>1, <1>3, SumEqual
<1>7. SumFunctionOnSet(Amounts', D \cup {n}) = SumFunctionOnSet(Amounts', D) + x
  BY <1>1, <1>4, <1>5, SumAdd
<1>8. Cardinality(D \cup {n}) = Cardinality(D) + 1
  BY <1>1, <1>4, FS_AddElement
<1>9. QED
  BY <1>1, <1>2, <1>6, <1>7, <1>8

LEMMA StatsText ==
    CountsAgree <=> /\ stats.requested = nextId
                   /\ stats.processed = Cardinality(Counted)
                   /\ stats.total = SumFunctionOnSet(Amounts, Counted)
                   /\ stats.rejected >= Cardinality(Denied)
BY DEF CountsAgree, Counted, Denied, AmountOf, Amounts

LEMMA StatsTextNext ==
    /\ stats'.requested = nextId'
    /\ stats'.processed = Cardinality(Counted')
    /\ stats'.total = SumFunctionOnSet(Amounts', Counted')
    /\ stats'.rejected >= Cardinality(Denied')
    => CountsAgree'
BY DEF CountsAgree, Counted, Denied, AmountOf, Amounts

LEMMA SetsFinite ==
    /\ Counted \subseteq Ids /\ Denied \subseteq Ids
    /\ IsFiniteSet(Counted) /\ IsFiniteSet(Denied)
    /\ Cardinality(Counted) \in Nat /\ Cardinality(Denied) \in Nat
<1>1. Counted \in SUBSET Ids /\ Denied \in SUBSET Ids
  BY DEF Counted, Denied, In
<1>2. IsFiniteSet(Counted) /\ IsFiniteSet(Denied)
  BY <1>1, IdsFinite
<1>3. QED
  BY <1>1, <1>2, FS_CardinalityType

LEMMA DecisionStats ==
    ASSUME CoreTyped, CountsAgree, NEW r \in Ids, Decision(r)
    PROVE  CountsAgree'
<1>1. /\ \A q \in Ids \ {r} : refund'[q] = refund[q]
      /\ refund[r].status # "Processed" /\ refund'[r].status # "Processed"
      /\ Amounts' = Amounts /\ nextId' = nextId
  BY TouchedAmounts DEF Decision, Touches, Decided, Appealed, Has
<1>2. Counted' = Counted
  BY <1>1 DEF Counted, In
<1>3. stats \in StatsType
  BY DEF CoreTyped
<1>4. CASE CountsOne(1)
  <2>1. /\ stats'.requested = stats.requested /\ stats'.processed = stats.processed
        /\ stats'.total = stats.total /\ stats'.rejected = stats.rejected + 1
        /\ stats.rejected \in Nat
    BY <1>3, <1>4 DEF CountsOne, StatsType
  <2>2. Denied' \subseteq Denied \cup {r}
    BY <1>1 DEF Denied, In
  <2>3. IsFiniteSet(Denied \cup {r}) /\ Cardinality(Denied \cup {r}) <= Cardinality(Denied) + 1
    BY SetsFinite, CountOneMore
  <2>4. Cardinality(Denied') <= Cardinality(Denied \cup {r})
        /\ Cardinality(Denied') \in Nat /\ Cardinality(Denied \cup {r}) \in Nat
    BY <2>2, <2>3, FS_Subset, FS_CardinalityType
  <2>5. Cardinality(Denied) \in Nat
    BY SetsFinite
  <2>6. stats'.rejected >= Cardinality(Denied')
    BY <2>1, <2>3, <2>4, <2>5, StatsText
  <2>7. QED
    BY <1>1, <1>2, <2>1, <2>6, StatsText, StatsTextNext
<1>5. CASE CountsApproval \/ stats' = stats
  <2>1. /\ stats'.requested = stats.requested /\ stats'.processed = stats.processed
        /\ stats'.total = stats.total /\ stats'.rejected = stats.rejected
        /\ stats.rejected \in Nat
    BY <1>3, <1>5 DEF CountsApproval, StatsType
  <2>2. CASE Has(r, "Rejected")' \/ Has(r, "UnderAppeal")'
    <3>1. Has(r, "Rejected") \/ CountsOne(1)
      BY <2>2 DEF Decision, Decided, Appealed, Has
    <3>2. CASE Has(r, "Rejected")
      <4>1. Denied' = Denied
        BY <1>1, <2>2, <3>2 DEF Denied, In, Has
      <4>2. QED
        BY <1>1, <1>2, <2>1, <4>1, StatsText, StatsTextNext
    <3>3. QED
      BY <1>4, <3>1, <3>2
  <2>3. CASE ~(Has(r, "Rejected")' \/ Has(r, "UnderAppeal")')
    <3>1. Denied' \subseteq Denied
      BY <1>1, <2>3 DEF Denied, In, Has
    <3>2. Cardinality(Denied') <= Cardinality(Denied) /\ Cardinality(Denied') \in Nat
          /\ Cardinality(Denied) \in Nat
      BY <3>1, SetsFinite, FS_Subset, FS_CardinalityType
    <3>3. stats'.rejected >= Cardinality(Denied')
      BY <2>1, <3>2, StatsText
    <3>4. QED
      BY <1>1, <1>2, <2>1, <3>3, StatsText, StatsTextNext
  <2>4. QED
    BY <2>2, <2>3
<1>6. QED
  BY <1>4, <1>5 DEF Decision, Decided, Appealed

LEMMA ProcessingStats ==
    ASSUME CoreTyped, CountsAgree, NEW S \in SUBSET Ids, Processing(S)
    PROVE  CountsAgree'
<1>1. /\ \A q \in Ids \ S : refund'[q] = refund[q]
      /\ \A r \in S : refund[r].status # "Processed" /\ refund'[r].status = "Processed"
      /\ Amounts' = Amounts /\ nextId' = nextId
  BY TouchedAmounts DEF Processing, Touches, Has
<1>2. /\ stats'.requested = stats.requested /\ stats'.rejected = stats.rejected
      /\ stats'.processed = stats.processed + Cardinality(S)
      /\ stats'.total = stats.total + AmountOf(S)
  BY CountProcessedCounts DEF Processing
<1>3. Counted' = Counted \cup S /\ Counted \cap S = {} /\ Counted \in SUBSET Ids
  BY <1>1 DEF Counted, In
<1>4. /\ SumFunctionOnSet(Amounts, Counted \cup S) = AmountOf(Counted) + AmountOf(S)
      /\ Cardinality(Counted \cup S) = Cardinality(Counted) + Cardinality(S)
  BY <1>3, AmountGrows
<1>5. AmountOf(Counted) = SumFunctionOnSet(Amounts, Counted)
  BY DEF AmountOf, Amounts
<1>6. Denied' \subseteq Denied
  BY <1>1 DEF Denied, In
<1>7. Cardinality(Denied') <= Cardinality(Denied) /\ Cardinality(Denied') \in Nat
      /\ Cardinality(Denied) \in Nat
  BY <1>6, SetsFinite, FS_Subset, FS_CardinalityType
<1>8. stats.rejected \in Nat
  BY DEF CoreTyped, StatsType
<1>9. stats'.rejected >= Cardinality(Denied')
  BY <1>2, <1>7, <1>8, StatsText
<1>10. QED
  BY <1>1, <1>2, <1>3, <1>4, <1>5, <1>9, StatsText, StatsTextNext

LEMMA AskStats ==
    ASSUME TypeInv, Unused, CountsAgree, Ask
    PROVE  CountsAgree'
<1>1. CoreTyped /\ stats \in StatsType
  BY TypeParts DEF CoreTyped
<1>2. ASSUME NEW x \in Nat, Opened(x)
      PROVE  /\ nextId \notin Counted /\ nextId \notin Denied
             /\ \A r \in Ids \ {nextId} : refund'[r] = refund[r]
             /\ SumFunctionOnSet(Amounts', Counted) = SumFunctionOnSet(Amounts, Counted)
             /\ SumFunctionOnSet(Amounts', Counted \cup {nextId})
                  = SumFunctionOnSet(Amounts, Counted) + x
             /\ Cardinality(Counted \cup {nextId}) = Cardinality(Counted) + 1
  <2>1. nextId \in Ids /\ nextId >= nextId
    BY <1>2 DEF Opened, Ids
  <2>2. refund[nextId].status = "None"
    BY <2>1 DEF Unused, Has
  <2>3. nextId \notin Counted /\ nextId \notin Denied /\ Counted \in SUBSET Ids
    BY <2>2 DEF Counted, Denied, In
  <2>4. AmountOf(Counted) = SumFunctionOnSet(Amounts, Counted)
    BY DEF AmountOf, Amounts
  <2>5. QED
    BY <1>1, <1>2, <2>3, <2>4, OpenedAmounts DEF Opened
<1>3. ASSUME NEW x \in Nat, NEW t \in Token, Requests(x, t)
      PROVE  CountsAgree'
  <2>1. /\ stats'.requested = stats.requested + 1 /\ stats'.rejected = stats.rejected
        /\ stats'.processed = stats.processed /\ stats'.total = stats.total
        /\ nextId' = nextId + 1 /\ Opened(x) /\ refund'[nextId].status \in Waiting
    BY <1>1, <1>3 DEF Requests, Opened, StatsType
  <2>2. Counted' = Counted /\ Denied' = Denied
    BY <1>2, <2>1 DEF Counted, Denied, In, Waiting
  <2>3. QED
    BY <1>2, <2>1, <2>2, StatsText, StatsTextNext
<1>4. ASSUME NEW x \in Nat, NEW p \in Payment, Refunds(x, p)
      PROVE  CountsAgree'
  <2>1. /\ nextId' = nextId + 1 /\ Opened(x) /\ refund'[nextId].status = "Processed"
        /\ nextId \in Ids
    BY <1>4 DEF Refunds, Opened
  <2>2. /\ stats'.requested = stats.requested + 1 /\ stats'.rejected = stats.rejected
        /\ stats'.processed = stats.processed + 1 /\ stats'.total = stats.total + x
    BY <1>1, <1>4 DEF Refunds, StatsType
  <2>3. Counted' = Counted \cup {nextId} /\ Denied' = Denied
    BY <1>2, <2>1 DEF Counted, Denied, In
  <2>4. QED
    BY <1>2, <2>1, <2>2, <2>3, StatsText, StatsTextNext
<1>5. QED
  BY <1>3, <1>4, AskOpens

(* Approvals stay within the refunds that are approved or processed, those   *)
(* of silence left out, as none of those loses its place.                    *)
LEMMA ApprovalsStay ==
    ASSUME TypeInv, Unused, StatusTells, ApprovalsAgree,
           Ask \/ (\E r \in Ids : Decision(r)) \/ \E S \in SUBSET Ids : Processing(S)
    PROVE  ApprovalsAgree'
<1>1. CoreTyped /\ stats \in StatsType
  BY TypeParts DEF CoreTyped
<1>2. /\ Endorsed \in SUBSET Ids /\ IsFiniteSet(Endorsed) /\ Cardinality(Endorsed) \in Nat
      /\ Endorsed' \in SUBSET Ids /\ IsFiniteSet(Endorsed') /\ Cardinality(Endorsed') \in Nat
  <2>1. Endorsed \in SUBSET Ids /\ Endorsed' \in SUBSET Ids
    BY DEF Endorsed, In
  <2> DEFINE A == Endorsed
             B == Endorsed'
  <2>2. A \in SUBSET Ids /\ B \in SUBSET Ids
    BY <2>1
  <2> HIDE DEF A, B
  <2>3. IsFiniteSet(A) /\ IsFiniteSet(B) /\ Cardinality(A) \in Nat /\ Cardinality(B) \in Nat
    BY <2>2, IdsFinite, FS_CardinalityType
  <2>4. QED
    BY <2>2, <2>3 DEF A, B
<1>3. ASSUME Endorsed \subseteq Endorsed', stats'.approved = stats.approved
      PROVE  ApprovalsAgree'
  <2>1. Cardinality(Endorsed) <= Cardinality(Endorsed')
    BY <1>2, <1>3, FS_Subset
  <2>2. stats.approved \in Nat /\ stats.approved <= Cardinality(Endorsed)
    BY <1>1 DEF ApprovalsAgree, StatsType
  <2>3. QED
    BY <1>2, <1>3, <2>1, <2>2 DEF ApprovalsAgree
<1>4. ASSUME NEW r \in Ids, Decision(r)
      PROVE  ApprovalsAgree'
  <2>1. /\ \A q \in Ids \ {r} : refund'[q] = refund[q]
        /\ refund[r].status \in {"Requested", "Rejected", "UnderAppeal"}
    BY <1>4 DEF Decision, Touches, Decided, Appealed, Has
  <2>2. r \notin Endorsed /\ Endorsed \subseteq Endorsed'
    BY <2>1 DEF Endorsed, In
  <2>3. CASE Has(r, "Approved")' /\ CountsApproval /\ Has(r, "Requested")
    <3>1. ~refund[r].bySilence
      BY <2>3 DEF StatusTells, Tells, Has
    <3>2. r \in Endorsed'
      BY <1>4, <2>3, <3>1 DEF Endorsed, In, Has, Decision
    <3>3. /\ IsFiniteSet(Endorsed \cup {r})
          /\ Cardinality(Endorsed \cup {r}) = Cardinality(Endorsed) + 1
      BY <1>2, <2>2, FS_AddElement
    <3>4. Cardinality(Endorsed \cup {r}) <= Cardinality(Endorsed')
      BY <1>2, <2>2, <3>2, FS_Subset
    <3>5. stats'.approved = stats.approved + 1 /\ stats.approved \in Nat
      BY <1>1, <2>3 DEF CountsApproval, StatsType
    <3>6. QED
      BY <1>2, <3>3, <3>4, <3>5 DEF ApprovalsAgree
  <2>4. CASE CountsOne(1) \/ stats' = stats
    <3>1. stats'.approved = stats.approved
      BY <1>1, <2>4 DEF CountsOne, StatsType
    <3>2. QED
      BY <1>3, <2>2, <3>1
  <2>5. QED
    BY <1>4, <2>3, <2>4 DEF Decision, Decided, Appealed
<1>5. ASSUME NEW S \in SUBSET Ids, Processing(S)
      PROVE  ApprovalsAgree'
  <2>1. stats'.approved = stats.approved
    BY <1>1, <1>5 DEF Processing, CountProcessed, StatsType
  <2>2. /\ \A q \in Ids \ S : refund'[q] = refund[q]
        /\ \A r \in S : refund'[r].status = "Processed"
                       /\ (refund'[r].bySilence = refund[r].bySilence
                           \/ refund[r].status = "Requested")
    BY <1>5 DEF Processing, Touches, Has
  <2>3. Endorsed \subseteq Endorsed'
    BY <2>2 DEF Endorsed, In
  <2>4. QED
    BY <1>3, <2>1, <2>3
<1>6. ASSUME Ask
      PROVE  ApprovalsAgree'
  <2>1. \E x \in Nat : \/ \E t \in Token : Requests(x, t)
                      \/ \E p \in Payment : Refunds(x, p)
    BY <1>6, AskOpens
  <2>2. stats'.approved = stats.approved
    BY <1>1, <2>1 DEF Requests, Refunds, StatsType
  <2>3. nextId \in Ids /\ \A r \in Ids \ {nextId} : refund'[r] = refund[r]
    BY <2>1 DEF Requests, Refunds, Opened
  <2>4. refund[nextId].status = "None"
    <3>1. nextId \in Ids /\ nextId >= nextId
      BY <2>3 DEF Ids
    <3>2. QED
      BY <3>1 DEF Unused, Has
  <2>5. Endorsed \subseteq Endorsed'
    BY <2>3, <2>4 DEF Endorsed, In
  <2>6. QED
    BY <1>3, <2>2, <2>5
<1>7. QED
  BY <1>4, <1>5, <1>6

(* The refunds that entered the cumulative amount of a payment. *)
Entered(p) == {r \in Counted : refund[r].payment = p /\ ~refund[r].bySilence}

LEMMA RefundedText ==
    RefundedAmountAgrees <=>
        \A p \in Payment : refundedAmount[p] = SumFunctionOnSet(Amounts, Entered(p))
BY DEF RefundedAmountAgrees, Entered, Counted, AmountOf, Amounts

LEMMA RefundedTextNext ==
    (\A p \in Payment : refundedAmount'[p] = SumFunctionOnSet(Amounts', Entered(p)'))
        => RefundedAmountAgrees'
BY DEF RefundedAmountAgrees, Entered, Counted, AmountOf, Amounts

LEMMA ProcessingRefunded ==
    ASSUME CoreTyped, StatusTells, RefundedAmountAgrees, NEW S \in SUBSET Ids, Processing(S)
    PROVE  RefundedAmountAgrees'
<1>1. /\ \A q \in Ids \ S : refund'[q] = refund[q]
      /\ \A r \in S : /\ refund[r].status # "Processed" /\ refund'[r].status = "Processed"
                       /\ refund'[r].payment = refund[r].payment
      /\ Amounts' = Amounts
  BY TouchedAmounts DEF Processing, Touches, Has
<1>2. \A r \in S : ~refund[r].bySilence
  BY <1>1 DEF StatusTells, Tells, Has
<1>3. SUFFICES ASSUME NEW p \in Payment
               PROVE  refundedAmount'[p] = SumFunctionOnSet(Amounts', Entered(p)')
  BY RefundedTextNext
<1>4. refundedAmount[p] = SumFunctionOnSet(Amounts, Entered(p)) /\ Entered(p) \in SUBSET Ids
  BY RefundedText DEF Entered, Counted, In
<1>5. CASE /\ \A r \in S : refund'[r].bySilence = refund[r].bySilence
           /\ RecordRefunded(S)
  <2> DEFINE T == {r \in S : refund[r].payment = p}
  <2>1. refundedAmount'[p] = refundedAmount[p] + AmountOf(T)
    BY <1>5 DEF RecordRefunded
  <2>2. Entered(p)' = Entered(p) \cup T /\ Entered(p) \cap T = {} /\ T \in SUBSET Ids
    BY <1>1, <1>2, <1>5 DEF Entered, Counted, In
  <2>3. AmountOf(Entered(p)) = SumFunctionOnSet(Amounts, Entered(p))
    BY DEF AmountOf, Amounts
  <2> HIDE DEF T
  <2>4. SumFunctionOnSet(Amounts, Entered(p) \cup T) = AmountOf(Entered(p)) + AmountOf(T)
    BY <1>4, <2>2, AmountGrows
  <2>5. QED
    BY <1>1, <1>4, <2>1, <2>2, <2>3, <2>4
<1>6. CASE /\ \A r \in S : refund'[r].bySilence = TRUE
           /\ refundedAmount' = refundedAmount
  <2>1. Entered(p)' = Entered(p)
    BY <1>1, <1>6 DEF Entered, Counted, In
  <2>2. QED
    BY <1>1, <1>4, <1>6, <2>1
<1>7. QED
  BY <1>5, <1>6 DEF Processing

LEMMA DecisionRefunded ==
    ASSUME RefundedAmountAgrees, NEW r \in Ids, Decision(r)
    PROVE  RefundedAmountAgrees'
<1>1. /\ \A q \in Ids \ {r} : refund'[q] = refund[q]
      /\ refund[r].status # "Processed" /\ refund'[r].status # "Processed"
      /\ Amounts' = Amounts /\ refundedAmount' = refundedAmount
  BY TouchedAmounts DEF Decision, Touches, Decided, Appealed, Has
<1>2. \A p \in Payment : Entered(p)' = Entered(p)
  BY <1>1 DEF Entered, Counted, In
<1>3. QED
  BY <1>1, <1>2, RefundedText, RefundedTextNext

LEMMA AskRefunded ==
    ASSUME TypeInv, Unused, RefundedAmountAgrees, Ask
    PROVE  RefundedAmountAgrees'
<1>1. CoreTyped
  BY TypeParts
<1>2. ASSUME NEW x \in Nat, Opened(x), NEW p \in Payment
      PROVE  /\ nextId \notin Counted /\ nextId \in Ids
             /\ \A r \in Ids \ {nextId} : refund'[r] = refund[r]
             /\ SumFunctionOnSet(Amounts', Entered(p)) = refundedAmount[p]
             /\ SumFunctionOnSet(Amounts', Entered(p) \cup {nextId}) = refundedAmount[p] + x
  <2>1. nextId \in Ids /\ nextId >= nextId
    BY <1>2 DEF Opened, Ids
  <2>2. refund[nextId].status = "None"
    BY <2>1 DEF Unused, Has
  <2>3. nextId \notin Counted /\ nextId \notin Entered(p) /\ Entered(p) \in SUBSET Ids
    BY <2>2 DEF Entered, Counted, In
  <2>4. AmountOf(Entered(p)) = SumFunctionOnSet(Amounts, Entered(p))
    BY DEF AmountOf, Amounts
  <2>5. refundedAmount[p] = SumFunctionOnSet(Amounts, Entered(p))
    BY RefundedText
  <2>6. QED
    BY <1>1, <1>2, <2>1, <2>3, <2>4, <2>5, OpenedAmounts DEF Opened
<1>3. ASSUME NEW x \in Nat, NEW t \in Token, Requests(x, t), NEW p \in Payment
      PROVE  refundedAmount'[p] = SumFunctionOnSet(Amounts', Entered(p)')
  <2>1. Opened(x) /\ refund'[nextId].status \in Waiting /\ refundedAmount' = refundedAmount
    BY <1>3 DEF Requests
  <2>2. Entered(p)' = Entered(p)
    BY <1>2, <2>1 DEF Entered, Counted, In, Waiting
  <2>3. QED
    BY <1>2, <2>1, <2>2
<1>4. ASSUME NEW x \in Nat, NEW q \in Payment, Refunds(x, q), NEW p \in Payment
      PROVE  refundedAmount'[p] = SumFunctionOnSet(Amounts', Entered(p)')
  <2>1. /\ Opened(x) /\ refund'[nextId].status = "Processed"
        /\ refund'[nextId].payment = q /\ ~refund'[nextId].bySilence
        /\ refundedAmount'[q] = refundedAmount[q] + x
        /\ p # q => refundedAmount'[p] = refundedAmount[p]
    BY <1>1, <1>4 DEF Refunds, Opened, CoreTyped
  <2>2. CASE p = q
    <3>1. Entered(p)' = Entered(p) \cup {nextId}
      BY <1>2, <2>1, <2>2 DEF Entered, Counted, In
    <3>2. QED
      BY <1>2, <2>1, <2>2, <3>1
  <2>3. CASE p # q
    <3>1. Entered(p)' = Entered(p)
      BY <1>2, <2>1, <2>3 DEF Entered, Counted, In
    <3>2. QED
      BY <1>2, <2>1, <2>3, <3>1
  <2>4. QED
    BY <2>2, <2>3
<1>5. QED
  BY <1>3, <1>4, AskOpens, RefundedTextNext

LEMMA InitRefund == Init => RefundInv
<1>1. SUFFICES ASSUME Init PROVE RefundInv
  OBVIOUS
<1>2. RecordsInv /\ CoreTyped
  BY <1>1, InitRecords, TypeParts DEF RecordsInv
<1>3. /\ \A r \in Ids : refund[r].status = "None" /\ taken[r] = 0 /\ released[r] = 0
      /\ \A t \in Token : balance[t] = 0
      /\ \A p \in Payment : refundedAmount[p] = 0
      /\ nextId = 0
      /\ stats.requested = 0 /\ stats.processed = 0 /\ stats.total = 0 /\ stats.rejected = 0
      /\ stats.approved = 0
  <2>1. NoRefund.status = "None"
    BY DEF NoRefund
  <2>2. QED
    BY <1>1, <2>1 DEF Init
<1>4. Covered
  <2>1. SUFFICES ASSUME NEW t \in Token
                 PROVE  SumFunctionOnSet(Due(t), Ids) <= balance[t]
    BY DEF Covered
  <2> DEFINE f == Due(t)
  <2>2. \A r \in Ids : f[r] = 0
    BY <1>3 DEF Due
  <2>3. IsFiniteSet(Ids)
    BY IdsFinite
  <2> HIDE DEF f
  <2>4. SumFunctionOnSet(f, Ids) = 0
    BY <2>2, <2>3, SumZero
  <2>5. QED
    BY <1>3, <2>4 DEF f
<1>5. Counted = {} /\ Denied = {} /\ Endorsed = {} /\ \A p \in Payment : Entered(p) = {}
  BY <1>3 DEF Counted, Denied, Endorsed, Entered, In
<1>6. Cardinality({}) = 0 /\ SumFunctionOnSet(Amounts, {}) = 0
  BY FS_EmptySet, SumEmpty
<1>7. CountsAgree /\ ApprovalsAgree
  BY <1>3, <1>5, <1>6, StatsText DEF ApprovalsAgree
<1>8. RefundedAmountAgrees
  BY <1>3, <1>5, <1>6, RefundedText
<1>9. QED
  BY <1>2, <1>4, <1>7, <1>8 DEF RefundInv

LEMMA RefundStays == RefundInv /\ [Next]_vars => RefundInv'
<1>1. SUFFICES ASSUME RefundInv, [Next]_vars PROVE RefundInv'
  OBVIOUS
<1>2. /\ RecordsInv /\ TypeInv /\ Unused /\ StatusTells /\ CoreTyped
      /\ feeBps \in 0 .. MaxFeeBps
      /\ Covered /\ CountsAgree /\ ApprovalsAgree /\ RefundedAmountAgrees
  BY <1>1, TypeParts DEF RefundInv, RecordsInv, RestTyped
<1>3. Move
  BY <1>1, <1>2, StepMoves
<1>4. RecordsInv'
  BY <1>1, <1>2, RecordsStay
<1>5. Covered' /\ CountsAgree' /\ ApprovalsAgree' /\ RefundedAmountAgrees'
  <2>1. CASE Keep
    <3>1. /\ refund' = refund /\ balance' = balance /\ taken' = taken /\ stats' = stats
          /\ released' = released /\ nextId' = nextId /\ refundedAmount' = refundedAmount
      BY <2>1 DEF Keep
    <3>2. \A t : Due(t)' = Due(t)
      BY <3>1 DEF Due, TokenOf
    <3>3. Covered'
      BY <1>2, <3>1, <3>2 DEF Covered
    <3>4. CountsAgree' /\ ApprovalsAgree' /\ RefundedAmountAgrees'
      BY <1>2, <3>1 DEF CountsAgree, ApprovalsAgree, Counted, Denied, Endorsed,
         RefundedAmountAgrees, AmountOf, In
    <3>5. QED
      BY <3>3, <3>4
  <2>2. CASE Ask
    BY <1>2, <2>2, AskCovered, AskStats, ApprovalsStay, AskRefunded
  <2>3. CASE \E r \in Ids : Decision(r)
    BY <1>2, <2>3, DecisionCovered, DecisionStats, ApprovalsStay, DecisionRefunded
  <2>4. CASE \E S \in SUBSET Ids : Processing(S)
    BY <1>2, <2>4, ProcessingCovered, ProcessingStats, ApprovalsStay, ProcessingRefunded
  <2>5. QED
    BY <1>3, <2>1, <2>2, <2>3, <2>4 DEF Move
<1>6. QED
  BY <1>4, <1>5 DEF RefundInv

(* The statistics, which each call counts up for itself, say of every        *)
(* history what the records say: one request each, one processing each with  *)
(* its amount, an approval at most for every refund approved or processed    *)
(* other than by silence, a rejection at least for every one rejected or     *)
(* appealed.                                                                 *)
THEOREM StatisticsFollowRecords == Spec => []StatsAgree
<1>1. RefundInv => StatsAgree
  BY DEF RefundInv, CountsAgree, ApprovalsAgree, StatsAgree, Counted, Denied, Endorsed
<1>2. QED
  BY InitRefund, RefundStays, <1>1, PTL DEF Spec

(* What a payment is said to have been refunded is the sum of its processed  *)
(* refunds, but for those processed by silence.                              *)
THEOREM RefundedIsSum == Spec => []RefundedAmountAgrees
<1>1. RefundInv => RefundedAmountAgrees
  BY DEF RefundInv
<1>2. QED
  BY InitRefund, RefundStays, <1>1, PTL DEF Spec

(* Whatever appeals do, a token's balance is never below what was placed in  *)
(* the contract for its refunds less what was paid out on them: what a       *)
(* second payment takes is missing to the other refunds.                     *)
THEOREM RefundMoneyIsCovered == Spec => []Covered
<1>1. RefundInv => Covered
  BY DEF RefundInv
<1>2. QED
  BY InitRefund, RefundStays, <1>1, PTL DEF Spec

(* The balance of a token covers whatever waits, is rejected unpaid or       *)
(* appealed in it, as long as no appeal has had a refund paid twice.         *)
THEOREM OpenRefundsAreHeld == Spec => []OpenRefundsHeld
<1>1. ASSUME RefundInv
      PROVE  OpenRefundsHeld
  <2>1. CoreTyped /\ StatusTells /\ Covered
    BY <1>1, TypeParts DEF RefundInv, RecordsInv
  <2> DEFINE D(t) == {r \in Ids : /\ TokenOf(r) = t
                                  /\ refund[r].status \notin Settled
                                  /\ released[r] = 0}
  <2>2. ASSUME \A r \in Ids : released[r] <= taken[r], NEW t \in Token
        PROVE  AmountOf(D(t)) <= balance[t]
    <3> DEFINE E == D(t)
               f == Due(t)
               h == [r \in Ids |-> IF r \in E THEN Amounts[r] ELSE 0]
    <3>1. E \subseteq Ids /\ IsFiniteSet(Ids)
      BY IdsFinite
    <3>2. \A r \in E : f[r] = Amounts[r]
      BY <2>1, AmountsTyped DEF Due, StatusTells, Tells, Has, Settled, CoreTyped
    <3>3. \A r \in Ids : f[r] >= 0 /\ f[r] \in Int
      BY <2>1, <2>2 DEF Due, CoreTyped
    <3>4. \A r \in Ids : Amounts[r] \in Int
      BY <2>1, AmountsTyped
    <3>5. AmountOf(E) = SumFunctionOnSet(Amounts, E)
      BY DEF AmountOf, Amounts
    <3>6. SumFunctionOnSet(f, Ids) <= balance[t] /\ balance[t] \in Int
      BY <2>1 DEF Covered, CoreTyped
    <3> HIDE DEF E, f
    <3>7. \A r \in Ids : h[r] \in Int /\ h[r] <= f[r]
      BY <3>2, <3>3, <3>4
    <3>8. (\A r \in E : h[r] = Amounts[r] /\ Amounts[r] \in Int) /\ \A r \in Ids \ E : h[r] = 0
      BY <3>1, <3>4
    <3> HIDE DEF h
    <3>9. SumFunctionOnSet(h, Ids) = SumFunctionOnSet(Amounts, E)
      BY <3>1, <3>8, SumPart
    <3>10. SumFunctionOnSet(h, Ids) <= SumFunctionOnSet(f, Ids)
      BY <3>1, <3>3, <3>7, SumAtMost
    <3>11. SumFunctionOnSet(h, Ids) \in Int /\ SumFunctionOnSet(f, Ids) \in Int
      BY <3>1, <3>3, <3>7, SumInt
    <3>12. AmountOf(E) <= balance[t]
      BY <3>5, <3>6, <3>9, <3>10, <3>11
    <3>13. QED
      BY <3>12 DEF E
  <2>3. QED
    BY <2>2 DEF OpenRefundsHeld
<1>2. QED
  BY InitRefund, RefundStays, <1>1, PTL DEF Spec

(* While the contract is paused records, queue, statistics and money stay as *)
(* they are, through any sequence of calls.                                  *)
THEOREM PauseHoldsRefunds == Spec => PauseFreezesRefunds
<1> DEFINE Frozen == UNCHANGED <<recordVars, nextId, balance, released>>
<1>1. ASSUME [Next]_vars, paused, paused'
      PROVE  Frozen
  <2>1. CASE Ask
    BY <1>1, <2>1 DEF Ask, RequestRefund, MerchantRefund
  <2>2. ASSUME NEW r \in Ids, Decide(r)
        PROVE  \E x \in Extra : ExtendRefundDeadline(r, x)
    BY <1>1, <2>2 DEF Decide, ApproveRefund, RejectRefund, ProcessRefund, ProcessInternal,
       AutoApproveRefund, AutoCancelExpiredRequest, Cancel, AutoRejectStaleRefund,
       CancelRefundRequest, AppealRefund, AppealOf, ResolveAppeal
  <2>3. CASE \E r \in Ids : Decide(r)
    BY <2>2, <2>3 DEF ExtendRefundDeadline, requestVars
  <2>4. CASE \E S \in SUBSET Ids : BulkProcessRefunds(S)
    BY <1>1, <2>4 DEF BulkProcessRefunds, ProcessInternal
  <2>5. CASE Configure
    BY <2>5 DEF Configure, SetRefundTiers, UpdateRefundFee, ChangeAutoApprove, AddDelegate,
       RemoveDelegate, WaiveCooldown, SetPaused, requestVars
  <2>6. CASE Tick \/ \E p \in Payment : PaymentCompletes(p)
    BY <2>6 DEF Tick, PaymentCompletes, requestVars
  <2>7. CASE UNCHANGED vars
    BY <2>7 DEF vars, requestVars
  <2>8. QED
    BY <1>1, <2>1, <2>3, <2>4, <2>5, <2>6, <2>7 DEF Next
<1>2. ASSUME [Next]_vars
      PROVE  [paused /\ paused' => Frozen]_vars
  BY <1>1, <1>2
<1>3. QED
  BY <1>2, PTL DEF Spec, PauseFreezesRefunds

=============================================================================
