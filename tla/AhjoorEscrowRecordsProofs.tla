---------------------- MODULE AhjoorEscrowRecordsProofs ----------------------
(***************************************************************************)
(* Proofs that what the escrow contract records agrees with what it does:  *)
(* dispute records with the status, renewal plans with the renewals made,  *)
(* and the payments of a settlement with the way it was settled; and that  *)
(* the contract's balances are what all its unsettled escrows hold.  Each  *)
(* goes through the calls once, to say what a call may do to one escrow.   *)
(***************************************************************************)
EXTENDS AhjoorEscrowProofs

-----------------------------------------------------------------------------
(* Dispute records *)

Agrees(x, d) ==
    /\ x.status \in DisputedStatus <=> d.raised /\ ~d.resolved
    /\ x.status \in DisputedStatus => d.amount = x.amount

(* What a step may do to an escrow and its dispute record together.          *)
Filed(e) ==
    \/ /\ dispute'[e] = dispute[e]
       /\ escrow'[e].status = escrow[e].status
       /\ escrow'[e].amount = escrow[e].amount
    \/ /\ dispute'[e] = dispute[e]
       /\ ~IsDisputed(e) /\ escrow'[e].status \notin DisputedStatus
    \/ /\ Agrees(escrow'[e], dispute'[e])

LEMMA PartyFiles ==
    ASSUME MoneyInv, DisputeRecordAgrees, NEW c \in Address, NEW f \in Ids,
           PartyStep(c, f), NEW e \in Ids
    PROVE  Filed(e)
<1>a. /\ escrow \in [Ids -> EscrowType] /\ dispute \in [Ids -> DisputeType]
      /\ nextId \in Nat
  BY DEF MoneyInv, TypeInv, TypeOK
<1>b. escrow[e] \in EscrowType /\ escrow[f] \in EscrowType /\ dispute[f] \in DisputeType
  BY <1>a
<1>c. IsOpen(e) => ~IsDisputed(e)
  BY DEF IsOpen, IsDisputed, OpenStatus, DisputedStatus
<1>1. ASSUME NEW st \in TerminalStatus, SetStatus(f, st), IsOpen(f), UNCHANGED dispute
      PROVE  Filed(e)
  <2>1. escrow'[e] = IF e = f THEN [escrow[f] EXCEPT !.status = st] ELSE escrow[e]
    BY <1>1, <1>a DEF SetStatus
  <2>2. st \notin DisputedStatus
    BY DEF TerminalStatus, DisputedStatus
  <2>3. QED
    BY <1>1, <1>b, <1>c, <2>1, <2>2 DEF Filed, EscrowType
<1>2. CASE ReleaseEscrow(c, f)
  <2>1. CASE ReleaseOnly(c, f)
    BY <1>1, <1>2, <2>1 DEF ReleaseEscrow, ReleaseOnly, sideVars, TerminalStatus
  <2>2. CASE ReleaseAndRenew(c, f)
    <3>1. nextId \in Ids /\ ~IsDisputed(nextId)
      <4>1. nextId \in Ids
        BY <1>a, <2>2, EscrowConstants DEF ReleaseAndRenew, Ids
      <4>2. QED
        BY <1>a, <4>1, EscrowConstants
           DEF MoneyInv, Allocated, Exists, IsDisputed, DisputedStatus
    <3>2. /\ UNCHANGED dispute /\ IsOpen(f)
          /\ escrow' = [escrow EXCEPT ![f].status = "Released",
                                      ![nextId] = Renewed(f)]
      BY <1>2, <2>2 DEF ReleaseEscrow, ReleaseAndRenew, sideVars
    <3>3. Renewed(f).status = "Active"
      BY <1>b DEF Renewed, EscrowType
    <3>4. CASE e = nextId
      BY <1>a, <3>1, <3>2, <3>3, <3>4 DEF Filed, DisputedStatus
    <3>5. CASE e # nextId /\ e = f
      BY <1>a, <1>b, <1>c, <3>2, <3>5 DEF Filed, DisputedStatus, EscrowType
    <3>6. CASE e # nextId /\ e # f
      BY <1>a, <3>2, <3>6 DEF Filed
    <3>7. QED
      BY <3>4, <3>5, <3>6
  <2>3. QED
    BY <1>2, <2>1, <2>2 DEF ReleaseEscrow
<1>3. ASSUME NEW x \in Portion, PartialRelease(c, f, x)
      PROVE  Filed(e)
  <2>1. /\ UNCHANGED dispute /\ IsOpen(f)
        /\ escrow' = [escrow EXCEPT
                        ![f].amount = @ - x,
                        ![f].status = IF escrow[f].amount = x THEN "Released"
                                      ELSE "PartiallyReleased"]
    BY <1>3 DEF PartialRelease, sideVars
  <2>2. CASE e = f
    BY <1>a, <1>b, <1>c, <2>1, <2>2 DEF Filed, DisputedStatus, EscrowType
  <2>3. CASE e # f
    BY <1>a, <2>1, <2>3 DEF Filed
  <2>4. QED
    BY <2>2, <2>3
<1>4. ASSUME NEW x \in Portion, DisputeEscrow(c, f, x)
      PROVE  Filed(e)
  <2>1. /\ escrow' = [escrow EXCEPT
                    ![f].amount = x,
                    ![f].status = IF x < escrow[f].amount
                                  THEN "PartiallyDisputed" ELSE "Disputed"]
        /\ dispute' = [dispute EXCEPT
                     ![f] = [raised |-> TRUE, resolved |-> FALSE, amount |-> x]]
    BY <1>4 DEF DisputeEscrow
  <2>2. CASE e = f
    BY <1>a, <1>b, <2>1, <2>2 DEF Filed, Agrees, DisputedStatus, EscrowType
  <2>3. CASE e # f
    BY <1>a, <2>1, <2>3 DEF Filed
  <2>4. QED
    BY <2>2, <2>3
<1>5. ASSUME NEW toSeller \in BOOLEAN, ResolveDispute(c, f, toSeller)
      PROVE  Filed(e)
  <2>1. PICK st \in TerminalStatus : SetStatus(f, st)
    BY <1>5 DEF ResolveDispute, TerminalStatus
  <2>2. dispute[f].raised
    BY <1>5 DEF ResolveDispute, DisputeRecordAgrees
  <2>3. dispute' = [dispute EXCEPT ![f].resolved = TRUE]
    BY <1>5, <2>2 DEF ResolveDispute, MarkResolved
  <2>4. escrow' = [escrow EXCEPT ![f].status = st] /\ st \notin DisputedStatus
    BY <2>1 DEF SetStatus, TerminalStatus, DisputedStatus
  <2>5. CASE e = f
    BY <1>a, <1>b, <2>3, <2>4, <2>5 DEF Filed, Agrees, EscrowType, DisputeType
  <2>6. CASE e # f
    BY <1>a, <2>3, <2>4, <2>6 DEF Filed
  <2>7. QED
    BY <2>5, <2>6
<1>6. CASE ClaimInactivityRelease(c, f)
  BY <1>1, <1>6 DEF ClaimInactivityRelease, sideVars, TerminalStatus
<1>7. CASE AcceptDeadlineExtension(c, f)
  <2>1. /\ UNCHANGED dispute
        /\ escrow' = [escrow EXCEPT ![f].deadline = proposal[f].deadline]
    BY <1>7 DEF AcceptDeadlineExtension
  <2>2. QED
    BY <1>a, <1>b, <2>1 DEF Filed, EscrowType
<1>8. ASSUME NEW b \in Heirs, TransferBuyerRole(c, f, b)
      PROVE  Filed(e)
  <2>1. UNCHANGED dispute /\ escrow' = [escrow EXCEPT ![f].buyer = b]
    BY <1>8 DEF TransferBuyerRole, sideVars
  <2>2. QED
    BY <1>a, <1>b, <2>1 DEF Filed, EscrowType
<1>9. CASE CancelAutoRenew(c, f)
  <2>1. /\ UNCHANGED dispute
        /\ escrow' = [escrow EXCEPT ![f].autoRenew = FALSE,
                                    ![f].renewalsRemaining = 0]
    BY <1>9 DEF CancelAutoRenew, sideVars
  <2>2. QED
    BY <1>a, <1>b, <2>1 DEF Filed, EscrowType
<1>10. CASE \/ SubmitEvidence(c, f) \/ UpdateMetadata(c, f)
            \/ \E d \in Deadline : ProposeDeadlineExtension(c, f, d)
            \/ \E n \in Allowance : SetRenewalAllowance(c, f, n)
  <2>1. UNCHANGED <<escrow, dispute>>
    BY <1>10 DEF SubmitEvidence, UpdateMetadata, ProposeDeadlineExtension,
       SetRenewalAllowance, sideVars
  <2>2. QED
    BY <2>1 DEF Filed
<1>11. QED
  BY <1>2, <1>3, <1>4, <1>5, <1>6, <1>7, <1>8, <1>9, <1>10 DEF PartyStep

LEMMA StepFiles ==
    ASSUME MoneyInv, DisputeRecordAgrees, [Next]_vars, NEW e \in Ids
    PROVE  Filed(e)
<1>a. escrow \in [Ids -> EscrowType] /\ nextId \in Nat
  BY DEF MoneyInv, TypeInv, TypeOK
<1>b. \A i \in Ids : i >= nextId => ~IsDisputed(i)
  BY <1>a, EscrowConstants DEF MoneyInv, Allocated, Exists, IsDisputed, DisputedStatus, Ids
<1>1. CASE \E a \in Admins : AdminStep(a)
  <2>1. UNCHANGED <<escrow, dispute>>
    BY <1>1 DEF AdminStep, Initialize, PauseContract, ResumeContract,
       AddAllowedToken, RemoveAllowedToken, UpdateProtocolFee, sideVars
  <2>2. QED
    BY <2>1 DEF Filed
<1>2. CASE \E b \in Buyers : CreateStep(b)
  <2>1. ASSUME NEW b \in Buyers, NEW t \in Terms, NEW d \in Deadline,
               CreateEscrow(b, t, d)
        PROVE  Filed(e)
    <3>1. /\ UNCHANGED dispute /\ nextId \in Ids
          /\ escrow' = [escrow EXCEPT ![nextId] = NewEscrow(b, t, d)]
      BY <1>a, <2>1, EscrowConstants DEF CreateEscrow, OpenEscrow, TakeIds, sideVars, Ids
    <3>2. NewEscrow(b, t, d).status = "Active"
      BY DEF NewEscrow
    <3>3. QED
      BY <1>a, <1>b, <3>1, <3>2 DEF Filed, DisputedStatus
  <2>2. ASSUME NEW b \in Buyers, NEW t1 \in Terms, NEW t2 \in Terms,
               NEW d1 \in Deadline, NEW d2 \in Deadline,
               CreateEscrowsBatch(b, t1, d1, t2, d2)
        PROVE  Filed(e)
    <3>1. /\ UNCHANGED dispute /\ nextId \in Ids /\ nextId + 1 \in Ids
          /\ escrow' = [escrow EXCEPT
               ![nextId] = NewEscrow(b, [t1 EXCEPT !.window = 0], d1),
               ![nextId + 1] = NewEscrow(b, [t2 EXCEPT !.window = 0], d2)]
      BY <1>a, <2>2, EscrowConstants DEF CreateEscrowsBatch, TakeIds, sideVars, Ids
    <3>2. /\ NewEscrow(b, [t1 EXCEPT !.window = 0], d1).status = "Active"
          /\ NewEscrow(b, [t2 EXCEPT !.window = 0], d2).status = "Active"
      BY DEF NewEscrow
    <3>3. CASE e \in {nextId, nextId + 1}
      BY <1>a, <1>b, <3>1, <3>2, <3>3 DEF Filed, DisputedStatus
    <3>4. CASE e \notin {nextId, nextId + 1}
      BY <1>a, <3>1, <3>4 DEF Filed
    <3>5. QED
      BY <3>3, <3>4
  <2>3. QED
    BY <1>2, <2>1, <2>2 DEF CreateStep
<1>3. CASE \E c \in Address, f \in Ids : PartyStep(c, f)
  BY <1>3, PartyFiles
<1>4. ASSUME NEW f \in Ids, AutoReleaseExpired(f)
      PROVE  Filed(e)
  <2>1. /\ UNCHANGED dispute /\ IsOpen(f)
        /\ escrow' = [escrow EXCEPT ![f].status = "Refunded"]
    BY <1>4 DEF AutoReleaseExpired, SetStatus, sideVars
  <2>2. CASE e = f
    BY <1>a, <2>1, <2>2 DEF Filed, IsOpen, IsDisputed, OpenStatus, DisputedStatus, EscrowType
  <2>3. CASE e # f
    BY <1>a, <2>1, <2>3 DEF Filed
  <2>4. QED
    BY <2>2, <2>3
<1>5. CASE UNCHANGED vars \/ Tick \/ \E a \in Address, t \in Token : AllowanceLapses(a, t)
  <2>1. UNCHANGED <<escrow, dispute>>
    BY <1>5 DEF Tick, AllowanceLapses, sideVars, vars
  <2>2. QED
    BY <2>1 DEF Filed
<1>6. QED
  BY <1>1, <1>2, <1>3, <1>4, <1>5 DEF Next

LEMMA InitAgrees == Init => DisputeRecordAgrees
BY DEF Init, DisputeRecordAgrees, IsDisputed, DisputedStatus, NoDispute

LEMMA FiledAgrees ==
    ASSUME DisputeRecordAgrees, \A e \in Ids : Filed(e)
    PROVE  DisputeRecordAgrees'
<1> SUFFICES ASSUME NEW e \in Ids
             PROVE  Agrees(escrow'[e], dispute'[e])
  BY DEF DisputeRecordAgrees, Agrees, IsDisputed
<1>1. Filed(e)
  OBVIOUS
<1>2. Agrees(escrow[e], dispute[e])
  BY DEF DisputeRecordAgrees, Agrees, IsDisputed
<1>3. QED
  BY <1>1, <1>2 DEF Filed, Agrees, IsDisputed

(* A dispute record is unresolved exactly while the escrow is disputed, and  *)
(* is about what the escrow holds, after any sequence of calls.              *)
THEOREM DisputesAreRecorded == Spec => []DisputeRecordAgrees
<1>1. Init => DisputeRecordAgrees
  BY InitAgrees
<1>2. MoneyInv /\ DisputeRecordAgrees /\ [Next]_vars => DisputeRecordAgrees'
  BY StepFiles, FiledAgrees
<1>3. QED
  BY <1>1, <1>2, MoneyAlways, PTL DEF Spec

-----------------------------------------------------------------------------
(* Renewal plans *)

Within(x, g) == x.renewalCount # 0 => g + x.renewalsRemaining <= x.renewalCount

Follows(e, p) ==
    /\ p < e
    /\ generation[p] = generation[e] - 1
    /\ escrow[p].status = "Released"
    /\ escrow[p].amount = deposited[e]

(* An identifier ahead was never renewed into.                               *)
PlanInv ==
    /\ \A e \in Ids : ~Exists(e) => generation[e] = 0
    /\ \A e \in Ids : Exists(e) => Within(escrow[e], generation[e])
    /\ \A e \in Ids : generation[e] > 0 => \E p \in Ids : Follows(e, p)

(* What a step may do to the plan of an escrow.                              *)
PlanKept(e) ==
    /\ generation'[e] = generation[e]
    /\ escrow'[e].status = "None" <=> escrow[e].status = "None"
    /\ escrow'[e].renewalCount = escrow[e].renewalCount
    /\ escrow'[e].renewalsRemaining \in {escrow[e].renewalsRemaining, 0}

PlanBegins(e) ==
    /\ ~Exists(e) /\ escrow'[e].status # "None"
    /\ generation'[e] = generation[e]
    /\ escrow'[e].renewalsRemaining = escrow'[e].renewalCount

PlanGoesOn(e) ==
    \E p \in Ids :
        /\ ~Exists(e) /\ escrow'[e].status # "None"
        /\ Exists(p)
        /\ p < e
        /\ generation'[p] = generation[p]
        /\ generation'[e] = generation[p] + 1
        /\ escrow'[p].status = "Released"
        /\ escrow'[p].amount = deposited'[e]
        /\ escrow'[e].renewalCount = escrow[p].renewalCount
        /\ escrow[p].renewalCount # 0 =>
             /\ escrow[p].renewalsRemaining # 0
             /\ escrow'[e].renewalsRemaining = escrow[p].renewalsRemaining - 1

Plans == \A e \in Ids : PlanKept(e) \/ PlanBegins(e) \/ PlanGoesOn(e)

(* Calls that start no escrow and give no plan more. *)
LEMMA OneRecord ==
    ASSUME TypeInv, NEW f \in Ids, Exists(f), UNCHANGED generation,
           NEW x \in EscrowType, escrow' = [escrow EXCEPT ![f] = x],
           x.status # "None",
           x.renewalCount = escrow[f].renewalCount,
           x.renewalsRemaining \in {escrow[f].renewalsRemaining, 0}
    PROVE  Plans
BY DEF Plans, PlanKept, Exists, TypeInv, TypeOK

LEMMA SameRecords ==
    ASSUME TypeInv, UNCHANGED <<escrow, generation>>
    PROVE  Plans
BY DEF Plans, PlanKept, Exists, TypeInv, TypeOK, EscrowType

LEMMA StatusPlans ==
    ASSUME TypeInv, NEW f \in Ids, Exists(f), UNCHANGED generation,
           NEW st \in TerminalStatus, SetStatus(f, st)
    PROVE  Plans
<1> DEFINE x == [escrow[f] EXCEPT !.status = st]
<1>1. escrow[f] \in EscrowType /\ st \in Status /\ st # "None"
  BY DEF TypeInv, TypeOK, Status, TerminalStatus
<1>2. /\ x \in EscrowType /\ x.status = st
      /\ x.renewalCount = escrow[f].renewalCount
      /\ x.renewalsRemaining = escrow[f].renewalsRemaining
  BY <1>1 DEF EscrowType
<1>3. escrow' = [escrow EXCEPT ![f] = x]
  BY DEF SetStatus
<1> HIDE DEF x
<1>4. QED
  BY <1>1, <1>2, <1>3, OneRecord

LEMMA RenewalPlans ==
    ASSUME MoneyInv, NEW f \in Ids, NEW c \in Address, IsOpen(f), ReleaseAndRenew(c, f)
    PROVE  Plans
<1> DEFINE n == nextId
<1>1. /\ escrow \in [Ids -> EscrowType] /\ escrow[f] \in EscrowType
      /\ generation \in [Ids -> Nat] /\ deposited \in [Ids -> Nat]
      /\ Exists(f)
  BY StatusCases DEF MoneyInv, TypeInv, TypeOK, Live
<1>2. n \in Ids /\ f < n /\ ~Exists(n)
  <2>1. n < MaxEscrows /\ n \in Nat /\ MaxEscrows \in Nat
    BY EscrowConstants DEF ReleaseAndRenew, MoneyInv, TypeInv, TypeOK
  <2>2. n \in Ids
    BY <2>1 DEF Ids
  <2>3. \A e \in Ids : Exists(e) <=> e < n
    BY DEF MoneyInv, Allocated
  <2>4. QED
    BY <1>1, <2>1, <2>2, <2>3
<1>3. /\ escrow' = [escrow EXCEPT ![f].status = "Released", ![n] = Renewed(f)]
      /\ generation' = [generation EXCEPT ![n] = generation[f] + 1]
      /\ deposited' = [deposited EXCEPT ![n] = escrow[f].amount]
      /\ escrow[f].renewalCount # 0 => escrow[f].renewalsRemaining # 0
  BY DEF ReleaseAndRenew, WantsRenewal
<1>4. /\ Renewed(f).status = "Active"
      /\ Renewed(f).renewalCount = escrow[f].renewalCount
      /\ escrow[f].renewalCount # 0 =>
           Renewed(f).renewalsRemaining = escrow[f].renewalsRemaining - 1
  BY <1>1 DEF Renewed, EscrowType
<1> HIDE DEF n
<1>5. /\ escrow'[n] = Renewed(f)
      /\ escrow'[f] = [escrow[f] EXCEPT !.status = "Released"]
      /\ \A e \in Ids \ {f, n} : escrow'[e] = escrow[e]
      /\ generation'[n] = generation[f] + 1
      /\ \A e \in Ids \ {n} : generation'[e] = generation[e]
      /\ deposited'[n] = escrow[f].amount
  BY <1>1, <1>2, <1>3
<1>6. /\ escrow'[f].status = "Released" /\ escrow'[f].amount = escrow[f].amount
      /\ escrow'[f].renewalCount = escrow[f].renewalCount
      /\ escrow'[f].renewalsRemaining = escrow[f].renewalsRemaining
  BY <1>1, <1>5 DEF EscrowType
<1>7. f # n
  BY <1>1, <1>2
<1>8. PlanGoesOn(n)
  BY <1>1, <1>2, <1>3, <1>4, <1>5, <1>6, <1>7 DEF PlanGoesOn, Exists
<1>9. \A e \in Ids \ {n} : PlanKept(e)
  BY <1>1, <1>5, <1>6, <1>7 DEF PlanKept, Exists
<1>10. QED
  BY <1>8, <1>9 DEF Plans

LEMMA PartyPlans ==
    ASSUME MoneyInv, NEW c \in Address, NEW f \in Ids, PartyStep(c, f)
    PROVE  Plans
<1>a. /\ TypeInv /\ escrow[f] \in EscrowType
      /\ IsOpen(f) \/ IsDisputed(f) => Exists(f)
  BY StatusCases DEF MoneyInv, TypeInv, TypeOK, Live
<1>1. CASE ReleaseEscrow(c, f)
  BY <1>1, <1>a, RenewalPlans, StatusPlans
     DEF ReleaseEscrow, ReleaseOnly, renewalVars, TerminalStatus
<1>2. ASSUME NEW x \in Portion, PartialRelease(c, f, x)
      PROVE  Plans
  <2> DEFINE y == [escrow[f] EXCEPT
                    !.amount = @ - x,
                    !.status = IF escrow[f].amount = x THEN "Released"
                               ELSE "PartiallyReleased"]
  <2>1. /\ Exists(f) /\ UNCHANGED generation
        /\ x \in Int /\ x > 0 /\ x <= escrow[f].amount
        /\ escrow' = [escrow EXCEPT ![f] = y]
    BY <1>2, <1>a, EscrowConstants DEF PartialRelease, renewalVars
  <2>2. escrow[f].amount \in Nat
    BY <1>a DEF EscrowType
  <2>3. escrow[f].amount - x \in Nat
    BY <2>1, <2>2
  <2>4. /\ y \in EscrowType /\ y.status # "None"
        /\ y.renewalCount = escrow[f].renewalCount
        /\ y.renewalsRemaining = escrow[f].renewalsRemaining
    BY <1>a, <2>3 DEF EscrowType, Status, OpenStatus, TerminalStatus
  <2> HIDE DEF y
  <2>5. QED
    BY <1>a, <2>1, <2>4, OneRecord
<1>3. ASSUME NEW x \in Portion, DisputeEscrow(c, f, x)
      PROVE  Plans
  <2> DEFINE y == [escrow[f] EXCEPT
                    !.amount = x,
                    !.status = IF x < escrow[f].amount
                               THEN "PartiallyDisputed" ELSE "Disputed"]
  <2>1. /\ Exists(f) /\ UNCHANGED generation
        /\ x \in Int /\ x > 0
        /\ escrow' = [escrow EXCEPT ![f] = y]
    BY <1>3, <1>a, EscrowConstants DEF DisputeEscrow, renewalVars
  <2>2. x \in Nat
    BY <2>1
  <2>3. /\ y \in EscrowType /\ y.status # "None"
        /\ y.renewalCount = escrow[f].renewalCount
        /\ y.renewalsRemaining = escrow[f].renewalsRemaining
    BY <1>a, <2>2 DEF EscrowType, Status, DisputedStatus
  <2> HIDE DEF y
  <2>4. QED
    BY <1>a, <2>1, <2>3, OneRecord
<1>4. CASE \/ \E toSeller \in BOOLEAN : ResolveDispute(c, f, toSeller)
           \/ ClaimInactivityRelease(c, f)
  <2>1. PICK st \in TerminalStatus : SetStatus(f, st)
    BY <1>4 DEF ResolveDispute, ClaimInactivityRelease, TerminalStatus
  <2>2. Exists(f) /\ UNCHANGED generation
    BY <1>4, <1>a DEF ResolveDispute, ClaimInactivityRelease, renewalVars
  <2>3. QED
    BY <1>a, <2>1, <2>2, StatusPlans
<1>5. CASE AcceptDeadlineExtension(c, f)
  <2> DEFINE y == [escrow[f] EXCEPT !.deadline = proposal[f].deadline]
  <2>1. /\ Exists(f) /\ UNCHANGED generation
        /\ escrow' = [escrow EXCEPT ![f] = y]
    BY <1>5 DEF AcceptDeadlineExtension, Extendable, renewalVars
  <2>2. proposal[f].deadline \in Nat
    BY <1>a DEF TypeInv, TypeOK, ProposalType
  <2>3. /\ y \in EscrowType /\ y.status = escrow[f].status
        /\ y.renewalCount = escrow[f].renewalCount
        /\ y.renewalsRemaining = escrow[f].renewalsRemaining
    BY <1>a, <2>2 DEF EscrowType
  <2> HIDE DEF y
  <2>4. QED
    BY <1>a, <2>1, <2>3, OneRecord DEF Exists
<1>6. ASSUME NEW b \in Heirs, TransferBuyerRole(c, f, b)
      PROVE  Plans
  <2> DEFINE y == [escrow[f] EXCEPT !.buyer = b]
  <2>1. /\ Exists(f) /\ UNCHANGED generation
        /\ escrow' = [escrow EXCEPT ![f] = y]
    BY <1>6 DEF TransferBuyerRole, renewalVars, Exists
  <2>2. /\ y \in EscrowType /\ y.status = escrow[f].status
        /\ y.renewalCount = escrow[f].renewalCount
        /\ y.renewalsRemaining = escrow[f].renewalsRemaining
    BY <1>a, EscrowConstants DEF EscrowType
  <2> HIDE DEF y
  <2>3. QED
    BY <1>a, <2>1, <2>2, OneRecord DEF Exists
<1>7. CASE CancelAutoRenew(c, f)
  <2> DEFINE y == [escrow[f] EXCEPT !.autoRenew = FALSE, !.renewalsRemaining = 0]
  <2>1. /\ Exists(f) /\ UNCHANGED generation
        /\ escrow' = [escrow EXCEPT ![f] = y]
    BY <1>7 DEF CancelAutoRenew
  <2>2. /\ y \in EscrowType /\ y.status = escrow[f].status
        /\ y.renewalCount = escrow[f].renewalCount
        /\ y.renewalsRemaining = 0
    BY <1>a DEF EscrowType
  <2> HIDE DEF y
  <2>3. QED
    BY <1>a, <2>1, <2>2, OneRecord DEF Exists
<1>8. CASE \/ SubmitEvidence(c, f) \/ UpdateMetadata(c, f)
           \/ \E d \in Deadline : ProposeDeadlineExtension(c, f, d)
           \/ \E n \in Allowance : SetRenewalAllowance(c, f, n)
  BY <1>8, <1>a, SameRecords DEF SubmitEvidence, UpdateMetadata,
     ProposeDeadlineExtension, SetRenewalAllowance, renewalVars
<1>9. QED
  BY <1>1, <1>2, <1>3, <1>4, <1>5, <1>6, <1>7, <1>8 DEF PartyStep

LEMMA StepPlans ==
    ASSUME MoneyInv, [Next]_vars
    PROVE  Plans
<1>a. /\ TypeInv /\ escrow \in [Ids -> EscrowType] /\ nextId \in Nat
      /\ \A i \in Ids : Exists(i) <=> i < nextId
  BY DEF MoneyInv, TypeInv, TypeOK, Allocated
<1>1. CASE \E a \in Admins : AdminStep(a)
  BY <1>1, <1>a, SameRecords DEF AdminStep, Initialize, PauseContract, ResumeContract,
     AddAllowedToken, RemoveAllowedToken, UpdateProtocolFee, renewalVars
<1>2. ASSUME NEW b \in Buyers, NEW t \in Terms, NEW d \in Deadline, CreateEscrow(b, t, d)
      PROVE  Plans
  <2> DEFINE x == NewEscrow(b, t, d)
  <2>1. /\ nextId \in Ids /\ UNCHANGED generation
        /\ escrow' = [escrow EXCEPT ![nextId] = x]
    BY <1>a, <1>2, EscrowConstants DEF CreateEscrow, OpenEscrow, Ids
  <2>2. x.status = "Active" /\ x.renewalsRemaining = x.renewalCount
    BY DEF NewEscrow
  <2> HIDE DEF x
  <2>3. PlanBegins(nextId)
    BY <1>a, <2>1, <2>2 DEF PlanBegins, Exists
  <2>4. \A e \in Ids \ {nextId} : PlanKept(e)
    BY <1>a, <2>1 DEF PlanKept, Exists, EscrowType
  <2>5. QED
    BY <2>3, <2>4 DEF Plans
<1>3. ASSUME NEW b \in Buyers, NEW t1 \in Terms, NEW t2 \in Terms,
             NEW d1 \in Deadline, NEW d2 \in Deadline,
             CreateEscrowsBatch(b, t1, d1, t2, d2)
      PROVE  Plans
  <2> DEFINE x1 == NewEscrow(b, [t1 EXCEPT !.window = 0], d1)
             x2 == NewEscrow(b, [t2 EXCEPT !.window = 0], d2)
  <2>1. /\ nextId \in Ids /\ nextId + 1 \in Ids /\ nextId # nextId + 1
        /\ ~Exists(nextId) /\ ~Exists(nextId + 1)
        /\ UNCHANGED generation
        /\ escrow' = [escrow EXCEPT ![nextId] = x1, ![nextId + 1] = x2]
    BY <1>a, <1>3, EscrowConstants DEF CreateEscrowsBatch, Ids
  <2>2. /\ x1.status = "Active" /\ x1.renewalsRemaining = x1.renewalCount
        /\ x2.status = "Active" /\ x2.renewalsRemaining = x2.renewalCount
    BY DEF NewEscrow
  <2> HIDE DEF x1, x2
  <2>3. PlanBegins(nextId) /\ PlanBegins(nextId + 1)
    BY <1>a, <2>1, <2>2 DEF PlanBegins, Exists
  <2>4. \A e \in Ids \ {nextId, nextId + 1} : PlanKept(e)
    BY <1>a, <2>1 DEF PlanKept, Exists, EscrowType
  <2>5. QED
    BY <2>3, <2>4 DEF Plans
<1>4. CASE \E c \in Address, f \in Ids : PartyStep(c, f)
  BY <1>4, PartyPlans
<1>5. ASSUME NEW f \in Ids, AutoReleaseExpired(f)
      PROVE  Plans
  <2>1. Exists(f) /\ UNCHANGED generation /\ SetStatus(f, "Refunded")
    BY <1>5, <1>a, StatusCases DEF AutoReleaseExpired, renewalVars, Live
  <2>2. QED
    BY <1>a, <2>1, StatusPlans DEF TerminalStatus
<1>6. CASE UNCHANGED vars \/ Tick \/ \E a \in Address, t \in Token : AllowanceLapses(a, t)
  BY <1>6, <1>a, SameRecords DEF Tick, AllowanceLapses, vars
<1>7. QED
  BY <1>1, <1>2, <1>3, <1>4, <1>5, <1>6 DEF Next, CreateStep

LEMMA PlanStep ==
    ASSUME MoneyInv, MoneyInv', PlanInv, Plans, Moves \/ UNCHANGED vars
    PROVE  PlanInv'
<1>a. /\ generation \in [Ids -> Nat] /\ generation' \in [Ids -> Nat]
      /\ escrow \in [Ids -> EscrowType] /\ escrow' \in [Ids -> EscrowType]
  BY DEF MoneyInv, TypeInv, TypeOK
<1>1. Plans
  OBVIOUS
<1>2. ASSUME NEW e \in Ids
      PROVE  /\ ~Exists(e)' => generation'[e] = 0
             /\ Exists(e)' => Within(escrow'[e], generation'[e])
  <2>1. /\ ~Exists(e) => generation[e] = 0
        /\ Exists(e) => Within(escrow[e], generation[e])
        /\ escrow[e] \in EscrowType /\ escrow'[e] \in EscrowType
        /\ generation[e] \in Nat
    BY <1>a DEF PlanInv
  <2>2. CASE PlanKept(e)
    BY <2>1, <2>2 DEF PlanKept, Within, Exists, EscrowType
  <2>3. CASE PlanBegins(e)
    BY <2>1, <2>3 DEF PlanBegins, Within, Exists, EscrowType
  <2>4. CASE PlanGoesOn(e)
    <3>1. PICK p \in Ids :
            /\ escrow'[e].status # "None" /\ Exists(p)
            /\ generation'[e] = generation[p] + 1
            /\ escrow'[e].renewalCount = escrow[p].renewalCount
            /\ escrow[p].renewalCount # 0 =>
                 escrow'[e].renewalsRemaining = escrow[p].renewalsRemaining - 1
      BY <2>4 DEF PlanGoesOn
    <3>2. /\ Within(escrow[p], generation[p]) /\ generation[p] \in Nat
          /\ escrow[p].renewalsRemaining \in Nat /\ escrow[p].renewalCount \in Nat
      BY <1>a, <3>1 DEF PlanInv, EscrowType
    <3>3. QED
      BY <3>1, <3>2 DEF Within, Exists
  <2>5. QED
    BY <1>1, <2>2, <2>3, <2>4 DEF Plans
<1>3. ASSUME NEW e \in Ids, generation'[e] > 0
      PROVE  \E p \in Ids : Follows(e, p)'
  <2>1. CASE PlanGoesOn(e)
    <3>1. PICK p \in Ids :
            /\ p < e
            /\ generation'[p] = generation[p]
            /\ generation'[e] = generation[p] + 1
            /\ escrow'[p].status = "Released"
            /\ escrow'[p].amount = deposited'[e]
      BY <2>1 DEF PlanGoesOn
    <3>2. generation'[p] = generation'[e] - 1
      BY <1>a, <3>1
    <3>3. Follows(e, p)'
      BY <3>1, <3>2 DEF Follows
    <3>4. QED
      BY <3>3
  <2>2. CASE ~PlanGoesOn(e)
    <3>1. generation'[e] = generation[e] /\ Exists(e)
      BY <1>1, <1>3, <1>a, <2>2 DEF Plans, PlanKept, PlanBegins, PlanInv
    <3>2. PICK p \in Ids : Follows(e, p)
      BY <1>3, <3>1 DEF PlanInv
    <3>3. IsTerminal(p) /\ Exists(p)
      BY <3>2 DEF Follows, IsTerminal, TerminalStatus, Exists
    <3>4. generation'[p] = generation[p]
      BY <1>1, <3>3 DEF Plans, PlanKept, PlanBegins, PlanGoesOn
    <3>5. /\ escrow'[p].status = escrow[p].status
          /\ escrow'[p].amount = escrow[p].amount
          /\ deposited'[e] = deposited[e]
      <4>1. CASE UNCHANGED vars
        BY <4>1 DEF vars, fundVars
      <4>2. CASE Moves
        <5>2. e < nextId /\ p < nextId /\ ~Live(p)
          BY <3>1, <3>3, StatusCases DEF MoneyInv, Allocated
        <5>3. nextId \in Nat /\ e \in Nat /\ p \in Nat
          BY EscrowConstants DEF MoneyInv, TypeInv, TypeOK, Ids
        <5>4. ~New(e) /\ ~New(p)
          BY <5>2, <5>3 DEF New
        <5>5. QED
          BY <4>2, <5>2, <5>4 DEF Moves, Untouched, Reduced, Closed
      <4>3. QED
        BY <4>1, <4>2
    <3>6. Follows(e, p)'
      BY <3>1, <3>2, <3>4, <3>5 DEF Follows
    <3>7. QED
      BY <3>6
  <2>3. QED
    BY <2>1, <2>2
<1>4. QED
  BY <1>2, <1>3 DEF PlanInv

LEMMA PlansKept == PlanInv => RenewalPlanKept
BY DEF PlanInv, RenewalPlanKept, Within, Follows

LEMMA InitPlans == Init => PlanInv
<1> SUFFICES ASSUME Init PROVE PlanInv
  OBVIOUS
<1>1. \A e \in Ids : ~Exists(e) /\ generation[e] = 0
  BY DEF Init, Exists
<1>2. QED
  BY <1>1 DEF PlanInv

(* No renewal plan is overrun, for any plans and any sequence of approvals,  *)
(* releases and cancellations, and a renewal is as large as its predecessor. *)
THEOREM PlansAreKept == Spec => []RenewalPlanKept
<1>1. Init => PlanInv
  BY InitPlans
<1>2. MoneyInv /\ MoneyInv' /\ PlanInv /\ [Next]_vars => PlanInv'
  BY PlanStep, StepPlans, MoneyStep
<1>3. QED
  BY <1>1, <1>2, PlansKept, MoneyAlways, PTL DEF Spec

-----------------------------------------------------------------------------
(* Splits of a settlement *)

(* An escrow that is not settled has paid neither its buyer nor a fee.       *)
SplitInv ==
    \A e \in Ids :
        /\ ~IsTerminal(e) => received[e].buyer = 0 /\ received[e].fee = 0
        /\ received[e].buyer > 0 => escrow[e].status = "Refunded"
        /\ received[e].fee > 0 => dispute[e].resolved
        /\ received[e].fee * BasisPoints <= dispute[e].amount * MAX_PROTOCOL_FEE_BPS

(* What a step may do to the payments of an escrow.                          *)
SellersAtMost(e) ==
    /\ received'[e].buyer = received[e].buyer
    /\ received'[e].fee = received[e].fee
    /\ IsTerminal(e) => /\ escrow'[e].status = escrow[e].status
                        /\ dispute'[e] = dispute[e]

BuyerRefunded(e) ==
    /\ ~IsTerminal(e)
    /\ received'[e].fee = received[e].fee
    /\ escrow'[e].status = "Refunded"

Decided(e) ==
    /\ ~IsTerminal(e)
    /\ escrow'[e].status \in TerminalStatus
    /\ \/ received'[e].buyer = received[e].buyer
       \/ escrow'[e].status = "Refunded"
    /\ received'[e].fee = received[e].fee + ProtocolFee(escrow[e].amount)
    /\ dispute'[e].resolved
    /\ dispute'[e].amount = escrow[e].amount

Splits == \A e \in Ids : SellersAtMost(e) \/ BuyerRefunded(e) \/ Decided(e)

(* A payment out of one escrow that is not settled.                          *)
LEMMA OnePayment ==
    ASSUME TypeInv, NEW f \in Ids, NEW s \in Nat, NEW b \in Nat, NEW fee \in Nat,
           PayOut(f, s, b, fee)
    PROVE  /\ received'[f].buyer = received[f].buyer + b
           /\ received'[f].fee = received[f].fee + fee
           /\ \A e \in Ids \ {f} : received'[e] = received[e]
BY DEF PayOut, Receive, TypeInv, TypeOK, ReceivedType

LEMMA SellersPaid ==
    ASSUME TypeInv, NEW f \in Ids, ~IsTerminal(f), NEW s \in Nat, PayOut(f, s, 0, 0),
           \A e \in Ids \ {f} : escrow'[e] = escrow[e] /\ dispute'[e] = dispute[e]
    PROVE  Splits
<1>1. /\ received[f].buyer \in Nat /\ received[f].fee \in Nat
  BY DEF TypeInv, TypeOK, ReceivedType
<1>2. /\ received'[f].buyer = received[f].buyer
      /\ received'[f].fee = received[f].fee
      /\ \A e \in Ids \ {f} : received'[e] = received[e]
  BY <1>1, OnePayment
<1>3. QED
  BY <1>2 DEF Splits, SellersAtMost

(* Calls that pay nobody and leave settled escrows as they are.              *)
LEMMA NobodyPaid ==
    ASSUME UNCHANGED <<dispute, received>>,
           \A e \in Ids : IsTerminal(e) => escrow'[e].status = escrow[e].status
    PROVE  Splits
BY DEF Splits, SellersAtMost

LEMMA PartySplits ==
    ASSUME MoneyInv, DisputeRecordAgrees, NEW c \in Address, NEW f \in Ids,
           PartyStep(c, f), Moves
    PROVE  Splits
<1>a. /\ TypeInv /\ escrow \in [Ids -> EscrowType] /\ escrow[f].amount \in Nat
      /\ dispute \in [Ids -> DisputeType]
      /\ feeBps \in 0 .. MAX_PROTOCOL_FEE_BPS
      /\ IsOpen(f) \/ IsDisputed(f) => ~IsTerminal(f)
      /\ received[f].buyer \in Nat /\ received[f].fee \in Nat
  BY StatusCases DEF MoneyInv, TypeInv, TypeOK, Live, ReceivedType
<1>b. IsOpen(f) => ReleaseOutflow(escrow[f].sellers, escrow[f].amount) = escrow[f].amount
  BY <1>a, ReleasePaysAll, StatusCases DEF TypeInv, TypeOK, SellersValid, EscrowType, Live
<1>c. \A e \in Ids : IsTerminal(e) =>
          /\ escrow'[e].status = escrow[e].status
          /\ received'[e] = received[e]
  <2> SUFFICES ASSUME NEW e \in Ids, IsTerminal(e)
               PROVE  Untouched(e)
    BY DEF Untouched
  <2>1. e < nextId /\ ~Live(e)
    BY <1>a, StatusCases DEF MoneyInv, Allocated
  <2>2. e \in Nat /\ nextId \in Nat
    BY EscrowConstants DEF MoneyInv, TypeInv, TypeOK, Ids
  <2>3. QED
    BY <2>1, <2>2 DEF Moves, New, Reduced, Closed
<1>1. CASE ReleaseEscrow(c, f)
  <2>1. /\ ~IsTerminal(f) /\ UNCHANGED dispute
        /\ Receive(f, escrow[f].amount, 0, 0)
    BY <1>1, <1>a, <1>b
       DEF ReleaseEscrow, ReleaseOnly, ReleaseAndRenew, PayOut, sideVars
  <2>2. /\ received'[f].buyer = received[f].buyer
        /\ received'[f].fee = received[f].fee
        /\ \A e \in Ids \ {f} : received'[e] = received[e]
    BY <1>a, <2>1 DEF Receive, TypeInv, TypeOK, ReceivedType
  <2>3. QED
    BY <1>c, <2>1, <2>2 DEF Splits, SellersAtMost
<1>2. ASSUME NEW x \in Portion, PartialRelease(c, f, x)
      PROVE  Splits
  <2>1. /\ ~IsTerminal(f) /\ x \in Nat /\ PayOut(f, x, 0, 0)
        /\ UNCHANGED dispute
    BY <1>2, <1>a, EscrowConstants DEF PartialRelease, sideVars
  <2>2. \A e \in Ids \ {f} : escrow'[e] = escrow[e]
    BY <1>2, <1>a DEF PartialRelease
  <2>3. QED
    BY <1>a, <2>1, <2>2, SellersPaid
<1>3. ASSUME NEW x \in Portion, DisputeEscrow(c, f, x)
      PROVE  Splits
  <2>1. /\ ~IsTerminal(f) /\ x \in Nat /\ x <= escrow[f].amount
        /\ PayOut(f, escrow[f].amount - x, 0, 0)
    BY <1>3, <1>a, EscrowConstants DEF DisputeEscrow
  <2>2. \A e \in Ids \ {f} : escrow'[e] = escrow[e] /\ dispute'[e] = dispute[e]
    BY <1>3, <1>a DEF DisputeEscrow
  <2>3. escrow[f].amount - x \in Nat
    BY <1>a, <2>1
  <2>4. QED
    BY <1>a, <2>1, <2>2, <2>3, SellersPaid
<1>4. ASSUME NEW toSeller \in BOOLEAN, ResolveDispute(c, f, toSeller)
      PROVE  Splits
  <2> DEFINE fee == ProtocolFee(escrow[f].amount)
             rest == escrow[f].amount - fee
  <2>1. fee \in Nat /\ rest \in Nat
    BY <1>a, FeeWithinAmount
  <2>2. /\ \/ PayOut(f, rest, 0, fee) /\ SetStatus(f, "Released")
           \/ PayOut(f, 0, rest, fee) /\ SetStatus(f, "Refunded")
        /\ IsDisputed(f) /\ MarkResolved(f)
    BY <1>4 DEF ResolveDispute
  <2>f. fee = ProtocolFee(escrow[f].amount)
    OBVIOUS
  <2> HIDE DEF fee, rest
  <2>3. dispute[f].raised /\ dispute[f].amount = escrow[f].amount
    BY <2>2 DEF DisputeRecordAgrees
  <2>4. dispute' = [dispute EXCEPT ![f].resolved = TRUE]
    BY <2>2, <2>3 DEF MarkResolved
  <2>5. /\ dispute'[f].resolved /\ dispute'[f].amount = escrow[f].amount
        /\ \A e \in Ids \ {f} : dispute'[e] = dispute[e]
    BY <1>a, <2>3, <2>4 DEF DisputeType
  <2>6. /\ received'[f].fee = received[f].fee + fee
        /\ \/ /\ received'[f].buyer = received[f].buyer
              /\ escrow'[f].status = "Released"
           \/ escrow'[f].status = "Refunded"
        /\ \A e \in Ids \ {f} : received'[e] = received[e] /\ escrow'[e] = escrow[e]
    <3>1. CASE PayOut(f, rest, 0, fee) /\ SetStatus(f, "Released")
      <4>1. /\ received'[f].buyer = received[f].buyer + 0
            /\ received'[f].fee = received[f].fee + fee
            /\ \A e \in Ids \ {f} : received'[e] = received[e]
        BY <1>a, <2>1, <3>1, OnePayment
      <4>2. /\ escrow'[f].status = "Released"
            /\ \A e \in Ids \ {f} : escrow'[e] = escrow[e]
        BY <1>a, <3>1, SetStatusEffect
      <4>3. QED
        BY <1>a, <4>1, <4>2
    <3>2. CASE PayOut(f, 0, rest, fee) /\ SetStatus(f, "Refunded")
      <4>1. /\ received'[f].fee = received[f].fee + fee
            /\ \A e \in Ids \ {f} : received'[e] = received[e]
        BY <1>a, <2>1, <3>2, OnePayment
      <4>2. /\ escrow'[f].status = "Refunded"
            /\ \A e \in Ids \ {f} : escrow'[e] = escrow[e]
        BY <1>a, <3>2, SetStatusEffect
      <4>3. QED
        BY <4>1, <4>2
    <3>3. QED
      BY <2>2, <3>1, <3>2
  <2>7. Decided(f)
    BY <1>a, <2>2, <2>f, <2>5, <2>6 DEF Decided, TerminalStatus
  <2>8. \A e \in Ids \ {f} : SellersAtMost(e)
    BY <2>5, <2>6 DEF SellersAtMost
  <2>9. QED
    BY <2>7, <2>8 DEF Splits
<1>5. CASE ClaimInactivityRelease(c, f)
  <2>1. /\ ~IsTerminal(f) /\ PayOut(f, escrow[f].amount, 0, 0)
        /\ UNCHANGED dispute /\ SetStatus(f, "Released")
    BY <1>5, <1>a DEF ClaimInactivityRelease, sideVars
  <2>2. QED
    BY <1>a, <2>1, SellersPaid, SetStatusEffect
<1>6. CASE \/ SubmitEvidence(c, f) \/ UpdateMetadata(c, f)
           \/ \E d \in Deadline : ProposeDeadlineExtension(c, f, d)
           \/ AcceptDeadlineExtension(c, f)
           \/ \E b \in Heirs : TransferBuyerRole(c, f, b)
           \/ \E n \in Allowance : SetRenewalAllowance(c, f, n)
           \/ CancelAutoRenew(c, f)
  <2>1. UNCHANGED <<dispute, received>>
    BY <1>6 DEF SubmitEvidence, UpdateMetadata, ProposeDeadlineExtension,
       AcceptDeadlineExtension, TransferBuyerRole, SetRenewalAllowance,
       CancelAutoRenew, sideVars, fundVars
  <2>2. QED
    BY <1>c, <2>1, NobodyPaid
<1>7. QED
  BY <1>1, <1>2, <1>3, <1>4, <1>5, <1>6 DEF PartyStep

LEMMA StepSplits ==
    ASSUME MoneyInv, DisputeRecordAgrees, [Next]_vars
    PROVE  Splits
<1>a. TypeInv /\ escrow \in [Ids -> EscrowType] /\ nextId \in Nat
  BY DEF MoneyInv, TypeInv, TypeOK
<1>1. CASE Next /\ \E c \in Address, f \in Ids : PartyStep(c, f)
  BY <1>1, PartySplits, MoneyStep
<1>2. ASSUME NEW f \in Ids, AutoReleaseExpired(f)
      PROVE  Splits
  <2>1. /\ IsOpen(f) /\ PayOut(f, 0, escrow[f].amount, 0)
        /\ UNCHANGED dispute /\ SetStatus(f, "Refunded")
    BY <1>2 DEF AutoReleaseExpired, sideVars
  <2>2. /\ ~IsTerminal(f) /\ escrow[f].amount \in Nat
        /\ received[f].fee \in Nat
    BY <1>a, <2>1, StatusCases DEF Live, TypeInv, TypeOK, ReceivedType
  <2>3. /\ received'[f].fee = received[f].fee
        /\ escrow'[f].status = "Refunded"
        /\ \A e \in Ids \ {f} : received'[e] = received[e] /\ escrow'[e] = escrow[e]
    BY <1>a, <2>1, <2>2, OnePayment, SetStatusEffect
  <2>4. QED
    BY <2>1, <2>2, <2>3 DEF Splits, SellersAtMost, BuyerRefunded
<1>3. ASSUME NEW b \in Buyers, CreateStep(b)
      PROVE  Splits
  <2>1. UNCHANGED <<dispute, received>>
    BY <1>3 DEF CreateStep, CreateEscrow, OpenEscrow, CreateEscrowsBatch, sideVars
  <2>2. \A e \in Ids : e < nextId => escrow'[e] = escrow[e]
    <3>1. ASSUME NEW e \in Ids, e < nextId
          PROVE  e # nextId /\ e # nextId + 1
      BY <3>1, <1>a, EscrowConstants DEF Ids
    <3>2. QED
      BY <1>3, <1>a, <3>1 DEF CreateStep, CreateEscrow, OpenEscrow, CreateEscrowsBatch
  <2>3. \A e \in Ids : IsTerminal(e) => escrow'[e].status = escrow[e].status
    BY <1>a, <2>2, StatusCases DEF MoneyInv, Allocated
  <2>4. QED
    BY <2>1, <2>3, NobodyPaid
<1>4. CASE \/ \E a \in Admins : AdminStep(a)
           \/ UNCHANGED vars
           \/ Tick
           \/ \E a \in Address, t \in Token : AllowanceLapses(a, t)
  <2>1. UNCHANGED <<escrow, dispute, received>>
    BY <1>4 DEF AdminStep, Initialize, PauseContract, ResumeContract,
       AddAllowedToken, RemoveAllowedToken, UpdateProtocolFee, Tick,
       AllowanceLapses, vars, sideVars, fundVars
  <2>2. QED
    BY <2>1, NobodyPaid
<1>5. QED
  BY <1>1, <1>2, <1>3, <1>4 DEF Next

LEMMA SplitStep ==
    ASSUME MoneyInv, MoneyInv', SplitInv, Splits
    PROVE  SplitInv'
<1> SUFFICES ASSUME NEW e \in Ids
             PROVE  /\ ~IsTerminal(e)' => received'[e].buyer = 0 /\ received'[e].fee = 0
                    /\ received'[e].buyer > 0 => escrow'[e].status = "Refunded"
                    /\ received'[e].fee > 0 => dispute'[e].resolved
                    /\ received'[e].fee * BasisPoints
                         <= dispute'[e].amount * MAX_PROTOCOL_FEE_BPS
  BY DEF SplitInv
<1>1. SellersAtMost(e) \/ BuyerRefunded(e) \/ Decided(e)
  BY DEF Splits
<1>2. /\ ~IsTerminal(e) => received[e].buyer = 0 /\ received[e].fee = 0
      /\ received[e].buyer > 0 => escrow[e].status = "Refunded"
      /\ received[e].fee > 0 => dispute[e].resolved
      /\ received[e].fee * BasisPoints <= dispute[e].amount * MAX_PROTOCOL_FEE_BPS
  BY DEF SplitInv
<1>3. /\ dispute'[e].amount \in Nat /\ escrow[e].amount \in Nat
      /\ feeBps \in 0 .. MAX_PROTOCOL_FEE_BPS
  BY DEF MoneyInv, TypeInv, TypeOK, DisputeType, EscrowType
<1>4. 0 * BasisPoints <= dispute'[e].amount * MAX_PROTOCOL_FEE_BPS
  BY <1>3 DEF BasisPoints, MAX_PROTOCOL_FEE_BPS
<1>5. CASE SellersAtMost(e)
  <2>1. CASE IsTerminal(e)
    BY <1>2, <1>5, <2>1 DEF SellersAtMost, IsTerminal
  <2>2. CASE ~IsTerminal(e)
    BY <1>2, <1>4, <1>5, <2>2 DEF SellersAtMost
  <2>3. QED
    BY <2>1, <2>2
<1>6. CASE BuyerRefunded(e)
  BY <1>2, <1>4, <1>6 DEF BuyerRefunded, IsTerminal, TerminalStatus
<1>7. CASE Decided(e)
  <2> DEFINE fee == ProtocolFee(escrow[e].amount)
  <2>1. fee \in Nat /\ fee * BasisPoints <= escrow[e].amount * MAX_PROTOCOL_FEE_BPS
    BY <1>3, FeeWithinAmount
  <2>2. received'[e].fee = fee
    BY <1>2, <1>7, <2>1 DEF Decided
  <2> HIDE DEF fee
  <2>3. QED
    BY <1>2, <1>7, <2>1, <2>2 DEF Decided, IsTerminal
<1>8. QED
  BY <1>1, <1>5, <1>6, <1>7

LEMMA InitSplits == Init => SplitInv
<1> SUFFICES ASSUME Init, NEW e \in Ids
             PROVE  /\ received[e].buyer = 0 /\ received[e].fee = 0
                    /\ dispute[e].amount = 0
  BY DEF SplitInv, BasisPoints, MAX_PROTOCOL_FEE_BPS
<1>1. QED
  BY DEF Init, NothingReceived, NoDispute

LEMMA SplitIsFair ==
    ASSUME MoneyInv, SplitInv
    PROVE  SettlementSplit
<1> SUFFICES ASSUME NEW e \in Ids, escrow[e].status = "Released"
             PROVE  received[e].sellers + received[e].fee = deposited[e]
  BY DEF SplitInv, SettlementSplit
<1>1. received[e].buyer = 0
  <2>1. received[e].buyer \in Nat
    BY DEF MoneyInv, TypeInv, TypeOK, ReceivedType
  <2>2. received[e].buyer > 0 => escrow[e].status = "Refunded"
    BY DEF SplitInv
  <2>3. QED
    BY <2>1, <2>2
<1>2. Held(e) = 0
  BY DEF Held, IsOpen, IsDisputed, OpenStatus, DisputedStatus
<1>3. /\ deposited[e] = received[e].sellers + received[e].buyer + received[e].fee + Held(e)
      /\ received[e].sellers \in Nat /\ received[e].fee \in Nat
  BY DEF MoneyInv, Conservation, PaidOut, TypeInv, TypeOK, ReceivedType
<1>4. QED
  BY <1>1, <1>2, <1>3

(* Buyers are paid by refunds only, a release leaves all but the fee with    *)
(* the sellers, and the fee stays within 2% of what was disputed, after any  *)
(* sequence of calls and changes of the fee.                                 *)
THEOREM SplitsAreFair == Spec => []SettlementSplit
<1>1. Init => SplitInv
  BY InitSplits
<1>2. MoneyInv /\ MoneyInv' /\ DisputeRecordAgrees /\ SplitInv /\ [Next]_vars => SplitInv'
  BY SplitStep, StepSplits
<1>3. QED
  BY <1>1, <1>2, SplitIsFair, MoneyAlways, DisputesAreRecorded, PTL DEF Spec

-----------------------------------------------------------------------------
(* Solvency *)

(* What an escrow has at stake in a token. *)
Stake(e, t) == IF escrow[e].token = t THEN Held(e) ELSE 0
Stakes(t) == [e \in Ids |-> Stake(e, t)]
Backed(t) == balance[t] = SumFunctionOnSet(Stakes(t), Ids)

(* There are finitely many identifiers. *)
LEMMA IdsFinite == IsFiniteSet(Ids)
BY EscrowConstants, FS_Interval DEF Ids

(* A stake is a natural number. *)
LEMMA StakeType ==
    ASSUME TypeInv, NEW t \in Token
    PROVE  \A e \in Ids : Stake(e, t) \in Nat /\ Held(e) \in Nat
BY DEF TypeInv, TypeOK, EscrowType, Stake, Held

(* Summed over all escrows, the stakes in a token are what Solvency sums. *)
LEMMA BackedIsSolvent ==
    ASSUME TypeInv, NEW t \in Token
    PROVE  SumFunctionOnSet(Stakes(t), Ids)
             = SumFunctionOnSet([e \in Ids |-> Held(e)],
                                {e \in Ids : escrow[e].token = t})
<1> DEFINE f == Stakes(t)
           g == [e \in Ids |-> Held(e)]
           T == {e \in Ids : escrow[e].token = t}
<1>1. \A e \in T : f[e] = g[e] /\ g[e] \in Int
    BY StakeType DEF Stakes, Stake
<1>2. \A e \in Ids \ T : f[e] = 0
    BY DEF Stakes, Stake
<1>3. T \subseteq Ids
    OBVIOUS
<1> HIDE DEF f, g, T
<1>4. SumFunctionOnSet(f, Ids) = SumFunctionOnSet(g, T)
    BY <1>1, <1>2, <1>3, IdsFinite, SumPart
<1>5. QED
    BY <1>4 DEF f, g, T

(* A balance stays backed when it changes as the stakes of some escrows do
   and the others keep theirs. *)
LEMMA BackedThrough ==
    ASSUME TypeInv, TypeInv', NEW t \in Token, Backed(t), NEW A, A \subseteq Ids,
           \A e \in Ids \ A : Stake(e, t)' = Stake(e, t),
           balance'[t] - balance[t]
             = SumFunctionOnSet(Stakes(t)', A) - SumFunctionOnSet(Stakes(t), A)
    PROVE  Backed(t)'
<1> DEFINE f == Stakes(t)
           g == Stakes(t)'
<1>1. \A e \in Ids : f[e] \in Int /\ g[e] \in Int
    <2>1. \A e \in Ids : Stake(e, t) \in Nat
        BY StakeType
    <2>2. \A e \in Ids : Stake(e, t)' \in Nat
        BY DEF TypeInv, TypeOK, EscrowType, Stake, Held
    <2>3. QED
        BY <2>1, <2>2 DEF Stakes
<1>2. \A e \in Ids \ A : g[e] = f[e]
    BY DEF Stakes
<1>3. balance[t] \in Int /\ balance'[t] \in Int
    BY DEF TypeInv, TypeOK
<1>4. balance[t] = SumFunctionOnSet(f, Ids)
    BY DEF Backed
<1>5. balance'[t] - balance[t] = SumFunctionOnSet(g, A) - SumFunctionOnSet(f, A)
    OBVIOUS
<1> HIDE DEF f, g
<1>6. /\ SumFunctionOnSet(f, Ids) \in Int /\ SumFunctionOnSet(g, Ids) \in Int
      /\ SumFunctionOnSet(g, Ids) - SumFunctionOnSet(f, Ids)
           = SumFunctionOnSet(g, A) - SumFunctionOnSet(f, A)
    BY <1>1, <1>2, IdsFinite, SumDiffer
<1>7. balance'[t] = SumFunctionOnSet(g, Ids)
    BY <1>3, <1>4, <1>5, <1>6
<1>8. QED
    BY <1>7 DEF Backed, g

(* The token of an escrow is fixed when it is opened. *)
TokensKept == \A e \in Ids : Exists(e) => escrow'[e].token = escrow[e].token

(* No call changes it. *)
LEMMA TokenKept ==
    ASSUME MoneyInv, Next
    PROVE  TokensKept
<1>a. /\ escrow \in [Ids -> EscrowType]
      /\ nextId \in Nat /\ nextId + 1 \in Nat
      /\ \A e \in Ids : e \in Nat /\ (Exists(e) => e < nextId)
  BY EscrowConstants DEF MoneyInv, TypeInv, TypeOK, Allocated, Ids
<1>1. CASE UNCHANGED escrow
  BY <1>1 DEF TokensKept
<1>2. CASE \E e \in Ids, st \in Status : SetStatus(e, st)
  BY <1>a, <1>2 DEF SetStatus, TokensKept, EscrowType
<1>3. ASSUME NEW b, NEW t, NEW d, OpenEscrow(b, t, d)
      PROVE  TokensKept
  BY <1>a, <1>3 DEF OpenEscrow, TokensKept
<1>4. ASSUME NEW b, NEW t1, NEW t2, NEW d1, NEW d2,
             CreateEscrowsBatch(b, t1, d1, t2, d2)
      PROVE  TokensKept
  BY <1>a, <1>4 DEF CreateEscrowsBatch, TokensKept
<1>5. ASSUME NEW c, NEW e \in Ids, ReleaseAndRenew(c, e)
      PROVE  TokensKept
  <2>1. escrow' = [escrow EXCEPT ![e].status = "Released", ![nextId] = Renewed(e)]
    BY <1>5 DEF ReleaseAndRenew
  <2>2. \A d \in Ids : d # nextId => escrow'[d].token = escrow[d].token
    BY <1>a, <2>1 DEF EscrowType
  <2>3. QED
    BY <1>a, <2>2 DEF TokensKept
<1>6. ASSUME NEW c, NEW e \in Ids, NEW x, PartialRelease(c, e, x) \/ DisputeEscrow(c, e, x)
      PROVE  TokensKept
  BY <1>a, <1>6 DEF PartialRelease, DisputeEscrow, TokensKept, EscrowType
<1>7. ASSUME NEW c, NEW e \in Ids,
             \/ AcceptDeadlineExtension(c, e)
             \/ \E b \in Heirs : TransferBuyerRole(c, e, b)
             \/ CancelAutoRenew(c, e)
      PROVE  TokensKept
  BY <1>a, <1>7 DEF AcceptDeadlineExtension, TransferBuyerRole, CancelAutoRenew,
     TokensKept, EscrowType
<1>8. ASSUME NEW a, AdminStep(a)
      PROVE  TokensKept
  BY <1>1, <1>8 DEF AdminStep, Initialize, PauseContract, ResumeContract,
     AddAllowedToken, RemoveAllowedToken, UpdateProtocolFee
<1>9. ASSUME NEW b, CreateStep(b)
      PROVE  TokensKept
  BY <1>3, <1>4, <1>9 DEF CreateStep, CreateEscrow
<1>10. ASSUME NEW c \in Address, NEW e \in Ids, PartyStep(c, e)
       PROVE  TokensKept
  <2>1. CASE ReleaseEscrow(c, e)
    BY <1>2, <1>5, <2>1 DEF ReleaseEscrow, ReleaseOnly, Status, TerminalStatus
  <2>2. CASE \E x \in Portion : PartialRelease(c, e, x) \/ DisputeEscrow(c, e, x)
    BY <1>6, <2>2
  <2>3. CASE \E toSeller \in BOOLEAN : ResolveDispute(c, e, toSeller)
    BY <1>2, <2>3 DEF ResolveDispute, Status, TerminalStatus
  <2>4. CASE ClaimInactivityRelease(c, e)
    BY <1>2, <2>4 DEF ClaimInactivityRelease, Status, TerminalStatus
  <2>5. CASE \/ SubmitEvidence(c, e)
             \/ \E d \in Deadline : ProposeDeadlineExtension(c, e, d)
             \/ UpdateMetadata(c, e)
             \/ \E n \in Allowance : SetRenewalAllowance(c, e, n)
    BY <1>1, <2>5 DEF SubmitEvidence, ProposeDeadlineExtension, UpdateMetadata,
       SetRenewalAllowance
  <2>6. QED
    BY <1>7, <1>10, <2>1, <2>2, <2>3, <2>4, <2>5 DEF PartyStep
<1>11. ASSUME NEW e \in Ids, AutoReleaseExpired(e)
       PROVE  TokensKept
  BY <1>2, <1>11 DEF AutoReleaseExpired, Status, TerminalStatus
<1>12. QED
  BY <1>1, <1>8, <1>9, <1>10, <1>11 DEF Next, Tick, AllowanceLapses

(* How the money of one call moves. *)
Pays ==
    \E e \in Ids, s \in Nat, b \in Nat, f \in Nat : PayOut(e, s, b, f)

Opens ==
    \E e \in Ids, n \in Nat, t \in Token :
        /\ ~Exists(e) /\ escrow'[e].token = t
        /\ deposited' = [deposited EXCEPT ![e] = n]
        /\ received' = received
        /\ balance' = [balance EXCEPT ![t] = @ + n]

OpensBoth(a, b, m, n) ==
    /\ a # b /\ ~Exists(a) /\ ~Exists(b)
    /\ escrow'[a].token \in Token /\ escrow'[b].token \in Token
    /\ deposited' = [deposited EXCEPT ![a] = m, ![b] = n]
    /\ received' = received
    /\ balance' = [t \in Token |->
                     balance[t] + (IF escrow'[a].token = t THEN m ELSE 0)
                                + (IF escrow'[b].token = t THEN n ELSE 0)]

OpensTwo == \E a \in Ids, b \in Ids, m \in Nat, n \in Nat : OpensBoth(a, b, m, n)

Renews ==
    \E e \in Ids, d \in Ids, m \in Nat, n \in Nat :
        /\ Exists(e) /\ ~Exists(d)
        /\ escrow'[d].token = escrow[e].token
        /\ Receive(e, m, 0, 0)
        /\ deposited' = [deposited EXCEPT ![d] = n]
        /\ balance' = [balance EXCEPT ![escrow[e].token] = @ - m + n]

Flows == UNCHANGED fundVars \/ Pays \/ Opens \/ OpensTwo \/ Renews

(* By conservation the stake is what came in less what went out. *)
LEMMA StakeIs ==
    ASSUME MoneyInv, NEW t \in Token, NEW e \in Ids
    PROVE  /\ Held(e) = deposited[e] - PaidOut(e)
           /\ Held(e) \in Nat /\ Stake(e, t) \in Nat
           /\ deposited[e] \in Nat /\ PaidOut(e) \in Nat
           /\ ~Exists(e) => deposited[e] = 0 /\ PaidOut(e) = 0 /\ Stake(e, t) = 0
<1>1. /\ deposited[e] \in Nat /\ PaidOut(e) \in Nat
      /\ Held(e) \in Nat /\ Stake(e, t) \in Nat
    BY StakeType, StatusCases DEF MoneyInv
<1>2. Held(e) = deposited[e] - PaidOut(e)
    BY <1>1 DEF MoneyInv, Conservation
<1>3. ~Exists(e) => deposited[e] = 0 /\ PaidOut(e) = 0
    BY DEF MoneyInv, Allocated, NothingReceived, PaidOut
<1>4. QED
    BY <1>1, <1>2, <1>3 DEF Stake

(* The same after the step. *)
LEMMA StakeIsNext ==
    ASSUME MoneyInv', NEW t \in Token, NEW e \in Ids
    PROVE  /\ Held(e)' = deposited'[e] - PaidOut(e)'
           /\ Held(e)' \in Nat /\ Stake(e, t)' \in Nat
           /\ deposited'[e] \in Nat /\ PaidOut(e)' \in Nat
<1>1. /\ deposited'[e] \in Nat /\ PaidOut(e)' \in Nat
      /\ Held(e)' \in Nat /\ Stake(e, t)' \in Nat
    BY DEF MoneyInv, TypeInv, TypeOK, EscrowType, ReceivedType, Stake, Held, PaidOut
<1>2. Held(e)' = deposited'[e] - PaidOut(e)'
    BY <1>1 DEF MoneyInv, Conservation
<1>3. QED
    BY <1>1, <1>2

(* An escrow whose money does not move keeps its stake. *)
LEMMA StakeStays ==
    ASSUME MoneyInv, MoneyInv', TokensKept, NEW t \in Token, NEW d \in Ids,
           deposited'[d] = deposited[d], received'[d] = received[d]
    PROVE  Stake(d, t)' = Stake(d, t)
<1>1. PaidOut(d)' = PaidOut(d)
    BY DEF PaidOut
<1>2. Held(d)' = Held(d)
    BY <1>1, StakeIs, StakeIsNext
<1>3. CASE Exists(d)
    BY <1>2, <1>3 DEF Stake, TokensKept
<1>4. CASE ~Exists(d)
    <2>1. Held(d) = 0
        BY <1>4, StakeIs
    <2>2. QED
        BY <1>2, <2>1 DEF Stake
<1>5. QED
    BY <1>3, <1>4

(* The money of one escrow only moves, or of two. *)
LEMMA OneBacked ==
    ASSUME MoneyInv, MoneyInv', TokensKept, NEW t \in Token, Backed(t),
           NEW e \in Ids,
           \A d \in Ids \ {e} : /\ deposited'[d] = deposited[d]
                                /\ received'[d] = received[d],
           balance'[t] - balance[t] = Stake(e, t)' - Stake(e, t)
    PROVE  Backed(t)'
<1>1. \A d \in Ids \ {e} : Stake(d, t)' = Stake(d, t)
    BY StakeStays
<1>2. Stakes(t)[e] = Stake(e, t) /\ Stakes(t)'[e] = Stake(e, t)'
    BY DEF Stakes
<1>3. Stake(e, t) \in Int /\ Stake(e, t)' \in Int
    BY StakeIs, StakeIsNext
<1>4. /\ SumFunctionOnSet(Stakes(t), {e}) = Stake(e, t)
      /\ SumFunctionOnSet(Stakes(t)', {e}) = Stake(e, t)'
    BY <1>2, <1>3, SumOne
<1>5. {e} \subseteq Ids /\ TypeInv /\ TypeInv'
    BY DEF MoneyInv
<1>6. QED
    BY <1>1, <1>4, <1>5, BackedThrough

LEMMA TwoBacked ==
    ASSUME MoneyInv, MoneyInv', TokensKept, NEW t \in Token, Backed(t),
           NEW a \in Ids, NEW b \in Ids, a # b,
           \A d \in Ids \ {a, b} : /\ deposited'[d] = deposited[d]
                                   /\ received'[d] = received[d],
           balance'[t] - balance[t]
             = (Stake(a, t)' - Stake(a, t)) + (Stake(b, t)' - Stake(b, t))
    PROVE  Backed(t)'
<1>1. \A d \in Ids \ {a, b} : Stake(d, t)' = Stake(d, t)
    BY StakeStays
<1>2. /\ Stakes(t)[a] = Stake(a, t) /\ Stakes(t)'[a] = Stake(a, t)'
      /\ Stakes(t)[b] = Stake(b, t) /\ Stakes(t)'[b] = Stake(b, t)'
    BY DEF Stakes
<1>3. /\ Stake(a, t) \in Int /\ Stake(a, t)' \in Int
      /\ Stake(b, t) \in Int /\ Stake(b, t)' \in Int
    BY StakeIs, StakeIsNext
<1>4. /\ SumFunctionOnSet(Stakes(t), {a, b}) = Stake(a, t) + Stake(b, t)
      /\ SumFunctionOnSet(Stakes(t)', {a, b}) = Stake(a, t)' + Stake(b, t)'
    <2>1. SumFunctionOnSet(Stakes(t), {a, b}) = Stakes(t)[a] + Stakes(t)[b]
        BY <1>2, <1>3, SumTwo
    <2>2. SumFunctionOnSet(Stakes(t)', {a, b}) = Stakes(t)'[a] + Stakes(t)'[b]
        BY <1>2, <1>3, SumTwo
    <2>3. QED
        BY <1>2, <2>1, <2>2
<1>5. {a, b} \subseteq Ids /\ TypeInv /\ TypeInv'
    BY DEF MoneyInv
<1>6. balance'[t] - balance[t]
        = SumFunctionOnSet(Stakes(t)', {a, b}) - SumFunctionOnSet(Stakes(t), {a, b})
    BY <1>3, <1>4
<1>7. QED
    BY <1>1, <1>5, <1>6, BackedThrough

(* A fresh escrow had no stake; what it takes in is its stake. *)
LEMMA FreshStake ==
    ASSUME MoneyInv, MoneyInv', NEW t \in Token, NEW e \in Ids, ~Exists(e),
           received'[e] = received[e]
    PROVE  Stake(e, t)' - Stake(e, t)
             = IF escrow'[e].token = t THEN deposited'[e] ELSE 0
<1>1. PaidOut(e)' = 0 /\ Stake(e, t) = 0
    BY StakeIs DEF PaidOut
<1>2. Held(e)' = deposited'[e] /\ deposited'[e] \in Nat
    BY <1>1, StakeIsNext
<1>3. QED
    BY <1>1, <1>2 DEF Stake

(* An escrow that pays out has so much less at stake. *)
LEMMA PaidStake ==
    ASSUME MoneyInv, MoneyInv', TokensKept, NEW t \in Token, NEW e \in Ids,
           NEW n \in Nat, deposited'[e] = deposited[e],
           PaidOut(e)' = PaidOut(e) + n
    PROVE  Stake(e, t)' - Stake(e, t) = IF escrow[e].token = t THEN -n ELSE 0
<1>1. Held(e)' = Held(e) - n /\ Held(e) \in Nat /\ Held(e)' \in Nat
    BY StakeIs, StakeIsNext
<1>2. CASE ~Exists(e)
    <2>1. Held(e) = 0
        BY <1>2, StakeIs
    <2>2. n = 0 /\ -n = 0 /\ Held(e)' = 0
        BY <1>1, <2>1
    <2>3. Stake(e, t) = 0 /\ Stake(e, t)' = 0
        BY <2>1, <2>2 DEF Stake
    <2>4. QED
        BY <2>2, <2>3
<1>3. CASE Exists(e)
    <2>1. escrow'[e].token = escrow[e].token
        BY <1>3 DEF TokensKept
    <2>2. CASE escrow[e].token = t
        <3>1. Stake(e, t) = Held(e) /\ Stake(e, t)' = Held(e)'
            BY <2>1, <2>2 DEF Stake
        <3>2. QED
            BY <1>1, <2>2, <3>1
    <2>3. CASE escrow[e].token # t
        BY <2>1, <2>3 DEF Stake
    <2>4. QED
        BY <2>2, <2>3
<1>4. QED
    BY <1>2, <1>3

(* Each way of moving money keeps the balance backed: a payment, *)
LEMMA PaysBacked ==
    ASSUME MoneyInv, MoneyInv', TokensKept, NEW t \in Token, Backed(t), Pays
    PROVE  Backed(t)'
<1>1. PICK e \in Ids, s \in Nat, b \in Nat, f \in Nat : PayOut(e, s, b, f)
    BY DEF Pays
<1>2. /\ balance' = [balance EXCEPT ![escrow[e].token] = @ - (s + b + f)]
      /\ deposited' = deposited
      /\ \A d \in Ids \ {e} : received'[d] = received[d]
      /\ PaidOut(e)' = PaidOut(e) + (s + b + f)
    BY <1>1 DEF PayOut, Receive, PaidOut, MoneyInv, TypeInv, TypeOK, ReceivedType
<1> DEFINE n == s + b + f
<1>3. n \in Nat
    OBVIOUS
<1>4. balance'[t] - balance[t] = IF escrow[e].token = t THEN -n ELSE 0
    BY <1>2 DEF MoneyInv, TypeInv, TypeOK, EscrowType
<1>5. Stake(e, t)' - Stake(e, t) = IF escrow[e].token = t THEN -n ELSE 0
    <2> HIDE DEF n
    <2>1. PaidOut(e)' = PaidOut(e) + n
        BY <1>2 DEF n
    <2>2. QED
        BY <1>2, <1>3, <2>1, PaidStake
<1>6. QED
    BY <1>2, <1>4, <1>5, OneBacked

(* one escrow opened, *)
LEMMA OpensBacked ==
    ASSUME MoneyInv, MoneyInv', TokensKept, NEW t \in Token, Backed(t), Opens
    PROVE  Backed(t)'
<1>1. PICK e \in Ids, n \in Nat, k \in Token :
        /\ ~Exists(e) /\ escrow'[e].token = k
        /\ deposited' = [deposited EXCEPT ![e] = n]
        /\ received' = received
        /\ balance' = [balance EXCEPT ![k] = @ + n]
    BY DEF Opens
<1>2. Stake(e, t)' - Stake(e, t) = IF k = t THEN n ELSE 0
    <2>1. deposited'[e] = n
        BY <1>1 DEF MoneyInv, TypeInv, TypeOK
    <2>2. QED
        BY <1>1, <2>1, FreshStake
<1>3. balance'[t] - balance[t] = IF k = t THEN n ELSE 0
    BY <1>1 DEF MoneyInv, TypeInv, TypeOK
<1>4. \A d \in Ids \ {e} : deposited'[d] = deposited[d] /\ received'[d] = received[d]
    BY <1>1 DEF MoneyInv, TypeInv, TypeOK
<1>5. QED
    BY <1>2, <1>3, <1>4, OneBacked

(* two escrows opened in one call, *)
LEMMA OpensTwoBacked ==
    ASSUME MoneyInv, MoneyInv', TokensKept, NEW t \in Token, Backed(t), OpensTwo
    PROVE  Backed(t)'
<1>1. PICK a \in Ids, b \in Ids, m \in Nat, n \in Nat :
        /\ a # b /\ ~Exists(a) /\ ~Exists(b)
        /\ escrow'[a].token \in Token /\ escrow'[b].token \in Token
        /\ deposited' = [deposited EXCEPT ![a] = m, ![b] = n]
        /\ received' = received
        /\ balance' = [k \in Token |->
                         balance[k] + (IF escrow'[a].token = k THEN m ELSE 0)
                                    + (IF escrow'[b].token = k THEN n ELSE 0)]
    BY DEF OpensTwo, OpensBoth
<1>2. /\ deposited'[a] = m /\ deposited'[b] = n
      /\ \A d \in Ids \ {a, b} : deposited'[d] = deposited[d] /\ received'[d] = received[d]
    BY <1>1 DEF MoneyInv, TypeInv, TypeOK
<1>3. /\ Stake(a, t)' - Stake(a, t) = IF escrow'[a].token = t THEN m ELSE 0
      /\ Stake(b, t)' - Stake(b, t) = IF escrow'[b].token = t THEN n ELSE 0
    BY <1>1, <1>2, FreshStake
<1>4. balance'[t] - balance[t] = (IF escrow'[a].token = t THEN m ELSE 0)
                               + (IF escrow'[b].token = t THEN n ELSE 0)
    <2> DEFINE x == IF escrow'[a].token = t THEN m ELSE 0
               y == IF escrow'[b].token = t THEN n ELSE 0
    <2>1. balance'[t] = balance[t] + x + y
        BY <1>1
    <2>2. balance[t] \in Int /\ x \in Nat /\ y \in Nat
        BY DEF MoneyInv, TypeInv, TypeOK
    <2> HIDE DEF x, y
    <2>3. balance'[t] - balance[t] = x + y
        BY <2>1, <2>2
    <2>4. QED
        BY <2>3 DEF x, y
<1>5. balance'[t] - balance[t]
        = (Stake(a, t)' - Stake(a, t)) + (Stake(b, t)' - Stake(b, t))
    BY <1>3, <1>4
<1>6. QED
    BY <1>1, <1>2, <1>5, TwoBacked

(* a payment and the escrow it renews, *)
LEMMA RenewsBacked ==
    ASSUME MoneyInv, MoneyInv', TokensKept, NEW t \in Token, Backed(t), Renews
    PROVE  Backed(t)'
<1>1. PICK e \in Ids, d \in Ids, m \in Nat, n \in Nat :
        /\ Exists(e) /\ ~Exists(d)
        /\ escrow'[d].token = escrow[e].token
        /\ Receive(e, m, 0, 0)
        /\ deposited' = [deposited EXCEPT ![d] = n]
        /\ balance' = [balance EXCEPT ![escrow[e].token] = @ - m + n]
    BY DEF Renews
<1>2. e # d
    BY <1>1
<1>3. /\ deposited'[d] = n /\ deposited'[e] = deposited[e]
      /\ received'[d] = received[d]
      /\ PaidOut(e)' = PaidOut(e) + m
      /\ \A k \in Ids \ {e, d} : deposited'[k] = deposited[k] /\ received'[k] = received[k]
    BY <1>1, <1>2 DEF Receive, PaidOut, MoneyInv, TypeInv, TypeOK, ReceivedType
<1>4. /\ Stake(e, t)' - Stake(e, t) = IF escrow[e].token = t THEN -m ELSE 0
      /\ Stake(d, t)' - Stake(d, t) = IF escrow[e].token = t THEN n ELSE 0
    BY <1>1, <1>3, FreshStake, PaidStake
<1>5. balance'[t] - balance[t] = IF escrow[e].token = t THEN n - m ELSE 0
    BY <1>1 DEF MoneyInv, TypeInv, TypeOK, EscrowType
<1>6. balance'[t] - balance[t]
        = (Stake(e, t)' - Stake(e, t)) + (Stake(d, t)' - Stake(d, t))
    BY <1>4, <1>5
<1>7. QED
    BY <1>2, <1>3, <1>6, TwoBacked

(* or none of these. *)
LEMMA FlowsBacked ==
    ASSUME MoneyInv, MoneyInv', TokensKept, Flows, NEW t \in Token, Backed(t)
    PROVE  Backed(t)'
<1>1. CASE UNCHANGED fundVars
    <2>1. \A d \in Ids \ {} : Stake(d, t)' = Stake(d, t)
        BY <1>1, StakeStays DEF fundVars
    <2>2. balance'[t] - balance[t] = 0
        BY <1>1 DEF fundVars, MoneyInv, TypeInv, TypeOK
    <2>3. /\ SumFunctionOnSet(Stakes(t), {}) = 0
          /\ SumFunctionOnSet(Stakes(t)', {}) = 0
        BY SumEmpty
    <2>4. {} \subseteq Ids /\ TypeInv /\ TypeInv'
        BY DEF MoneyInv
    <2>5. balance'[t] - balance[t]
            = SumFunctionOnSet(Stakes(t)', {}) - SumFunctionOnSet(Stakes(t), {})
        BY <2>2, <2>3
    <2>6. QED
        BY <2>1, <2>4, <2>5, BackedThrough
<1>2. QED
    BY <1>1, PaysBacked, OpensBacked, OpensTwoBacked, RenewsBacked DEF Flows

(* The money of every call moves in one of these ways. *)
LEMMA StepFlows ==
    ASSUME MoneyInv, Next
    PROVE  Flows
<1>a. /\ escrow \in [Ids -> EscrowType]
      /\ nextId \in Nat /\ nextId + 1 \in Nat
      /\ \A e \in Ids : e \in Nat /\ (Exists(e) <=> e < nextId)
      /\ \A e \in Ids : escrow[e].amount \in Nat /\ escrow[e].token \in Token
  <2>1. escrow \in [Ids -> EscrowType] /\ nextId \in 0 .. MaxEscrows
    BY DEF MoneyInv, TypeInv, TypeOK
  <2>2. \A e \in Ids : escrow[e].amount \in Nat /\ escrow[e].token \in Token
    BY <2>1 DEF EscrowType
  <2>3. \A e \in Ids : e \in Nat /\ (Exists(e) <=> e < nextId)
    BY EscrowConstants DEF MoneyInv, Allocated, Ids
  <2>4. QED
    BY <2>1, <2>2, <2>3, EscrowConstants
<1>b. ASSUME NEW e \in Ids, IsOpen(e)
      PROVE  ReleaseOutflow(escrow[e].sellers, escrow[e].amount) = escrow[e].amount
  <2>1. Exists(e)
    BY <1>b DEF IsOpen, OpenStatus, Exists
  <2>2. escrow[e].sellers \in SellerList /\ ValidSellers(escrow[e].sellers)
    BY <2>1 DEF MoneyInv, TypeInv, TypeOK, EscrowType, SellersValid
  <2>3. QED
    BY <1>a, <2>2, ReleasePaysAll
<1>1. ASSUME NEW e \in Ids, NEW s \in Nat, NEW b \in Nat, NEW f \in Nat,
             PayOut(e, s, b, f)
      PROVE  Flows
  BY <1>1 DEF Pays, Flows
<1>2. ASSUME NEW b, NEW t \in Terms, NEW d, t.amount > 0, OpenEscrow(b, t, d)
      PROVE  Flows
  <2>1. /\ nextId \in Ids /\ ~Exists(nextId)
        /\ deposited' = [deposited EXCEPT ![nextId] = t.amount]
        /\ received' = received
        /\ balance' = [balance EXCEPT ![t.token] = @ + t.amount]
        /\ escrow'[nextId].token = t.token
    BY <1>a, <1>2, EscrowConstants DEF OpenEscrow, NewEscrow, Ids
  <2>2. t.amount \in Nat /\ t.token \in Token
    BY <1>2, EscrowConstants DEF TermsType
  <2>3. Opens
    BY <2>1, <2>2 DEF Opens
  <2>4. QED
    BY <2>3 DEF Flows
<1>3. ASSUME NEW b, NEW t1 \in Terms, NEW t2 \in Terms, NEW d1, NEW d2,
             CreateEscrowsBatch(b, t1, d1, t2, d2)
      PROVE  Flows
  <2> DEFINE x1 == NewEscrow(b, [t1 EXCEPT !.window = 0], d1)
             x2 == NewEscrow(b, [t2 EXCEPT !.window = 0], d2)
  <2>1. /\ nextId + 1 < MaxEscrows
        /\ escrow' = [escrow EXCEPT ![nextId] = x1, ![nextId + 1] = x2]
        /\ deposited' = [deposited EXCEPT ![nextId] = t1.amount,
                                          ![nextId + 1] = t2.amount]
        /\ received' = received
        /\ balance' = [k \in Token |->
                         balance[k] + (IF t1.token = k THEN t1.amount ELSE 0)
                                    + (IF t2.token = k THEN t2.amount ELSE 0)]
        /\ t1.amount > 0 /\ t2.amount > 0
    BY <1>3 DEF CreateEscrowsBatch, Acceptable
  <2>2. /\ t1.amount \in Nat /\ t1.token \in Token
        /\ t2.amount \in Nat /\ t2.token \in Token
    BY <2>1, EscrowConstants DEF TermsType
  <2>3. x1.token = t1.token /\ x2.token = t2.token
    BY EscrowConstants DEF NewEscrow, TermsType
  <2> HIDE DEF x1, x2
  <2>4. /\ nextId \in Ids /\ nextId + 1 \in Ids /\ nextId # nextId + 1
        /\ ~Exists(nextId) /\ ~Exists(nextId + 1)
    BY <1>a, <2>1, EscrowConstants DEF Ids
  <2>5. escrow'[nextId].token = t1.token /\ escrow'[nextId + 1].token = t2.token
    BY <1>a, <2>1, <2>3, <2>4
  <2>6. balance' = [k \in Token |->
                      balance[k]
                        + (IF escrow'[nextId].token = k THEN t1.amount ELSE 0)
                        + (IF escrow'[nextId + 1].token = k THEN t2.amount ELSE 0)]
    BY <2>1, <2>5
  <2>7. OpensTwo
    <3> DEFINE i == nextId
               j == nextId + 1
               m == t1.amount
               n == t2.amount
    <3>1. i \in Ids /\ j \in Ids /\ m \in Nat /\ n \in Nat
      BY <2>2, <2>4
    <3>2. /\ i # j /\ ~Exists(i) /\ ~Exists(j)
          /\ escrow'[i].token \in Token /\ escrow'[j].token \in Token
      BY <2>2, <2>4, <2>5
    <3>3. /\ deposited' = [deposited EXCEPT ![i] = m, ![j] = n]
          /\ received' = received
          /\ balance' = [k \in Token |->
                           balance[k] + (IF escrow'[i].token = k THEN m ELSE 0)
                                      + (IF escrow'[j].token = k THEN n ELSE 0)]
      BY <2>1, <2>6
    <3> HIDE DEF i, j, m, n
    <3>4. OpensBoth(i, j, m, n)
      BY <3>2, <3>3 DEF OpensBoth
    <3>5. QED
      BY <3>1, <3>4 DEF OpensTwo
  <2>8. QED
    BY <2>7 DEF Flows
<1>4. ASSUME NEW c, NEW e \in Ids, IsOpen(e), ReleaseOnly(c, e)
      PROVE  Flows
  BY <1>a, <1>b, <1>1, <1>4 DEF ReleaseOnly
<1>5. ASSUME NEW c, NEW e \in Ids, IsOpen(e), ReleaseAndRenew(c, e)
      PROVE  Flows
  <2> DEFINE n == escrow[e].amount
  <2>1. /\ nextId < MaxEscrows
        /\ escrow' = [escrow EXCEPT ![e].status = "Released", ![nextId] = Renewed(e)]
        /\ Receive(e, n, 0, 0)
        /\ deposited' = [deposited EXCEPT ![nextId] = n]
        /\ balance' = [balance EXCEPT ![escrow[e].token] = @ - n + n]
    BY <1>b, <1>5 DEF ReleaseAndRenew
  <2>2. Exists(e) /\ nextId \in Ids /\ ~Exists(nextId) /\ n \in Nat
    BY <1>a, <1>5, <2>1, EscrowConstants DEF Ids, IsOpen, OpenStatus, Exists
  <2>3. escrow'[nextId].token = escrow[e].token
    <3>1. escrow'[nextId] = Renewed(e)
      BY <1>a, <2>1, <2>2
    <3>2. QED
      BY <1>a, <3>1 DEF Renewed, EscrowType
  <2> HIDE DEF n
  <2>4. Renews
    BY <2>1, <2>2, <2>3 DEF Renews
  <2>5. QED
    BY <2>4 DEF Flows
<1>6. ASSUME NEW c \in Address, NEW e \in Ids, PartyStep(c, e)
      PROVE  Flows
  <2>1. CASE ReleaseEscrow(c, e)
    BY <1>4, <1>5, <2>1 DEF ReleaseEscrow
  <2>2. ASSUME NEW x \in Portion, PartialRelease(c, e, x)
        PROVE  Flows
    <3>1. x \in Nat /\ PayOut(e, x, 0, 0)
      BY <2>2, EscrowConstants DEF PartialRelease
    <3>2. QED
      BY <1>1, <3>1
  <2>3. ASSUME NEW x \in Portion, DisputeEscrow(c, e, x)
        PROVE  Flows
    <3>1. escrow[e].amount - x \in Nat /\ PayOut(e, escrow[e].amount - x, 0, 0)
      BY <1>a, <2>3, EscrowConstants DEF DisputeEscrow
    <3>2. QED
      BY <1>1, <3>1
  <2>4. ASSUME NEW toSeller \in BOOLEAN, ResolveDispute(c, e, toSeller)
        PROVE  Flows
    <3> DEFINE fee == ProtocolFee(escrow[e].amount)
               rest == escrow[e].amount - fee
    <3>1. fee \in Nat /\ rest \in Nat
      BY <1>a, FeeWithinAmount DEF MoneyInv, TypeInv, TypeOK
    <3>2. PayOut(e, rest, 0, fee) \/ PayOut(e, 0, rest, fee)
      BY <2>4 DEF ResolveDispute
    <3> HIDE DEF fee, rest
    <3>3. QED
      BY <1>1, <3>1, <3>2
  <2>5. CASE ClaimInactivityRelease(c, e)
    BY <1>a, <1>1, <2>5 DEF ClaimInactivityRelease
  <2>6. CASE \/ SubmitEvidence(c, e)
             \/ \E d \in Deadline : ProposeDeadlineExtension(c, e, d)
             \/ UpdateMetadata(c, e)
             \/ \E n \in Allowance : SetRenewalAllowance(c, e, n)
             \/ AcceptDeadlineExtension(c, e)
             \/ \E b \in Heirs : TransferBuyerRole(c, e, b)
             \/ CancelAutoRenew(c, e)
    BY <2>6 DEF SubmitEvidence, ProposeDeadlineExtension, UpdateMetadata,
       SetRenewalAllowance, AcceptDeadlineExtension, TransferBuyerRole,
       CancelAutoRenew, Flows
  <2>7. QED
    BY <1>6, <2>1, <2>2, <2>3, <2>4, <2>5, <2>6 DEF PartyStep
<1>7. CASE \E a \in Admins : AdminStep(a)
  BY <1>7 DEF AdminStep, Initialize, PauseContract, ResumeContract,
     AddAllowedToken, RemoveAllowedToken, UpdateProtocolFee, Flows
<1>8. CASE \E b \in Buyers : CreateStep(b)
  BY <1>2, <1>3, <1>8 DEF CreateStep, CreateEscrow, Acceptable
<1>9. CASE \E e \in Ids : AutoReleaseExpired(e)
  BY <1>a, <1>1, <1>9 DEF AutoReleaseExpired
<1>10. CASE Tick \/ \E a \in Address, t \in Token : AllowanceLapses(a, t)
  BY <1>10 DEF Tick, AllowanceLapses, Flows
<1>11. QED
  BY <1>6, <1>7, <1>8, <1>9, <1>10 DEF Next

AllBacked == \A t \in Token : Backed(t)

LEMMA InitBacked == Init => AllBacked
<1> SUFFICES ASSUME Init, NEW t \in Token PROVE Backed(t)
  BY DEF AllBacked
<1>1. balance[t] = 0
  BY DEF Init
<1>2. \A e \in Ids : Stakes(t)[e] = 0
  BY DEF Init, Stakes, Stake, Held, IsOpen, IsDisputed, OpenStatus, DisputedStatus
<1>3. SumFunctionOnSet(Stakes(t), Ids) = 0
  BY <1>2, IdsFinite, SumZero
<1>4. QED
  BY <1>1, <1>3 DEF Backed

LEMMA BackedStep ==
    ASSUME MoneyInv, MoneyInv', AllBacked, (TokensKept /\ Flows) \/ UNCHANGED vars
    PROVE  AllBacked'
<1> SUFFICES ASSUME NEW t \in Token
             PROVE  Backed(t)'
  BY DEF AllBacked
<1>1. Backed(t)
  BY DEF AllBacked
<1>2. CASE TokensKept /\ Flows
  BY <1>1, <1>2, FlowsBacked
<1>3. CASE UNCHANGED vars
  BY <1>1, <1>3 DEF vars, fundVars, Backed, Stakes, Stake, Held, IsOpen, IsDisputed
<1>4. QED
  BY <1>2, <1>3

LEMMA BackedSolvency == MoneyInv /\ AllBacked => Solvency
BY BackedIsSolvent DEF AllBacked, Backed, Solvency, MoneyInv

(* The contract's balance of every token is exactly what its unsettled       *)
(* escrows hold.                                                             *)
THEOREM ContractIsSolvent == Spec => []Solvency
<1>1. MoneyInv /\ MoneyInv' /\ AllBacked /\ [Next]_vars => AllBacked'
  BY TokenKept, StepFlows, BackedStep
<1>2. QED
  BY <1>1, InitBacked, BackedSolvency, MoneyAlways, PTL DEF Spec
=============================================================================
