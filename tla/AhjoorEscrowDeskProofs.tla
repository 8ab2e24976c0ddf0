----------------------- MODULE AhjoorEscrowDeskProofs -----------------------
(***************************************************************************)
(* Theorems about AhjoorEscrowDesk: escrows opened from templates and      *)
(* through the pool are in Custody and in the books like the others, every *)
(* deadline is after the escrow's creation, and the pool's arbiters take   *)
(* turns.                                                                  *)
(***************************************************************************)
EXTENDS AhjoorEscrowDesk, AhjoorEscrowRecordsProofs

allVars == <<vars, deskVars>>

(* What is written in a template is always something create_escrow would     *)
(* take for a deadline.                                                      *)
TemplatesSound ==
    /\ nextTemplate \in Nat
    /\ template \in [TemplateIds -> TemplateType]
    /\ \A i \in TemplateIds : i < nextTemplate => template[i].config.duration > 0

(* nextArbiter lies in the pool. *)
PoolTyped ==
    /\ pool \in Seq(Address)
    /\ nextArbiter \in Nat
    /\ nextArbiter = 0 \/ nextArbiter < Len(pool)

-----------------------------------------------------------------------------
(* Opening an escrow at the desk *)

LEMMA PlainTerms ==
    ASSUME NEW s \in Address, NEW arb \in Address, NEW amt \in Int, NEW tok \in Token
    PROVE  /\ Plain(s, arb, amt, tok) \in TermsType
           /\ Plain(s, arb, amt, tok).amount = amt
           /\ ValidSellers(Plain(s, arb, amt, tok).sellers)
<1> DEFINE list == <<[to |-> s, bps |-> BasisPoints]>>
<1>1. list \in SellerList /\ Len(list) = 1 /\ list[1].bps = BasisPoints
  BY DEF SellerList, BasisPoints
<1>2. Plain(s, arb, amt, tok).sellers = list
  BY DEF Plain
<1>3. Plain(s, arb, amt, tok) \in TermsType /\ Plain(s, arb, amt, tok).amount = amt
  BY <1>1 DEF Plain, TermsType
<1> HIDE DEF list
<1>4. ValidSellers(list)
  BY <1>1 DEF ValidSellers, BpsAt, MaxSellers, BasisPoints
<1>5. QED
  BY <1>2, <1>3, <1>4

(* Every way of opening an escrow here opens one of AhjoorEscrow's, with     *)
(* sound terms and a deadline ahead.                                         *)
OpensSoundly ==
    \E b \in Address, t \in TermsType, d \in Nat :
        /\ t.amount > 0 /\ ValidSellers(t.sellers) /\ d > now
        /\ OpenEscrow(b, t, d)

LEMMA TemplateOpens ==
    ASSUME TypeInv, TemplatesSound, NEW b \in Buyers, NEW s \in Sellers,
           NEW i \in TemplateIds, NEW amt \in Price, CreateEscrowFromTemplate(b, s, i, amt)
    PROVE  OpensSoundly
<1> DEFINE cfg == template[i].config
           t == Plain(s, cfg.arbiter, amt, cfg.token)
           d == now + cfg.duration
<1>1. cfg \in ConfigType /\ cfg.duration > 0
  BY DEF TemplatesSound, TemplateType, CreateEscrowFromTemplate
<1>2. b \in Address /\ s \in Address /\ amt \in Int /\ now \in Nat
  BY EscrowConstants, DeskConstants DEF TypeInv, TypeOK
<1>3. d \in Nat /\ d > now
  BY <1>1, <1>2 DEF ConfigType
<1>4. cfg.arbiter \in Address /\ cfg.token \in Token
  BY <1>1 DEF ConfigType
<1>5. amt > 0 /\ OpenEscrow(b, t, d)
  BY DEF CreateEscrowFromTemplate
<1> HIDE DEF cfg
<1>6. t \in TermsType /\ t.amount = amt /\ ValidSellers(t.sellers)
  BY <1>2, <1>4, PlainTerms
<1> HIDE DEF t, d
<1>7. QED
  BY <1>2, <1>3, <1>5, <1>6 DEF OpensSoundly

LEMMA PoolOpens ==
    ASSUME TypeInv, PoolTyped, NEW b \in Buyers, NEW s \in Sellers, NEW amt \in Price,
           NEW tok \in Token, NEW d \in Deadline,
           CreateEscrowWithPoolArbiter(b, s, amt, tok, d)
    PROVE  OpensSoundly
<1> DEFINE arb == pool[(nextArbiter % Len(pool)) + 1]
           t == Plain(s, arb, amt, tok)
<1>1. b \in Address /\ s \in Address /\ amt \in Int /\ now \in Nat /\ d \in Nat
  BY EscrowConstants, DeskConstants DEF TypeInv, TypeOK
<1>2. amt > 0 /\ d > now /\ OpenEscrow(b, t, d) /\ pool # <<>>
  BY DEF CreateEscrowWithPoolArbiter
<1>3. arb \in Address
  <2>1. Len(pool) \in Nat \ {0}
    BY <1>2 DEF PoolTyped
  <2>2. (nextArbiter % Len(pool)) + 1 \in 1 .. Len(pool)
    BY <2>1 DEF PoolTyped
  <2>3. QED
    BY <2>2, ElementOfSeq DEF PoolTyped
<1> HIDE DEF arb
<1>4. t \in TermsType /\ t.amount = amt /\ ValidSellers(t.sellers)
  BY <1>1, <1>3, PlainTerms
<1> HIDE DEF t
<1>5. QED
  BY <1>1, <1>2, <1>4 DEF OpensSoundly

-----------------------------------------------------------------------------
(* What a step does to the desk and to the escrows *)

LEMMA TemplatesStaySound ==
    ASSUME TypeInv, TemplatesSound, [DeskNext]_allVars
    PROVE  TemplatesSound'
<1>1. ASSUME NEW c \in Authors, NEW cfg \in Config, CreateEscrowTemplate(c, cfg)
      PROVE  TemplatesSound'
  <2> DEFINE x == [author |-> c, config |-> cfg, active |-> TRUE]
  <2>1. cfg \in ConfigType /\ c \in Address
    BY DeskConstants
  <2>2. x \in TemplateType /\ x.config.duration > 0
    BY <1>1, <2>1 DEF TemplateType, CreateEscrowTemplate, AcceptableConfig, ConfigType
  <2>3. /\ template' = [template EXCEPT ![nextTemplate] = x]
        /\ nextTemplate' = nextTemplate + 1 /\ nextTemplate < MaxTemplates
    BY <1>1 DEF CreateEscrowTemplate
  <2> HIDE DEF x
  <2>4. nextTemplate' \in Nat /\ template' \in [TemplateIds -> TemplateType]
    <3>1. nextTemplate \in Nat /\ template \in [TemplateIds -> TemplateType]
      BY DEF TemplatesSound
    <3>2. x \in TemplateType
      BY <2>2
    <3>3. template' \in [TemplateIds -> TemplateType]
      BY <2>3, <3>1, <3>2
    <3>4. QED
      BY <2>3, <3>1, <3>3
  <2>5. ASSUME NEW i \in TemplateIds, i < nextTemplate'
        PROVE  template'[i].config.duration > 0
    <3>1. i = nextTemplate \/ i < nextTemplate
      BY <2>3, <2>5, DeskConstants DEF TemplateIds, TemplatesSound
    <3>2. QED
      BY <2>2, <2>3, <2>5, <3>1 DEF TemplatesSound
  <2>6. QED
    BY <2>4, <2>5 DEF TemplatesSound
<1>2. ASSUME NEW c \in Authors, NEW i \in TemplateIds, NEW cfg \in Config,
             UpdateEscrowTemplate(c, i, cfg)
      PROVE  TemplatesSound'
  <2>1. cfg \in ConfigType /\ cfg.duration > 0
    BY <1>2, DeskConstants DEF UpdateEscrowTemplate, AcceptableConfig, ConfigType
  <2>2. QED
    BY <1>2, <2>1 DEF UpdateEscrowTemplate, TemplatesSound, TemplateType
<1>3. ASSUME NEW c \in Authors, NEW i \in TemplateIds, DeactivateEscrowTemplate(c, i)
      PROVE  TemplatesSound'
  BY <1>3 DEF DeactivateEscrowTemplate, TemplatesSound, TemplateType
<1>4. CASE UNCHANGED templateVars
  BY <1>4 DEF templateVars, TemplatesSound
<1>5. QED
  BY <1>1, <1>2, <1>3, <1>4 DEF DeskNext, TemplateStep, PoolStep, deskVars, allVars,
     CreateEscrowFromTemplate, AddArbiter, RemoveArbiter, CreateEscrowWithPoolArbiter

LEMMA EscrowsMove ==
    ASSUME TypeInv, TemplatesSound, PoolTyped, [DeskNext]_allVars
    PROVE  [Next]_vars \/ OpensSoundly
<1>1. CASE TemplateStep
  BY <1>1, TemplateOpens DEF TemplateStep, CreateEscrowTemplate, UpdateEscrowTemplate,
     DeactivateEscrowTemplate
<1>2. CASE PoolStep
  BY <1>2, PoolOpens DEF PoolStep, AddArbiter, RemoveArbiter
<1>3. QED
  BY <1>1, <1>2 DEF DeskNext, allVars

LEMMA DeskMoney ==
    ASSUME MoneyInv, [Next]_vars \/ OpensSoundly
    PROVE  MoneyInv' /\ (Moves \/ UNCHANGED vars)
<1>1. CASE OpensSoundly
  <2>1. TypeInv' /\ Moves
    BY <1>1, OpenEscrowType, OpenEscrowMoves DEF OpensSoundly, MoneyInv
  <2>2. QED
    BY <2>1, AllocatedStep, ConservationStep DEF MoneyInv
<1>2. CASE [Next]_vars
  BY <1>2, MoneyNext, MoneyStep
<1>3. QED
  BY <1>1, <1>2

-----------------------------------------------------------------------------
(* Records and books *)

(* What AhjoorEscrow keeps right about disputes, plans, splits and balances. *)
BooksInv == DisputeRecordAgrees /\ PlanInv /\ SplitInv /\ AllBacked

LEMMA BooksInit == Init => BooksInv
BY InitAgrees, InitPlans, InitSplits, InitBacked DEF BooksInv

(* An escrow opened at the desk has no dispute, no predecessor, has been     *)
(* paid nothing, and holds what came in with it.                             *)
LEMMA OpeningBooks ==
    ASSUME MoneyInv, OpensSoundly
    PROVE  /\ \A e \in Ids : Filed(e)
           /\ Plans /\ Splits /\ TokensKept /\ Flows
<1>1. PICK b \in Address, t \in TermsType, d \in Nat : t.amount > 0 /\ OpenEscrow(b, t, d)
  BY DEF OpensSoundly
<1> DEFINE i == nextId
           x == NewEscrow(b, t, d)
           n == t.amount
<1>2. /\ escrow \in [Ids -> EscrowType] /\ deposited \in [Ids -> Nat]
      /\ i \in Ids /\ ~Exists(i)
  <2>1. escrow \in [Ids -> EscrowType] /\ deposited \in [Ids -> Nat] /\ nextId \in Nat
    BY DEF MoneyInv, TypeInv, TypeOK
  <2>2. nextId \in Ids
    BY <1>1, <2>1, EscrowConstants DEF OpenEscrow, Ids
  <2>3. QED
    BY <2>1, <2>2 DEF MoneyInv, Allocated
<1>3. /\ escrow' = [escrow EXCEPT ![i] = x]
      /\ deposited' = [deposited EXCEPT ![i] = n]
      /\ balance' = [balance EXCEPT ![t.token] = @ + n]
      /\ UNCHANGED <<dispute, received, generation>>
  BY <1>1 DEF OpenEscrow, sideVars
<1>4. /\ x.status = "Active" /\ x.renewalsRemaining = x.renewalCount
      /\ x.token = t.token
  BY DEF NewEscrow
<1>5. n \in Nat /\ t.token \in Token
  BY <1>1 DEF TermsType
<1> HIDE DEF i, x, n
<1>6. escrow'[i] = x /\ \A e \in Ids \ {i} : escrow'[e] = escrow[e]
  BY <1>2, <1>3
<1>7. \A e \in Ids : Filed(e)
  <2>1. Filed(i)
    BY <1>2, <1>3, <1>4, <1>6 DEF Filed, Exists, IsDisputed, DisputedStatus
  <2>2. \A e \in Ids \ {i} : Filed(e)
    BY <1>3, <1>6 DEF Filed
  <2>3. QED
    BY <2>1, <2>2
<1>8. Plans
  <2>1. PlanBegins(i)
    BY <1>2, <1>3, <1>4, <1>6 DEF PlanBegins
  <2>2. \A e \in Ids \ {i} : PlanKept(e)
    BY <1>3, <1>6 DEF PlanKept
  <2>3. QED
    BY <2>1, <2>2 DEF Plans
<1>9. Splits
  <2>1. \A e \in Ids : IsTerminal(e) => escrow'[e].status = escrow[e].status
    BY <1>2, <1>6 DEF IsTerminal, TerminalStatus, Exists
  <2>2. QED
    BY <1>3, <2>1, NobodyPaid
<1>10. TokensKept
  BY <1>2, <1>6 DEF TokensKept
<1>11. Flows
  <2>1. Opens
    BY <1>2, <1>3, <1>4, <1>5, <1>6 DEF Opens
  <2>2. QED
    BY <2>1 DEF Flows
<1>12. QED
  BY <1>7, <1>8, <1>9, <1>10, <1>11

LEMMA BooksStay ==
    ASSUME MoneyInv, MoneyInv', BooksInv, [Next]_vars \/ OpensSoundly,
           Moves \/ UNCHANGED vars
    PROVE  BooksInv'
<1>1. /\ \A e \in Ids : Filed(e)
      /\ Plans /\ Splits
      /\ (TokensKept /\ Flows) \/ UNCHANGED vars
  <2>1. CASE OpensSoundly
    BY <2>1, OpeningBooks
  <2>2. CASE [Next]_vars
    BY <2>2, StepFiles, StepPlans, StepSplits, TokenKept, StepFlows DEF BooksInv
  <2>3. QED
    BY <2>1, <2>2
<1>2. DisputeRecordAgrees'
  BY <1>1, FiledAgrees DEF BooksInv
<1>3. PlanInv' /\ SplitInv'
  BY <1>1, PlanStep, SplitStep DEF BooksInv
<1>4. AllBacked'
  BY <1>1, BackedStep DEF BooksInv
<1>5. QED
  BY <1>2, <1>3, <1>4 DEF BooksInv

-----------------------------------------------------------------------------
(* Deadlines *)

(* A step leaves an escrow's creation alone and its deadline no earlier, or  *)
(* gives it a deadline ahead.                                                *)
Kept(e) ==
    /\ escrow'[e].createdAt = escrow[e].createdAt
    /\ escrow'[e].deadline >= escrow[e].deadline
    /\ Exists(e)' => Exists(e)

Ahead(e) == escrow[e].deadline > escrow[e].createdAt

DeadlinesMove == \A e \in Ids : Kept(e) \/ Ahead(e)'

(* Steps that change the status, amount, buyer or plan of some escrows. *)
LEMMA SameDates ==
    ASSUME TypeInv,
           \A e \in Ids : /\ escrow'[e].createdAt = escrow[e].createdAt
                          /\ escrow'[e].deadline = escrow[e].deadline
                          /\ Exists(e)' => Exists(e)
    PROVE  DeadlinesMove
BY DEF DeadlinesMove, Kept, TypeInv, TypeOK, EscrowType

LEMMA SameEscrows ==
    ASSUME TypeInv, UNCHANGED escrow
    PROVE  DeadlinesMove
BY SameDates DEF Exists

LEMMA StatusDates ==
    ASSUME TypeInv, NEW e \in Ids, NEW st, Exists(e), SetStatus(e, st)
    PROVE  DeadlinesMove
<1>1. /\ escrow \in [Ids -> EscrowType]
      /\ escrow' = [escrow EXCEPT ![e].status = st]
  BY DEF SetStatus, TypeInv, TypeOK
<1>2. /\ \A d \in Ids \ {e} : escrow'[d] = escrow[d]
      /\ escrow'[e] = [escrow[e] EXCEPT !.status = st]
  BY <1>1
<1>3. escrow[e] \in EscrowType
  BY <1>1
<1>4. /\ escrow'[e].createdAt = escrow[e].createdAt
      /\ escrow'[e].deadline = escrow[e].deadline
  BY <1>2, <1>3 DEF EscrowType
<1>5. QED
  BY <1>2, <1>4, SameDates DEF Exists

LEMMA CreationDates ==
    ASSUME TypeInv, NEW b, NEW t, NEW d \in Nat, d > now, OpenEscrow(b, t, d)
    PROVE  DeadlinesMove
<1>1. /\ nextId \in Ids
      /\ escrow' = [escrow EXCEPT ![nextId] = NewEscrow(b, t, d)]
  BY EscrowConstants DEF OpenEscrow, TypeInv, TypeOK, Ids
<1>2. NewEscrow(b, t, d).createdAt = now /\ NewEscrow(b, t, d).deadline = d
  BY DEF NewEscrow
<1>3. \A e \in Ids : e = nextId => Ahead(e)'
  BY <1>1, <1>2 DEF Ahead, TypeInv, TypeOK
<1>4. ASSUME NEW e \in Ids \ {nextId}
      PROVE  Kept(e)
  <2>1. escrow'[e] = escrow[e] /\ escrow[e].deadline \in Nat
    BY <1>1 DEF TypeInv, TypeOK, EscrowType
  <2>2. QED
    BY <2>1 DEF Kept, Exists
<1>5. QED
  BY <1>3, <1>4 DEF DeadlinesMove

LEMMA BatchDates ==
    ASSUME TypeInv, NEW b \in Buyers, NEW t1 \in Terms, NEW t2 \in Terms,
           NEW d1 \in Deadline, NEW d2 \in Deadline,
           CreateEscrowsBatch(b, t1, d1, t2, d2)
    PROVE  DeadlinesMove
<1> DEFINE x1 == NewEscrow(b, [t1 EXCEPT !.window = 0], d1)
           x2 == NewEscrow(b, [t2 EXCEPT !.window = 0], d2)
<1>1. /\ nextId \in Ids /\ nextId + 1 \in Ids /\ nextId # nextId + 1
      /\ escrow' = [escrow EXCEPT ![nextId] = x1, ![nextId + 1] = x2]
      /\ d1 > now /\ d2 > now
  <2>1. /\ escrow' = [escrow EXCEPT ![nextId] = x1, ![nextId + 1] = x2]
        /\ nextId + 1 < MaxEscrows /\ d1 > now /\ d2 > now
    BY DEF CreateEscrowsBatch, Acceptable
  <2>2. nextId \in Nat /\ MaxEscrows \in Nat
    BY EscrowConstants DEF TypeInv, TypeOK
  <2> HIDE DEF x1, x2
  <2>3. QED
    BY <2>1, <2>2 DEF Ids
<1>2. /\ x1.createdAt = now /\ x1.deadline = d1
      /\ x2.createdAt = now /\ x2.deadline = d2
  BY DEF NewEscrow
<1> HIDE DEF x1, x2
<1>3. \A e \in Ids : e \in {nextId, nextId + 1} => Ahead(e)'
  BY <1>1, <1>2 DEF Ahead, TypeInv, TypeOK
<1>4. ASSUME NEW e \in Ids \ {nextId, nextId + 1}
      PROVE  Kept(e)
  <2>1. escrow'[e] = escrow[e] /\ escrow[e].deadline \in Nat
    BY <1>1 DEF TypeInv, TypeOK, EscrowType
  <2>2. QED
    BY <2>1 DEF Kept, Exists
<1>5. QED
  BY <1>3, <1>4 DEF DeadlinesMove

(* A renewal is for as long as the escrow it renews was. *)
LEMMA RenewalDates ==
    ASSUME TypeInv, NEW c \in Address, NEW e \in Ids, IsOpen(e), ReleaseAndRenew(c, e)
    PROVE  DeadlinesMove
<1> DEFINE x == Renewed(e)
<1>1. /\ nextId \in Ids /\ escrow \in [Ids -> EscrowType]
      /\ escrow[e].deadline > escrow[e].createdAt
      /\ escrow' = [escrow EXCEPT ![e].status = "Released", ![nextId] = x]
  <2>1. nextId < MaxEscrows /\ nextId \in Nat /\ escrow \in [Ids -> EscrowType]
    BY EscrowConstants DEF ReleaseAndRenew, TypeInv, TypeOK
  <2>2. nextId \in Ids
    BY <2>1, EscrowConstants DEF Ids
  <2>3. /\ escrow[e].deadline > escrow[e].createdAt
        /\ escrow' = [escrow EXCEPT ![e].status = "Released", ![nextId] = x]
    BY DEF ReleaseAndRenew
  <2>4. QED
    BY <2>1, <2>2, <2>3
<1>2. /\ escrow[e].deadline \in Nat /\ escrow[e].createdAt \in Nat /\ now \in Nat
      /\ escrow[e] \in EscrowType
  BY <1>1 DEF TypeInv, TypeOK, EscrowType
<1>3. /\ x.createdAt = now
      /\ x.deadline = now + (escrow[e].deadline - escrow[e].createdAt)
  BY <1>2 DEF Renewed, EscrowType
<1> HIDE DEF x
<1>4. escrow'[nextId] = x
  BY <1>1
<1>5. \A d \in Ids : d = nextId => Ahead(d)'
  BY <1>1, <1>2, <1>3, <1>4 DEF Ahead
<1>6. ASSUME NEW d \in Ids \ {nextId, e}
      PROVE  Kept(d)
  <2>1. escrow'[d] = escrow[d] /\ escrow[d].deadline \in Nat
    BY <1>1 DEF EscrowType
  <2>2. QED
    BY <2>1 DEF Kept, Exists
<1>7. e # nextId => Kept(e)
  <2> SUFFICES ASSUME e # nextId PROVE Kept(e)
    OBVIOUS
  <2>1. escrow'[e] = [escrow[e] EXCEPT !.status = "Released"]
    BY <1>1
  <2>2. /\ escrow'[e].createdAt = escrow[e].createdAt
        /\ escrow'[e].deadline = escrow[e].deadline
    BY <1>2, <2>1 DEF EscrowType
  <2>3. Exists(e)
    BY DEF IsOpen, OpenStatus, Exists
  <2>4. QED
    BY <1>2, <2>2, <2>3 DEF Kept
<1>8. QED
  BY <1>5, <1>6, <1>7 DEF DeadlinesMove

LEMMA PartyDates ==
    ASSUME TypeInv, NEW c \in Address, NEW e \in Ids, PartyStep(c, e)
    PROVE  DeadlinesMove
<1>a. /\ escrow \in [Ids -> EscrowType] /\ escrow[e] \in EscrowType
      /\ IsOpen(e) \/ IsDisputed(e) => Exists(e)
  BY DEF TypeInv, TypeOK, IsOpen, IsDisputed, OpenStatus, DisputedStatus, Exists
<1>1. CASE ReleaseEscrow(c, e)
  BY <1>1, <1>a, StatusDates, RenewalDates DEF ReleaseEscrow, ReleaseOnly
<1>2. ASSUME NEW p \in Portion, PartialRelease(c, e, p) \/ DisputeEscrow(c, e, p)
      PROVE  DeadlinesMove
  <2>1. \E amt, st : escrow' = [escrow EXCEPT ![e].amount = amt, ![e].status = st]
    BY <1>2 DEF PartialRelease, DisputeEscrow
  <2>2. PICK amt, st : escrow' = [escrow EXCEPT ![e].amount = amt, ![e].status = st]
    BY <2>1
  <2>3. /\ \A d \in Ids \ {e} : escrow'[d] = escrow[d]
        /\ escrow'[e].createdAt = escrow[e].createdAt
        /\ escrow'[e].deadline = escrow[e].deadline
    BY <2>2, <1>a DEF EscrowType
  <2>4. Exists(e)
    BY <1>2, <1>a DEF PartialRelease, DisputeEscrow
  <2>5. QED
    BY <2>3, <2>4, SameDates DEF Exists
<1>3. CASE \E toSeller \in BOOLEAN : ResolveDispute(c, e, toSeller)
  BY <1>3, <1>a, StatusDates DEF ResolveDispute
<1>4. CASE ClaimInactivityRelease(c, e)
  BY <1>4, <1>a, StatusDates DEF ClaimInactivityRelease
<1>5. CASE AcceptDeadlineExtension(c, e)
  <2> DEFINE d == proposal[e].deadline
  <2>1. /\ escrow' = [escrow EXCEPT ![e].deadline = d]
        /\ d > escrow[e].deadline /\ Exists(e)
    BY <1>5 DEF AcceptDeadlineExtension, Extendable
  <2>2. d \in Nat /\ escrow[e].deadline \in Nat
    BY <1>a DEF TypeInv, TypeOK, ProposalType, EscrowType
  <2> HIDE DEF d
  <2>3. /\ \A f \in Ids \ {e} : escrow'[f] = escrow[f] /\ escrow[f].deadline \in Nat
        /\ escrow'[e].createdAt = escrow[e].createdAt
        /\ escrow'[e].deadline = d
    BY <2>1, <1>a DEF EscrowType
  <2>4. QED
    BY <2>1, <2>2, <2>3 DEF DeadlinesMove, Kept, Exists
<1>6. CASE \E b \in Heirs : TransferBuyerRole(c, e, b)
  <2>1. PICK b : escrow' = [escrow EXCEPT ![e].buyer = b]
    BY <1>6 DEF TransferBuyerRole
  <2>2. QED
    BY <2>1, <1>a, SameDates DEF EscrowType, Exists
<1>7. CASE CancelAutoRenew(c, e)
  <2>1. escrow' = [escrow EXCEPT ![e].autoRenew = FALSE, ![e].renewalsRemaining = 0]
    BY <1>7 DEF CancelAutoRenew
  <2>2. QED
    BY <2>1, <1>a, SameDates DEF EscrowType, Exists
<1>8. CASE \/ SubmitEvidence(c, e) \/ UpdateMetadata(c, e)
           \/ \E d \in Deadline : ProposeDeadlineExtension(c, e, d)
           \/ \E n \in Allowance : SetRenewalAllowance(c, e, n)
  BY <1>8, SameEscrows DEF SubmitEvidence, UpdateMetadata, ProposeDeadlineExtension,
     SetRenewalAllowance
<1>9. QED
  BY <1>1, <1>2, <1>3, <1>4, <1>5, <1>6, <1>7, <1>8 DEF PartyStep

LEMMA NextDates ==
    ASSUME TypeInv, [Next]_vars
    PROVE  DeadlinesMove
<1>1. CASE \E a \in Admins : AdminStep(a)
  BY <1>1, SameEscrows DEF AdminStep, Initialize, PauseContract, ResumeContract,
     AddAllowedToken, RemoveAllowedToken, UpdateProtocolFee
<1>2. ASSUME NEW b \in Buyers, CreateStep(b)
      PROVE  DeadlinesMove
  <2>1. ASSUME NEW t \in Terms, NEW d \in Deadline, CreateEscrow(b, t, d)
        PROVE  DeadlinesMove
    <3>1. d \in Nat /\ d > now /\ OpenEscrow(b, t, d)
      BY <2>1, EscrowConstants DEF CreateEscrow, Acceptable
    <3>2. QED
      BY <3>1, CreationDates
  <2>2. QED
    BY <1>2, <2>1, BatchDates DEF CreateStep
<1>3. CASE \E c \in Address, e \in Ids : PartyStep(c, e)
  BY <1>3, PartyDates
<1>4. ASSUME NEW e \in Ids, AutoReleaseExpired(e)
      PROVE  DeadlinesMove
  <2>1. Exists(e) /\ SetStatus(e, "Refunded")
    BY <1>4 DEF AutoReleaseExpired, IsOpen, OpenStatus, Exists
  <2>2. QED
    BY <2>1, StatusDates
<1>5. CASE Tick \/ \E a \in Address, t \in Token : AllowanceLapses(a, t)
  BY <1>5, SameEscrows DEF Tick, AllowanceLapses
<1>6. CASE UNCHANGED vars
  BY <1>6, SameEscrows DEF vars
<1>7. QED
  BY <1>1, <1>2, <1>3, <1>4, <1>5, <1>6 DEF Next

LEMMA DatesStay ==
    ASSUME TypeInv, TypeInv', OpenForAWhile, [Next]_vars \/ OpensSoundly
    PROVE  OpenForAWhile'
<1>1. DeadlinesMove
  BY NextDates, CreationDates DEF OpensSoundly
<1>2. ASSUME NEW e \in Ids, Exists(e)'
      PROVE  Ahead(e)'
  <2>1. CASE Ahead(e)'
    BY <2>1
  <2>2. CASE Kept(e)
    <3>1. /\ escrow[e].deadline \in Nat /\ escrow[e].createdAt \in Nat
          /\ escrow'[e].deadline \in Nat /\ escrow'[e].createdAt \in Nat
      BY DEF TypeInv, TypeOK, EscrowType
    <3>2. escrow[e].deadline > escrow[e].createdAt
      BY <1>2, <2>2 DEF Kept, OpenForAWhile
    <3>3. QED
      BY <2>2, <3>1, <3>2 DEF Kept, Ahead
  <2>3. QED
    BY <1>1, <2>1, <2>2 DEF DeadlinesMove
<1>3. QED
  BY <1>2 DEF OpenForAWhile, Ahead

-----------------------------------------------------------------------------
(* Turns in the pool *)

(* In one round of assignments that began at position s, those from s to the *)
(* next position have had their turn.  Positions count from zero.            *)
Served(p, s) ==
    IF s <= nextArbiter THEN s <= p /\ p < nextArbiter
    ELSE s <= p \/ p < nextArbiter

EvenSince(c, s) ==
    \A i \in 1 .. Len(pool) : turns[pool[i]] = IF Served(i - 1, s) THEN c + 1 ELSE c

(* TakeTurns is inductive once it is known where the round began.            *)
PoolInv ==
    /\ PoolTyped
    /\ turns \in [Address -> Nat]
    /\ \A i, j \in 1 .. Len(pool) : i # j => pool[i] # pool[j]
    /\ \E c \in Nat, s \in Nat : (s = 0 \/ s < Len(pool)) /\ EvenSince(c, s)

LEMMA FreshPool ==
    ASSUME PoolTyped', turns' = [y \in Address |-> 0],
           \A i, j \in 1 .. Len(pool') : i # j => pool'[i] # pool'[j]
    PROVE  PoolInv'
<1>1. \A i \in 1 .. Len(pool') : pool'[i] \in Address
  BY ElementOfSeq DEF PoolTyped
<1>2. EvenSince(0, nextArbiter)'
  BY <1>1 DEF EvenSince, Served, PoolTyped
<1>3. QED
  BY <1>2 DEF PoolInv, PoolTyped

LEMMA AdditionKeepsPool ==
    ASSUME PoolInv, NEW a \in Admins, NEW x \in Pooled, AddArbiter(a, x)
    PROVE  PoolInv'
<1>1. x \in Address /\ pool' = Append(pool, x) /\ UNCHANGED nextArbiter
  BY DeskConstants DEF AddArbiter
<1>2. /\ pool' \in Seq(Address) /\ Len(pool') = Len(pool) + 1
      /\ \A i \in 1 .. Len(pool) : pool'[i] = pool[i]
      /\ pool'[Len(pool) + 1] = x
  BY <1>1, AppendProperties DEF PoolInv, PoolTyped
<1>3. Len(pool) \in Nat
  BY DEF PoolInv, PoolTyped
<1>4. PoolTyped'
  BY <1>1, <1>2, <1>3 DEF PoolInv, PoolTyped
<1>5. \A i \in 1 .. Len(pool) : pool[i] # x
  BY DEF AddArbiter, InPool, PoolInv, PoolTyped
<1>6. ASSUME NEW i \in 1 .. Len(pool'), NEW j \in 1 .. Len(pool'), i # j
      PROVE  pool'[i] # pool'[j]
  <2>1. /\ i \in 1 .. Len(pool) \/ i = Len(pool) + 1
        /\ j \in 1 .. Len(pool) \/ j = Len(pool) + 1
    BY <1>2, <1>3
  <2>2. QED
    BY <1>2, <1>5, <1>6, <2>1 DEF PoolInv
<1>7. QED
  BY <1>4, <1>6, FreshPool DEF AddArbiter

LEMMA RemovalKeepsPool ==
    ASSUME PoolInv, NEW a \in Admins, NEW x \in Pooled, NEW named \in Named,
           RemoveArbiter(a, x, named)
    PROVE  PoolInv'
<1> DEFINE n == Len(pool)
<1>1. n \in Nat /\ DOMAIN pool = 1 .. n /\ \A i \in 1 .. n : pool[i] \in Address
  BY ElementOfSeq DEF PoolInv, PoolTyped
<1>2. PICK k \in 1 .. n : pool' = WithoutPlace(k)
  BY <1>1 DEF RemoveArbiter
<1>3. n - 1 \in Nat
  BY <1>1, <1>2
<1>4. \A i \in 1 .. n - 1 : i \in 1 .. n /\ i + 1 \in 1 .. n
  BY <1>1
<1>5. pool' = [i \in 1 .. n - 1 |-> IF i < k THEN pool[i] ELSE pool[i + 1]]
  BY <1>2 DEF WithoutPlace
<1>6. pool' \in Seq(Address) /\ Len(pool') = n - 1
  <2>1. pool' \in [1 .. n - 1 -> Address]
    BY <1>1, <1>4, <1>5
  <2>2. QED
    BY <1>3, <2>1
<1>7. PoolTyped'
  BY <1>6, <1>3 DEF RemoveArbiter, PoolInv, PoolTyped
<1>8. ASSUME NEW i \in 1 .. Len(pool'), NEW j \in 1 .. Len(pool'), i # j
      PROVE  pool'[i] # pool'[j]
  <2> DEFINE p(m) == IF m < k THEN m ELSE m + 1
  <2>1. pool'[i] = pool[p(i)] /\ pool'[j] = pool[p(j)]
    BY <1>5, <1>6
  <2>2. p(i) \in 1 .. n /\ p(j) \in 1 .. n /\ p(i) # p(j)
    BY <1>1, <1>2, <1>6, <1>8
  <2>3. QED
    BY <2>1, <2>2 DEF PoolInv
<1>9. QED
  BY <1>7, <1>8, FreshPool DEF RemoveArbiter

LEMMA AssignmentKeepsPool ==
    ASSUME PoolInv, NEW b \in Buyers, NEW s \in Sellers, NEW amt \in Price,
           NEW tok \in Token, NEW d \in Deadline,
           CreateEscrowWithPoolArbiter(b, s, amt, tok, d)
    PROVE  PoolInv'
<1> DEFINE n == Len(pool)
           k == nextArbiter + 1
<1>1. /\ n \in Nat \ {0} /\ nextArbiter \in Nat /\ nextArbiter < n
      /\ turns \in [Address -> Nat] /\ pool' = pool
      /\ \A i \in 1 .. n : pool[i] \in Address
  BY ElementOfSeq DEF CreateEscrowWithPoolArbiter, PoolInv, PoolTyped
<1>2. nextArbiter % n = nextArbiter
  BY <1>1
<1>3. nextArbiter' = IF k = n THEN 0 ELSE k
  <2>1. nextArbiter' = k % n
    BY DEF CreateEscrowWithPoolArbiter, After
  <2>2. \A m, q \in Nat : q > 0 /\ m <= q => m % q = IF m = q THEN 0 ELSE m
    OBVIOUS
  <2>3. k \in Nat /\ k <= n /\ n > 0
    BY <1>1
  <2> HIDE DEF k, n
  <2>4. k % n = IF k = n THEN 0 ELSE k
    BY <1>1, <2>2, <2>3
  <2>5. QED
    BY <2>1, <2>4
<1>4. turns' = [turns EXCEPT ![pool[k]] = @ + 1]
  BY <1>2 DEF CreateEscrowWithPoolArbiter
<1>5. k \in 1 .. n /\ pool[k] \in Address
  BY <1>1
<1>6. \A i \in 1 .. n : turns'[pool[i]] = turns[pool[i]] + (IF i = k THEN 1 ELSE 0)
  BY <1>1, <1>4, <1>5 DEF PoolInv
<1>7. PICK c \in Nat, f \in Nat : (f = 0 \/ f < n) /\ EvenSince(c, f)
  BY DEF PoolInv
<1>8. f < n
  BY <1>1, <1>7
<1>9. \E g \in Nat : EvenSince(g, f)'
  <2>1. CASE nextArbiter' # f
    <3>1. \A i \in 1 .. n : Served(i - 1, f)' <=> Served(i - 1, f) \/ i = k
      BY <1>1, <1>3, <1>8, <2>1 DEF Served
    <3>2. ~Served(k - 1, f)
      BY <1>1, <1>8 DEF Served
    <3>3. EvenSince(c, f)'
      BY <1>1, <1>6, <1>7, <3>1, <3>2 DEF EvenSince
    <3>4. QED
      BY <3>3
  <2>2. CASE nextArbiter' = f
    <3>1. \A i \in 1 .. n : ~Served(i - 1, f)'
      BY <1>1, <2>2 DEF Served
    <3>2. \A i \in 1 .. n : Served(i - 1, f) <=> i # k
      BY <1>1, <1>3, <1>8, <2>2 DEF Served
    <3>3. \A i \in 1 .. n : turns'[pool[i]] = c + 1
      <4>1. \A i \in 1 .. n : turns[pool[i]] = IF i # k THEN c + 1 ELSE c
        BY <1>1, <1>7, <3>2 DEF EvenSince
      <4>2. QED
        BY <1>6, <1>7, <4>1
    <3>4. EvenSince(c + 1, f)'
      BY <1>1, <3>1, <3>3 DEF EvenSince
    <3>5. QED
      BY <3>4
  <2>3. QED
    BY <2>1, <2>2
<1>10. PoolTyped' /\ turns' \in [Address -> Nat]
  BY <1>1, <1>3, <1>4 DEF PoolInv, PoolTyped
<1>11. QED
  BY <1>1, <1>8, <1>9, <1>10 DEF PoolInv

LEMMA PoolStays ==
    ASSUME PoolInv, [DeskNext]_allVars
    PROVE  PoolInv'
<1>1. CASE UNCHANGED poolVars
  BY <1>1 DEF poolVars, PoolInv, PoolTyped, EvenSince, Served
<1>2. CASE PoolStep
  BY <1>2, AdditionKeepsPool, RemovalKeepsPool, AssignmentKeepsPool DEF PoolStep
<1>3. QED
  BY <1>1, <1>2 DEF DeskNext, TemplateStep, CreateEscrowTemplate, UpdateEscrowTemplate,
     DeactivateEscrowTemplate, CreateEscrowFromTemplate, deskVars, allVars

-----------------------------------------------------------------------------
(* The invariant of the desk, and what follows from it *)

DeskInv == MoneyInv /\ BooksInv /\ TemplatesSound /\ PoolInv /\ OpenForAWhile

LEMMA DeskStart == DeskInit => DeskInv
<1> SUFFICES ASSUME DeskInit PROVE DeskInv
  OBVIOUS
<1>1. MoneyInv /\ BooksInv
  BY MoneyInit, BooksInit DEF DeskInit
<1>2. TemplatesSound
  <2>1. /\ (CHOOSE a \in Address : TRUE) \in Address
        /\ (CHOOSE t \in Token : TRUE) \in Token
    BY EscrowConstants
  <2>2. QED
    BY <2>1 DEF DeskInit, TemplatesSound, TemplateType, ConfigType, TemplateIds
<1>3. PoolInv
  <2>1. /\ pool = <<>> /\ nextArbiter = 0 /\ turns = [a \in Address |-> 0]
    BY DEF DeskInit
  <2>2. Len(pool) = 0 /\ pool \in Seq(Address)
    BY <2>1
  <2>3. QED
    BY <2>1, <2>2 DEF PoolInv, PoolTyped, EvenSince
<1>4. OpenForAWhile
  BY DEF DeskInit, Init, OpenForAWhile, Exists
<1>5. QED
  BY <1>1, <1>2, <1>3, <1>4 DEF DeskInv

LEMMA DeskStays ==
    ASSUME DeskInv, [DeskNext]_allVars
    PROVE  DeskInv' /\ (Moves \/ UNCHANGED vars)
<1>1. [Next]_vars \/ OpensSoundly
  BY EscrowsMove DEF DeskInv, MoneyInv, PoolInv
<1>2. MoneyInv' /\ (Moves \/ UNCHANGED vars)
  BY <1>1, DeskMoney DEF DeskInv
<1>3. BooksInv'
  BY <1>1, <1>2, BooksStay DEF DeskInv
<1>4. TemplatesSound'
  BY TemplatesStaySound DEF DeskInv, MoneyInv
<1>5. PoolInv'
  BY PoolStays DEF DeskInv
<1>6. OpenForAWhile'
  BY <1>1, <1>2, DatesStay DEF DeskInv, MoneyInv
<1>7. QED
  BY <1>2, <1>3, <1>4, <1>5, <1>6 DEF DeskInv

LEMMA DeskAlways == DeskSpec => []DeskInv
<1>1. DeskInv /\ [DeskNext]_allVars => DeskInv'
  BY DeskStays
<1>2. QED
  BY DeskStart, <1>1, PTL DEF DeskSpec, allVars

(* However arbiters come and go and however many escrows there are, between  *)
(* two changes of the pool no arbiter is assigned twice more than another.   *)
THEOREM PoolTakesTurns == DeskSpec => []TakeTurns
<1>1. PoolInv => TakeTurns
  <2> SUFFICES ASSUME PoolInv PROVE TakeTurns
    OBVIOUS
  <2>1. PICK c \in Nat, s \in Nat : EvenSince(c, s)
    BY DEF PoolInv
  <2>2. DOMAIN pool = 1 .. Len(pool)
    BY DEF PoolInv, PoolTyped
  <2>3. \A i \in 1 .. Len(pool) : turns[pool[i]] \in {c, c + 1}
    BY <2>1 DEF EvenSince
  <2>4. ASSUME NEW i \in DOMAIN pool, NEW j \in DOMAIN pool
        PROVE  turns[pool[i]] <= turns[pool[j]] + 1
    <3>1. turns[pool[i]] \in {c, c + 1} /\ turns[pool[j]] \in {c, c + 1}
      BY <2>2, <2>3
    <3>2. QED
      BY <3>1
  <2>5. ASSUME NEW i \in DOMAIN pool, NEW j \in DOMAIN pool, i # j
        PROVE  pool[i] # pool[j]
    BY <2>2, <2>5 DEF PoolInv
  <2>6. QED
    BY <2>4, <2>5 DEF TakeTurns
<1>2. QED
  BY <1>1, DeskAlways, PTL DEF DeskInv

(* Every escrow's deadline is after its creation, for every template, plan   *)
(* and extension.                                                            *)
THEOREM DeadlinesLieAhead == DeskSpec => []OpenForAWhile
BY DeskAlways, PTL DEF DeskInv

(* With templates and the pool in use the contract's balances are still what *)
(* its unsettled escrows hold, every escrow's deposit is what it paid out    *)
(* and holds, and dispute records, renewal plans and settlements still agree *)
(* with the escrows, those the desk opened among them.                       *)
THEOREM DeskKeepsTheBooks ==
    DeskSpec => [](Conservation /\ Solvency /\ DisputeRecordAgrees /\ RenewalPlanKept
                     /\ SettlementSplit)
<1>1. DeskInv => /\ Conservation /\ Solvency /\ DisputeRecordAgrees
                 /\ RenewalPlanKept /\ SettlementSplit
  BY BackedSolvency, PlansKept, SplitIsFair DEF DeskInv, MoneyInv, BooksInv
<1>2. QED
  BY <1>1, DeskAlways, PTL

(* No call of the desk pays from a settled escrow or changes what it has     *)
(* become, and none moves a token while the contract is paused: a template   *)
(* may be written then, not used.                                            *)
THEOREM DeskRespectsSettlementAndPause == DeskSpec => SettledIsFinal /\ PauseFreezesFunds
<1> DEFINE Final == \A e \in Ids : IsTerminal(e) =>
                      /\ escrow'[e].status = escrow[e].status
                      /\ escrow'[e].amount = escrow[e].amount
                      /\ received'[e] = received[e]
           Frozen == paused => UNCHANGED fundVars
<1>1. ASSUME DeskInv, [DeskNext]_allVars
      PROVE  [Final]_vars
  BY <1>1, DeskStays, MovesAreFinal DEF DeskInv
<1>2. ASSUME [DeskNext]_allVars
      PROVE  [Frozen]_vars
  <2>1. CASE Next
    BY <2>1, NextFreezes
  <2>2. CASE TemplateStep
    BY <2>2 DEF TemplateStep, CreateEscrowTemplate, UpdateEscrowTemplate,
       DeactivateEscrowTemplate, CreateEscrowFromTemplate
  <2>3. CASE PoolStep
    BY <2>3 DEF PoolStep, AddArbiter, RemoveArbiter, CreateEscrowWithPoolArbiter
  <2>4. QED
    BY <1>2, <2>1, <2>2, <2>3 DEF DeskNext, allVars
<1>3. QED
  BY <1>1, <1>2, DeskAlways, PTL DEF DeskSpec, SettledIsFinal, PauseFreezesFunds, allVars

(* Escrows opened from templates or through the pool are kept like all the   *)
(* others: the contract with its desk implements Custody.                    *)
THEOREM DeskImplementsCustody == DeskSpec => KeepsCustody
<1>1. DeskInv /\ DeskInv' /\ [DeskNext]_allVars => [Promise!Next]_(Promise!cvars)
  <2>1. ASSUME UNCHANGED vars
        PROVE  UNCHANGED Promise!cvars
    BY <2>1 DEF vars, fundVars, Promise!cvars, PaidOut, IsTerminal
  <2>2. QED
    BY <2>1, MovesKeepPromise, DeskStays DEF DeskInv
<1>2. DeskInit => Promise!Init
  BY InitKeepsPromise DEF DeskInit
<1>3. QED
  BY <1>1, <1>2, DeskAlways, PTL DEF DeskSpec, KeepsCustody, Promise!Spec, allVars

=============================================================================
