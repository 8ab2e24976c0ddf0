------------------------- MODULE AhjoorEscrowProofs -------------------------
(***************************************************************************)
(* Theorems about AhjoorEscrow, for every set of addresses, tokens, terms  *)
(* and amounts and for every bound: its types, then its money (an escrow's *)
(* conservation, the finality of settlement, the effect of a pause, the    *)
(* refinement of Custody, the solvency of the contract).                   *)
(*                                                                         *)
(* The conservation, the finality and the refinement rest on one lemma,    *)
(* Motion: whatever the call, what it does to a single escrow is to leave  *)
(* its money alone, to open it, to pay a part of it, or to close it with   *)
(* the rest.                                                               *)
(***************************************************************************)
EXTENDS AhjoorEscrow, SequenceTheorems, Sums, TLAPS

-----------------------------------------------------------------------------
(* Arithmetic of fees and shares *)

(* A part of an amount in basis points, rounded down, is a natural number    *)
(* and, multiplied back, does not exceed the exact product.                  *)
LEMMA BpsPart ==
    ASSUME NEW n \in Nat, NEW b \in Nat
    PROVE  /\ (n * b) \div BasisPoints \in Nat
           /\ ((n * b) \div BasisPoints) * BasisPoints <= n * b
<1>1. n * b \in Nat
  OBVIOUS
<1>2. ASSUME NEW p \in Nat
      PROVE  p \div 10000 \in Nat /\ (p \div 10000) * 10000 <= p
  OBVIOUS
<1>3. QED
  BY <1>1, <1>2 DEF BasisPoints

(* The protocol fee never exceeds the amount it is taken from. *)
LEMMA FeeWithinAmount ==
    ASSUME NEW n \in Nat, feeBps \in 0 .. MAX_PROTOCOL_FEE_BPS
    PROVE  /\ ProtocolFee(n) \in Nat
           /\ ProtocolFee(n) <= n
           /\ ProtocolFee(n) * BasisPoints <= n * MAX_PROTOCOL_FEE_BPS
<1>1. feeBps \in Nat /\ feeBps <= 200
  BY DEF MAX_PROTOCOL_FEE_BPS
<1>2. /\ ProtocolFee(n) \in Nat
      /\ ProtocolFee(n) * BasisPoints <= n * feeBps
  BY <1>1, BpsPart DEF ProtocolFee
<1>3. ASSUME NEW f \in Nat, f <= 200
      PROVE  n * f <= n * 200
  BY <1>3
<1>4. n * feeBps <= n * 200
  BY <1>1, <1>3
<1>5. n * feeBps \in Nat
  BY <1>1
<1>6. ProtocolFee(n) * 10000 <= n * 200
  BY <1>2, <1>4, <1>5 DEF BasisPoints
<1>7. QED
  BY <1>2, <1>6 DEF BasisPoints, MAX_PROTOCOL_FEE_BPS

(* The shares of the sellers after the first never add up to more than the   *)
(* amount released, so the first seller's remainder is not negative.         *)
LEMMA SharesWithinTotal ==
    ASSUME NEW list \in SellerList, ValidSellers(list), NEW n \in Nat
    PROVE  /\ SharesAfterFirst(list, n) \in Nat
           /\ SharesAfterFirst(list, n) <= n
<1>1. \A i \in 1 .. 5 : BpsAt(list, i) \in Nat
  <2>1. ASSUME NEW i \in 1 .. 5, i <= Len(list)
        PROVE  list[i] \in [to : Address, bps : Nat]
    <3>1. Len(list) \in Nat
      BY LenProperties DEF SellerList
    <3>2. i \in 1 .. Len(list)
      BY <2>1, <3>1
    <3>3. QED
      BY <3>2, ElementOfSeq DEF SellerList
  <2>2. QED
    BY <2>1 DEF BpsAt
<1>2. \A i \in 1 .. 5 : /\ Share(list, n, i) \in Nat
                        /\ Share(list, n, i) * 10000 <= n * BpsAt(list, i)
  BY <1>1, BpsPart DEF Share, BasisPoints
<1>3. BpsAt(list, 1) + BpsAt(list, 2) + BpsAt(list, 3) + BpsAt(list, 4)
        + BpsAt(list, 5) = 10000
  BY DEF ValidSellers, BasisPoints
<1>4. ASSUME NEW a \in Nat, NEW b \in Nat, NEW c \in Nat, NEW d \in Nat,
             NEW e \in Nat, a + b + c + d + e = 10000
      PROVE  n * b + n * c + n * d + n * e <= n * 10000
  <2>1. n * b + n * c + n * d + n * e = n * (b + c + d + e)
    OBVIOUS
  <2>2. ASSUME NEW k \in Nat, k <= 10000
        PROVE  n * k <= n * 10000
    BY <2>2
  <2>3. b + c + d + e \in Nat /\ b + c + d + e <= 10000
    BY <1>4
  <2>4. QED
    BY <2>1, <2>2, <2>3
<1>5. n * BpsAt(list, 2) + n * BpsAt(list, 3) + n * BpsAt(list, 4)
        + n * BpsAt(list, 5) <= n * 10000
  BY <1>1, <1>3, <1>4
<1>6. \A i \in 1 .. 5 : n * BpsAt(list, i) \in Nat
  BY <1>1
<1>7. QED
  BY <1>2, <1>5, <1>6 DEF SharesAfterFirst

(* A release pays out the whole amount, whatever the shares round to. *)
LEMMA ReleasePaysAll ==
    ASSUME NEW list \in SellerList, ValidSellers(list), NEW n \in Nat
    PROVE  ReleaseOutflow(list, n) = n
BY SharesWithinTotal DEF ReleaseOutflow, FirstShare

-----------------------------------------------------------------------------
(* Type correctness *)

(* Every escrow carries a seller list create_escrow_core accepted. *)
SellersValid == \A e \in Ids : Exists(e) => ValidSellers(escrow[e].sellers)

TypeInv == TypeOK /\ SellersValid

(* A settlement step pays natural amounts. *)
LEMMA PayOutType ==
    ASSUME TypeOK, NEW e \in Ids, NEW s \in Nat, NEW b \in Nat, NEW f \in Nat,
           PayOut(e, s, b, f)
    PROVE  /\ balance' \in [Token -> Int]
           /\ received' \in [Ids -> ReceivedType]
           /\ deposited' \in [Ids -> Nat]
BY DEF TypeOK, PayOut, Receive, ReceivedType, EscrowType

LEMMA NewEscrowType ==
    ASSUME TypeOK, NEW b \in Address, NEW t \in TermsType, NEW d \in Nat,
           t.amount > 0, ValidSellers(t.sellers)
    PROVE  NewEscrow(b, t, d) \in EscrowType
<1>1. t.sellers \in SellerList
  BY DEF TermsType
<1>2. Len(t.sellers) \in 1 .. 5
  BY DEF ValidSellers, MaxSellers
<1>3. t.sellers[1] \in [to : Address, bps : Nat]
  <2>1. \A n \in 1 .. 5 : 1 \in 1 .. n
    OBVIOUS
  <2>2. 1 \in 1 .. Len(t.sellers)
    BY <1>2, <2>1
  <2>3. QED
    BY <1>1, <2>2, ElementOfSeq DEF SellerList
<1>4. QED
  BY <1>1, <1>3 DEF NewEscrow, EscrowType, TermsType, TypeOK, Status,
     OpenStatus

(* Opening an escrow keeps the types and the seller lists valid. *)
LEMMA OpenEscrowType ==
    ASSUME TypeInv, NEW b \in Address, NEW t \in TermsType, NEW d \in Nat,
           t.amount > 0, ValidSellers(t.sellers), OpenEscrow(b, t, d)
    PROVE  TypeInv'
<1> USE DEF TypeInv
<1>1. NewEscrow(b, t, d) \in EscrowType
  BY NewEscrowType
<1>2. nextId \in Ids /\ nextId' \in 0 .. MaxEscrows
  BY EscrowConstants DEF OpenEscrow, TakeIds, TypeOK, Ids
<1>3. escrow' \in [Ids -> EscrowType]
  BY <1>1, <1>2 DEF OpenEscrow, TypeOK
<1>4. t.amount \in Nat
  BY DEF TermsType
<1>5. TypeOK'
  BY <1>2, <1>3, <1>4 DEF OpenEscrow, Stamp, TypeOK, configVars, sideVars, TermsType
<1>6. SellersValid'
  BY <1>2 DEF OpenEscrow, SellersValid, Exists, TypeOK, NewEscrow
<1>7. QED
  BY <1>5, <1>6

LEMMA TypeInit == Init => TypeInv
<1> SUFFICES ASSUME Init PROVE TypeInv
  OBVIOUS
<1>1. escrow \in [Ids -> EscrowType]
  <2>1. /\ (CHOOSE a \in Address : TRUE) \in Address
        /\ (CHOOSE t \in Token : TRUE) \in Token
    BY EscrowConstants
  <2>2. <<>> \in SellerList
    BY EmptySeq DEF SellerList
  <2>3. QED
    BY <2>1, <2>2 DEF Init, EscrowType, Status
<1>2. SellersValid
  BY DEF Init, SellersValid, Exists
<1>3. /\ dispute \in [Ids -> DisputeType]
      /\ proposal \in [Ids -> ProposalType]
      /\ received \in [Ids -> ReceivedType]
  BY DEF Init, DisputeType, NoDispute, ProposalType, NoProposal, ReceivedType,
     NothingReceived
<1>5. /\ evidence \in [Ids -> [Address -> 0 .. MaxEvidence]]
      /\ nextId \in 0 .. MaxEscrows
      /\ feeBps \in 0 .. MAX_PROTOCOL_FEE_BPS
  BY EscrowConstants DEF Init, MAX_PROTOCOL_FEE_BPS
<1>6. /\ tokenAllowance \in [Address -> [Token -> Nat]]
      /\ balance \in [Token -> Int]
      /\ lastBuyerAction \in [Ids -> Nat]
      /\ renewalAllowance \in [Ids -> Nat]
      /\ deposited \in [Ids -> Nat]
      /\ generation \in [Ids -> Nat]
  BY DEF Init
<1>7. /\ now \in Nat
      /\ admin \in Address \cup {NoAddress}
      /\ paused \in BOOLEAN
      /\ allowed \subseteq Token
  BY DEF Init
<1>8. TypeOK
  BY <1>1, <1>3, <1>5, <1>6, <1>7 DEF TypeOK
<1>4. QED
  BY <1>2, <1>8 DEF TypeInv

LEMMA BuyerRecordsType ==
    ASSUME TypeOK, NEW e \in Ids, NEW c \in Address
    PROVE  BuyerActs(e, c) \in [Ids -> Nat]
BY DEF TypeOK, BuyerActs, Stamp

(* Changing fields of one escrow to values of their types, but not its       *)
(* seller list, keeps the type and the seller list valid.                    *)
LEMMA EscrowUpdateType ==
    ASSUME TypeInv, NEW e \in Ids, Exists(e), NEW x \in EscrowType,
           x.sellers = escrow[e].sellers, escrow' = [escrow EXCEPT ![e] = x]
    PROVE  escrow' \in [Ids -> EscrowType] /\ SellersValid'
BY DEF TypeInv, TypeOK, SellersValid, Exists

LEMMA StatusUpdateType ==
    ASSUME TypeInv, NEW e \in Ids, Exists(e), NEW st \in TerminalStatus,
           SetStatus(e, st)
    PROVE  escrow' \in [Ids -> EscrowType] /\ SellersValid'
<1> DEFINE x == [escrow[e] EXCEPT !.status = st]
<1>a. escrow[e] \in EscrowType
  BY DEF TypeInv, TypeOK
<1>b. st \in Status
  BY DEF Status
<1>1. x \in EscrowType /\ x.sellers = escrow[e].sellers
  BY <1>a, <1>b DEF EscrowType
<1>2. escrow' = [escrow EXCEPT ![e] = x]
  BY DEF SetStatus, TypeInv, TypeOK, EscrowType
<1>3. QED
  BY <1>1, <1>2, EscrowUpdateType

LEMMA PartyStepType ==
    ASSUME TypeInv, NEW c \in Address, NEW e \in Ids, PartyStep(c, e)
    PROVE  TypeInv'
<1> USE DEF TypeInv
<1>a. Exists(e) => /\ escrow[e].sellers \in SellerList
                   /\ ValidSellers(escrow[e].sellers)
  BY DEF TypeOK, EscrowType, SellersValid
<1>b. /\ escrow[e] \in EscrowType
      /\ escrow[e].amount \in Nat
      /\ nextId \in Nat /\ MaxEscrows \in Nat
  BY EscrowConstants DEF TypeOK, EscrowType
<1>c. IsOpen(e) \/ IsDisputed(e) => Exists(e)
  BY DEF IsOpen, IsDisputed, OpenStatus, DisputedStatus, Exists
<1>d. IsOpen(e) => ReleaseOutflow(escrow[e].sellers, escrow[e].amount)
                     = escrow[e].amount
  BY <1>a, <1>b, <1>c, ReleasePaysAll
<1>1. ASSUME ReleaseEscrow(c, e), ReleaseOnly(c, e)
      PROVE  TypeInv'
  <2>1. PayOut(e, escrow[e].amount, 0, 0)
    BY <1>1, <1>d DEF ReleaseOnly, ReleaseEscrow
  <2>2. /\ balance' \in [Token -> Int]
        /\ received' \in [Ids -> ReceivedType]
        /\ deposited' \in [Ids -> Nat]
    BY <1>b, <2>1, PayOutType
  <2>3. escrow' \in [Ids -> EscrowType] /\ SellersValid'
    BY <1>1, <1>c, StatusUpdateType DEF ReleaseEscrow, ReleaseOnly,
       TerminalStatus
  <2>4. QED
    BY <1>1, <2>2, <2>3, BuyerRecordsType DEF ReleaseEscrow, ReleaseOnly,
       TypeOK, configVars, sideVars, renewalVars
<1>2. ASSUME ReleaseEscrow(c, e), ReleaseAndRenew(c, e)
      PROVE  TypeInv'
  <2> DEFINE amt == escrow[e].amount
             tok == escrow[e].token
  <2>1. /\ ReleaseOutflow(escrow[e].sellers, amt) = amt
        /\ Exists(e)
    BY <1>2, <1>c, <1>d DEF ReleaseEscrow
  <2>2. nextId \in Ids /\ nextId' \in 0 .. MaxEscrows
    BY <1>2, <1>b DEF ReleaseAndRenew, TakeIds, Ids
  <2>3. Renewed(e) \in EscrowType /\ Renewed(e).sellers = escrow[e].sellers
    <3> DEFINE x == escrow[e]
               d == now + (x.deadline - x.createdAt)
               r == IF x.renewalCount = 0 THEN 0 ELSE x.renewalsRemaining - 1
    <3>1. /\ x.deadline > x.createdAt
          /\ x.renewalCount = 0 \/ x.renewalsRemaining # 0
      BY <1>2 DEF ReleaseAndRenew, WantsRenewal
    <3>2. /\ x.deadline \in Nat /\ x.createdAt \in Nat /\ now \in Nat
          /\ x.renewalsRemaining \in Nat
      BY <1>b DEF EscrowType, TypeOK
    <3>3. d \in Nat /\ r \in Nat
      BY <3>1, <3>2
    <3>4. Renewed(e) = [x EXCEPT !.status = "Active", !.createdAt = now,
                                 !.deadline = d, !.renewalsRemaining = r]
      BY <1>b DEF Renewed, EscrowType
    <3> HIDE DEF d, r
    <3>5. QED
      BY <1>b, <3>2, <3>3, <3>4 DEF EscrowType, Status, OpenStatus
  <2>4. escrow' \in [Ids -> EscrowType] /\ SellersValid'
    <3> DEFINE old == [escrow[e] EXCEPT !.status = "Released"]
    <3>1. old \in EscrowType /\ old.sellers = escrow[e].sellers
      BY <1>b DEF EscrowType, Status, TerminalStatus
    <3>2. escrow' = [escrow EXCEPT ![e] = old, ![nextId] = Renewed(e)]
      BY <1>2, <1>b DEF ReleaseAndRenew, TypeOK, EscrowType
    <3>3. QED
      BY <1>a, <2>1, <2>2, <2>3, <3>1, <3>2 DEF TypeOK, SellersValid, Exists
  <2>5. /\ balance' \in [Token -> Int]
        /\ received' \in [Ids -> ReceivedType]
        /\ deposited' \in [Ids -> Nat]
    BY <1>2, <1>b, <2>1, <2>2 DEF ReleaseAndRenew, Receive, ReceivedType,
       TypeOK, EscrowType
  <2>6. /\ renewalAllowance' \in [Ids -> Nat]
        /\ tokenAllowance' \in [Address -> [Token -> Nat]]
        /\ generation' \in [Ids -> Nat]
    <3> DEFINE b == escrow[e].buyer
    <3>1. /\ renewalAllowance[e] # 0
          /\ tokenAllowance[b][tok] >= amt
          /\ renewalAllowance' =
               [renewalAllowance EXCEPT ![nextId] = renewalAllowance[e] - 1]
          /\ tokenAllowance' = [tokenAllowance EXCEPT ![b][tok] = @ - amt]
          /\ generation' = [generation EXCEPT ![nextId] = generation[e] + 1]
      BY <1>2 DEF ReleaseAndRenew
    <3>2. b \in Address /\ tok \in Token
      BY <1>b DEF EscrowType
    <3>3. /\ renewalAllowance[e] \in Nat
          /\ tokenAllowance[b][tok] \in Nat
          /\ generation[e] \in Nat
      BY <3>2 DEF TypeOK
    <3>4. /\ renewalAllowance[e] - 1 \in Nat
          /\ tokenAllowance[b][tok] - amt \in Nat
          /\ generation[e] + 1 \in Nat
      BY <1>b, <3>1, <3>3
    <3> HIDE DEF b, tok, amt
    <3>5. QED
      BY <2>2, <3>1, <3>2, <3>4 DEF TypeOK
  <2>7. lastBuyerAction' \in [Ids -> Nat]
    BY <1>2, <2>2, BuyerRecordsType DEF ReleaseAndRenew, Stamp, TypeOK
  <2>8. QED
    BY <1>2, <2>2, <2>4, <2>5, <2>6, <2>7 DEF ReleaseEscrow, TypeOK,
       configVars, sideVars
<1>3. ASSUME NEW x \in Portion, PartialRelease(c, e, x)
      PROVE  TypeInv'
  <2>1. x \in Nat /\ escrow[e].amount - x \in Nat
    BY <1>3, <1>b, EscrowConstants DEF PartialRelease
  <2>2. PayOut(e, x, 0, 0)
    BY <1>3 DEF PartialRelease
  <2>3. /\ balance' \in [Token -> Int]
        /\ received' \in [Ids -> ReceivedType]
        /\ deposited' \in [Ids -> Nat]
    BY <2>1, <2>2, PayOutType
  <2>4. escrow' \in [Ids -> EscrowType] /\ SellersValid'
    <3> DEFINE y == [escrow[e] EXCEPT
                       !.amount = @ - x,
                       !.status = IF escrow[e].amount = x THEN "Released"
                                  ELSE "PartiallyReleased"]
    <3>1. escrow' = [escrow EXCEPT ![e] = y]
      BY <1>3, <1>b DEF PartialRelease, TypeOK, EscrowType
    <3>2. y \in EscrowType /\ y.sellers = escrow[e].sellers
      BY <1>b, <2>1 DEF EscrowType, Status, OpenStatus, TerminalStatus
    <3>3. QED
      BY <1>3, <1>c, <3>1, <3>2, EscrowUpdateType DEF PartialRelease
  <2>5. QED
    BY <1>3, <2>3, <2>4, BuyerRecordsType DEF PartialRelease, TypeOK,
       configVars, sideVars, renewalVars
<1>4. ASSUME NEW x \in Portion, DisputeEscrow(c, e, x)
      PROVE  TypeInv'
  <2>1. x \in Nat /\ escrow[e].amount - x \in Nat
    BY <1>4, <1>b, EscrowConstants DEF DisputeEscrow
  <2>2. PayOut(e, escrow[e].amount - x, 0, 0)
    BY <1>4 DEF DisputeEscrow
  <2>3. /\ balance' \in [Token -> Int]
        /\ received' \in [Ids -> ReceivedType]
        /\ deposited' \in [Ids -> Nat]
    BY <2>1, <2>2, PayOutType
  <2>4. escrow' \in [Ids -> EscrowType] /\ SellersValid'
    <3> DEFINE y == [escrow[e] EXCEPT
                       !.amount = x,
                       !.status = IF x < escrow[e].amount
                                  THEN "PartiallyDisputed" ELSE "Disputed"]
    <3>1. escrow' = [escrow EXCEPT ![e] = y]
      BY <1>4, <1>b DEF DisputeEscrow, TypeOK, EscrowType
    <3>2. y \in EscrowType /\ y.sellers = escrow[e].sellers
      BY <1>b, <2>1 DEF EscrowType, Status, DisputedStatus
    <3>3. QED
      BY <1>4, <1>c, <3>1, <3>2, EscrowUpdateType DEF DisputeEscrow
  <2>5. dispute' \in [Ids -> DisputeType]
    BY <1>4, <2>1 DEF DisputeEscrow, TypeOK, DisputeType
  <2>6. QED
    BY <1>4, <2>3, <2>4, <2>5, BuyerRecordsType DEF DisputeEscrow, TypeOK,
       configVars, renewalVars
<1>5. ASSUME NEW toSeller \in BOOLEAN, ResolveDispute(c, e, toSeller)
      PROVE  TypeInv'
  <2> DEFINE fee == ProtocolFee(escrow[e].amount)
             rest == escrow[e].amount - fee
  <2>1. fee \in Nat /\ rest \in Nat
    BY <1>b, FeeWithinAmount DEF TypeOK
  <2>2. \/ PayOut(e, rest, 0, fee) /\ SetStatus(e, "Released")
        \/ PayOut(e, 0, rest, fee) /\ SetStatus(e, "Refunded")
    BY <1>5 DEF ResolveDispute
  <2>3. /\ balance' \in [Token -> Int]
        /\ received' \in [Ids -> ReceivedType]
        /\ deposited' \in [Ids -> Nat]
    BY <2>1, <2>2, PayOutType
  <2>4. escrow' \in [Ids -> EscrowType] /\ SellersValid'
    BY <1>5, <1>c, <2>2, StatusUpdateType DEF ResolveDispute, TerminalStatus
  <2>5. dispute' \in [Ids -> DisputeType]
    BY <1>5 DEF ResolveDispute, MarkResolved, TypeOK, DisputeType
  <2>6. QED
    BY <1>5, <2>3, <2>4, <2>5 DEF ResolveDispute, TypeOK, configVars,
       renewalVars
<1>6. CASE SubmitEvidence(c, e)
  BY <1>6, BuyerRecordsType, EscrowConstants DEF SubmitEvidence, TypeOK, SellersValid, Exists,
     configVars, fundVars, renewalVars
<1>7. CASE ClaimInactivityRelease(c, e)
  <2>1. /\ balance' \in [Token -> Int]
        /\ received' \in [Ids -> ReceivedType]
        /\ deposited' \in [Ids -> Nat]
    BY <1>7, <1>b, PayOutType DEF ClaimInactivityRelease
  <2>2. escrow' \in [Ids -> EscrowType] /\ SellersValid'
    BY <1>7, <1>c, StatusUpdateType DEF ClaimInactivityRelease, TerminalStatus
  <2>3. QED
    BY <1>7, <2>1, <2>2 DEF ClaimInactivityRelease, TypeOK, configVars,
       sideVars, renewalVars
<1>8. ASSUME NEW d \in Deadline, ProposeDeadlineExtension(c, e, d)
      PROVE  TypeInv'
  BY <1>8, BuyerRecordsType, EscrowConstants DEF ProposeDeadlineExtension,
     TypeOK, SellersValid, Exists, ProposalType, configVars, fundVars,
     renewalVars
<1>9. CASE AcceptDeadlineExtension(c, e)
  <2> DEFINE y == [escrow[e] EXCEPT !.deadline = proposal[e].deadline]
  <2>1. escrow' = [escrow EXCEPT ![e] = y]
    BY <1>9, <1>b DEF AcceptDeadlineExtension, TypeOK, EscrowType
  <2>2. y \in EscrowType /\ y.sellers = escrow[e].sellers
    BY <1>b DEF EscrowType, TypeOK, ProposalType
  <2>3. escrow' \in [Ids -> EscrowType] /\ SellersValid'
    BY <1>9, <2>1, <2>2, EscrowUpdateType DEF AcceptDeadlineExtension, Extendable
  <2>4. proposal' \in [Ids -> ProposalType]
    BY <1>9 DEF AcceptDeadlineExtension, TypeOK, ProposalType, NoProposal
  <2>5. QED
    BY <1>9, <2>3, <2>4, BuyerRecordsType DEF AcceptDeadlineExtension, TypeOK,
       configVars, fundVars, renewalVars
<1>10. ASSUME NEW b \in Heirs, TransferBuyerRole(c, e, b)
       PROVE  TypeInv'
  <2> DEFINE y == [escrow[e] EXCEPT !.buyer = b]
  <2>1. b \in Address
    BY EscrowConstants
  <2>2. escrow' = [escrow EXCEPT ![e] = y]
    BY <1>10, <1>b DEF TransferBuyerRole, TypeOK, EscrowType
  <2>3. y \in EscrowType /\ y.sellers = escrow[e].sellers
    BY <1>b, <2>1 DEF EscrowType
  <2>4. escrow' \in [Ids -> EscrowType] /\ SellersValid'
    BY <1>10, <2>2, <2>3, EscrowUpdateType DEF TransferBuyerRole, Exists
  <2>5. QED
    BY <1>10, <2>4, BuyerRecordsType DEF TransferBuyerRole, TypeOK,
       configVars, sideVars, fundVars, renewalVars
<1>11. CASE UpdateMetadata(c, e)
  BY <1>11, BuyerRecordsType DEF UpdateMetadata, TypeOK, SellersValid, Exists,
     configVars, sideVars, fundVars, renewalVars
<1>12. ASSUME NEW n \in Allowance, SetRenewalAllowance(c, e, n)
       PROVE  TypeInv'
  <2>1. n \in Nat
    BY EscrowConstants
  <2>2. escrow[e].amount * n \in Nat /\ escrow[e].token \in Token
    BY <1>b, <2>1 DEF EscrowType
  <2>3. /\ tokenAllowance' \in [Address -> [Token -> Nat]]
        /\ renewalAllowance' \in [Ids -> Nat]
    BY <1>12, <2>1, <2>2 DEF SetRenewalAllowance, TypeOK
  <2>4. QED
    BY <1>12, <2>3, BuyerRecordsType DEF SetRenewalAllowance, TypeOK,
       SellersValid, Exists, configVars, sideVars, fundVars
<1>13. CASE CancelAutoRenew(c, e)
  <2> DEFINE y == [escrow[e] EXCEPT !.autoRenew = FALSE, !.renewalsRemaining = 0]
  <2>1. escrow' = [escrow EXCEPT ![e] = y]
    BY <1>13, <1>b DEF CancelAutoRenew, TypeOK, EscrowType
  <2>2. y \in EscrowType /\ y.sellers = escrow[e].sellers
    BY <1>b DEF EscrowType
  <2>3. escrow' \in [Ids -> EscrowType] /\ SellersValid'
    BY <1>13, <2>1, <2>2, EscrowUpdateType DEF CancelAutoRenew
  <2>4. QED
    BY <1>13, <2>3, BuyerRecordsType DEF CancelAutoRenew, TypeOK, configVars,
       sideVars, fundVars
<1>14. QED
  BY <1>1, <1>2, <1>3, <1>4, <1>5, <1>6, <1>7, <1>8, <1>9, <1>10, <1>11,
     <1>12, <1>13 DEF PartyStep, ReleaseEscrow

LEMMA TypeNext == TypeInv /\ [Next]_vars => TypeInv'
<1> SUFFICES ASSUME TypeInv, [Next]_vars PROVE TypeInv'
  OBVIOUS
<1> USE DEF TypeInv
<1>1. CASE UNCHANGED vars
  BY <1>1 DEF vars, configVars, sideVars, fundVars, TypeOK,
     SellersValid, Exists
<1>2. CASE \E a \in Admins : AdminStep(a)
  <2>1. PICK a \in Address : AdminStep(a)
    BY <1>2, EscrowConstants
  <2>2. UNCHANGED <<escrow>>
    BY <2>1 DEF AdminStep, Initialize, PauseContract, ResumeContract,
       AddAllowedToken, RemoveAllowedToken, UpdateProtocolFee
  <2>3. SellersValid'
    BY <2>2 DEF SellersValid, Exists
  <2>4. CASE \E f \in FeeRate : UpdateProtocolFee(a, f)
    BY <2>3, <2>4, EscrowConstants DEF UpdateProtocolFee, TypeOK, sideVars,
       fundVars, MAX_PROTOCOL_FEE_BPS
  <2>5. CASE ~ \E f \in FeeRate : UpdateProtocolFee(a, f)
    BY <2>1, <2>3, <2>5 DEF AdminStep, Initialize, PauseContract,
       ResumeContract, AddAllowedToken, RemoveAllowedToken, TypeOK, sideVars,
       fundVars
  <2>6. QED
    BY <2>4, <2>5
<1>3. CASE \E b \in Buyers : CreateStep(b)
  <2>1. PICK b \in Address : CreateStep(b)
    BY <1>3, EscrowConstants
  <2>2. ASSUME NEW t \in Terms, NEW d \in Deadline, CreateEscrow(b, t, d)
        PROVE  TypeInv'
    <3>1. t \in TermsType /\ d \in Nat
      BY EscrowConstants
    <3>2. t.amount > 0 /\ ValidSellers(t.sellers) /\ OpenEscrow(b, t, d)
      BY <2>2 DEF CreateEscrow, Acceptable
    <3>3. QED
      BY <3>1, <3>2, OpenEscrowType
  <2>3. ASSUME NEW t1 \in Terms, NEW t2 \in Terms, NEW d1 \in Deadline,
               NEW d2 \in Deadline, CreateEscrowsBatch(b, t1, d1, t2, d2)
        PROVE  TypeInv'
    <3> DEFINE u1 == [t1 EXCEPT !.window = 0]
               u2 == [t2 EXCEPT !.window = 0]
    <3>1. /\ t1 \in TermsType /\ t2 \in TermsType
          /\ u1 \in TermsType /\ u2 \in TermsType
          /\ d1 \in Nat /\ d2 \in Nat
      BY EscrowConstants DEF TermsType
    <3>2. Acceptable(u1, d1) /\ Acceptable(u2, d2)
      BY <2>3, <3>1 DEF CreateEscrowsBatch, Acceptable, TermsType
    <3>3. NewEscrow(b, u1, d1) \in EscrowType /\ NewEscrow(b, u2, d2) \in EscrowType
      BY <3>1, <3>2, NewEscrowType DEF Acceptable
    <3>a. nextId + 1 < MaxEscrows /\ nextId' = nextId + 2
      BY <2>3 DEF CreateEscrowsBatch, TakeIds
    <3>b. nextId \in Nat /\ MaxEscrows \in Nat
      BY EscrowConstants DEF TypeOK
    <3>4. nextId \in Ids /\ nextId + 1 \in Ids /\ nextId' \in 0 .. MaxEscrows
      BY <3>a, <3>b DEF Ids
    <3>5. escrow' = [escrow EXCEPT ![nextId] = NewEscrow(b, u1, d1),
                                   ![nextId + 1] = NewEscrow(b, u2, d2)]
      BY <2>3 DEF CreateEscrowsBatch
    <3>6. escrow' \in [Ids -> EscrowType]
      BY <3>3, <3>4, <3>5 DEF TypeOK
    <3>7. t1.amount \in Nat /\ t2.amount \in Nat
      BY <2>3, <3>1 DEF CreateEscrowsBatch, Acceptable, TermsType
    <3>c. balance' \in [Token -> Int] /\ deposited' \in [Ids -> Nat]
      <4>1. /\ deposited' = [deposited EXCEPT ![nextId] = t1.amount,
                                              ![nextId + 1] = t2.amount]
            /\ balance' = [k \in Token |->
                             balance[k] + (IF t1.token = k THEN t1.amount ELSE 0)
                                  + (IF t2.token = k THEN t2.amount ELSE 0)]
        BY <2>3 DEF CreateEscrowsBatch
      <4>2. balance \in [Token -> Int] /\ deposited \in [Ids -> Nat]
        BY DEF TypeOK
      <4>3. QED
        BY <3>4, <3>7, <4>1, <4>2
    <3>8. TypeOK'
      BY <2>3, <3>4, <3>6, <3>c DEF CreateEscrowsBatch, TypeOK,
         configVars, sideVars
    <3>9. SellersValid'
      BY <3>2, <3>4, <3>5 DEF SellersValid, Exists, TypeOK, Acceptable, NewEscrow
    <3>10. QED
      BY <3>8, <3>9
  <2>4. QED
    BY <2>1, <2>2, <2>3 DEF CreateStep
<1>4. CASE \E c \in Address, e \in Ids : PartyStep(c, e)
  BY <1>4, PartyStepType
<1>5. CASE \E e \in Ids : AutoReleaseExpired(e)
  <2>1. PICK e \in Ids : AutoReleaseExpired(e)
    BY <1>5
  <2>2. Exists(e)
    BY <2>1 DEF AutoReleaseExpired, IsOpen, OpenStatus, Exists
  <2>3. escrow[e].amount \in Nat
    BY DEF TypeOK, EscrowType
  <2>4. /\ balance' \in [Token -> Int]
        /\ received' \in [Ids -> ReceivedType]
        /\ deposited' \in [Ids -> Nat]
    BY <2>1, <2>3, PayOutType DEF AutoReleaseExpired
  <2>5. escrow' \in [Ids -> EscrowType] /\ SellersValid'
    BY <2>1, <2>2, StatusUpdateType DEF AutoReleaseExpired, TerminalStatus
  <2>6. QED
    BY <2>1, <2>4, <2>5 DEF AutoReleaseExpired, TypeOK, configVars, sideVars,
       renewalVars
<1>6. CASE Tick
  BY <1>6 DEF Tick, TypeOK, SellersValid, Exists, configVars, sideVars,
     fundVars
<1>7. CASE \E a \in Address, t \in Token : AllowanceLapses(a, t)
  BY <1>7 DEF AllowanceLapses, TypeOK, SellersValid, Exists, configVars,
     sideVars, fundVars
<1>8. QED
  BY <1>1, <1>2, <1>3, <1>4, <1>5, <1>6, <1>7 DEF Next

(* Every reachable state is well typed: no amount, share, allowance or       *)
(* counter ever leaves its range.                                            *)
THEOREM TypeCorrect == Spec => []TypeOK
<1>1. Spec => []TypeInv
  BY TypeInit, TypeNext, PTL DEF Spec
<1>2. TypeInv => TypeOK
  BY DEF TypeInv
<1>3. QED
  BY <1>1, <1>2, PTL


Live(e) == IsOpen(e) \/ IsDisputed(e)

Untouched(e) ==
    /\ escrow'[e].status = escrow[e].status
    /\ escrow'[e].amount = escrow[e].amount
    /\ deposited'[e] = deposited[e]
    /\ received'[e] = received[e]

Opened(e) ==
    /\ escrow'[e].status = "Active"
    /\ escrow'[e].amount > 0
    /\ deposited'[e] = escrow'[e].amount
    /\ received'[e] = received[e]

Reduced(e) ==
    /\ Live(e) /\ Live(e)'
    /\ escrow'[e].amount > 0
    /\ deposited'[e] = deposited[e]
    /\ PaidOut(e)' + escrow'[e].amount = PaidOut(e) + escrow[e].amount
    /\ PaidOut(e)' >= PaidOut(e)

Closed(e) ==
    /\ Live(e) /\ IsTerminal(e)'
    /\ deposited'[e] = deposited[e]
    /\ PaidOut(e)' = PaidOut(e) + escrow[e].amount

New(e) == nextId <= e /\ e < nextId'

Moves ==
    /\ nextId' >= nextId
    /\ \A e \in Ids :
         /\ New(e) => Opened(e)
         /\ ~New(e) => Untouched(e) \/ Reduced(e) \/ Closed(e)

-----------------------------------------------------------------------------
(* Motion *)

LEMMA NothingNew ==
    ASSUME TypeInv, nextId' = nextId
    PROVE  nextId' >= nextId /\ \A e \in Ids : ~New(e)
BY EscrowConstants DEF TypeInv, TypeOK, New, Ids

(* A step that leaves statuses, amounts, deposits and payments alone. *)
LEMMA QuietMoves ==
    ASSUME TypeInv, UNCHANGED <<nextId, deposited, received>>,
           \A e \in Ids : /\ escrow'[e].status = escrow[e].status
                          /\ escrow'[e].amount = escrow[e].amount
    PROVE  Moves
<1>1. nextId' >= nextId /\ \A e \in Ids : ~New(e)
  BY NothingNew
<1>2. QED
  BY <1>1 DEF Moves, Untouched

(* A payment out of one live escrow that takes its amount to amt. *)
LEMMA PayOutMoves ==
    ASSUME TypeInv, NEW e \in Ids, Live(e), nextId' = nextId,
           NEW s \in Nat, NEW b \in Nat, NEW f \in Nat, PayOut(e, s, b, f),
           \A d \in Ids \ {e} : escrow'[d] = escrow[d],
           \/ /\ escrow'[e].status \in TerminalStatus
              /\ s + b + f = escrow[e].amount
           \/ /\ escrow'[e].status \in OpenStatus \cup DisputedStatus
              /\ escrow'[e].amount \in Nat \ {0}
              /\ s + b + f + escrow'[e].amount = escrow[e].amount
    PROVE  Moves
<1>1. nextId' >= nextId /\ \A d \in Ids : ~New(d)
  BY NothingNew
<1>2. received[e] \in ReceivedType
  BY DEF TypeInv, TypeOK
<1>3. /\ received' = [received EXCEPT
                        ![e] = [sellers |-> received[e].sellers + s,
                                buyer |-> received[e].buyer + b,
                                fee |-> received[e].fee + f]]
      /\ deposited' = deposited
  BY DEF PayOut, Receive
<1>4. /\ \A d \in Ids \ {e} : received'[d] = received[d]
      /\ PaidOut(e)' = PaidOut(e) + (s + b + f)
      /\ PaidOut(e) \in Nat
  BY <1>2, <1>3 DEF TypeInv, TypeOK, PaidOut, ReceivedType
<1>5. ASSUME NEW d \in Ids \ {e}
      PROVE  Untouched(d)
  BY <1>3, <1>4 DEF Untouched
<1>6. Reduced(e) \/ Closed(e)
  <2>1. escrow[e].amount \in Nat
    BY DEF TypeInv, TypeOK, EscrowType
  <2>2. CASE escrow'[e].status \in TerminalStatus /\ s + b + f = escrow[e].amount
    BY <1>3, <1>4, <2>2 DEF Closed, IsTerminal
  <2>3. CASE /\ escrow'[e].status \in OpenStatus \cup DisputedStatus
             /\ escrow'[e].amount \in Nat \ {0}
             /\ s + b + f + escrow'[e].amount = escrow[e].amount
    BY <1>3, <1>4, <2>1, <2>3 DEF Reduced, Live, IsOpen, IsDisputed
  <2>4. QED
    BY <2>2, <2>3
<1>7. QED
  BY <1>1, <1>5, <1>6 DEF Moves

(* SetStatus touches the status of one escrow only. *)
LEMMA SetStatusEffect ==
    ASSUME TypeInv, NEW e \in Ids, NEW st, SetStatus(e, st)
    PROVE  /\ escrow'[e].status = st
           /\ \A d \in Ids \ {e} : escrow'[d] = escrow[d]
BY DEF SetStatus, TypeInv, TypeOK, EscrowType

LEMMA PartyMoves ==
    ASSUME TypeInv, Allocated, Conservation,
           NEW c \in Address, NEW e \in Ids, PartyStep(c, e)
    PROVE  Moves
<1>a. /\ escrow \in [Ids -> EscrowType]
      /\ escrow[e].amount \in Nat
      /\ nextId \in Nat
  BY EscrowConstants DEF TypeInv, TypeOK, EscrowType
<1>b. IsOpen(e) => ReleaseOutflow(escrow[e].sellers, escrow[e].amount)
                     = escrow[e].amount
  <2>1. IsOpen(e) => Exists(e)
    BY DEF IsOpen, OpenStatus, Exists
  <2>2. Exists(e) => /\ escrow[e].sellers \in SellerList
                     /\ ValidSellers(escrow[e].sellers)
    BY DEF TypeInv, TypeOK, EscrowType, SellersValid
  <2>3. QED
    BY <1>a, <2>1, <2>2, ReleasePaysAll
<1>1. ASSUME ReleaseEscrow(c, e), ReleaseOnly(c, e)
      PROVE  Moves
  <2>1. /\ IsOpen(e)
        /\ PayOut(e, escrow[e].amount, 0, 0)
        /\ SetStatus(e, "Released")
        /\ nextId' = nextId
    BY <1>1, <1>b DEF ReleaseEscrow, ReleaseOnly, renewalVars
  <2>2. QED
    BY <1>a, <2>1, SetStatusEffect, PayOutMoves DEF Live, TerminalStatus
<1>2. ASSUME ReleaseEscrow(c, e), ReleaseAndRenew(c, e)
      PROVE  Moves
  <2> DEFINE amt == escrow[e].amount
  <2>1. /\ IsOpen(e) /\ Exists(e)
        /\ ReleaseOutflow(escrow[e].sellers, amt) = amt
    BY <1>2, <1>b DEF ReleaseEscrow, IsOpen, OpenStatus, Exists
  <2>2. /\ nextId < MaxEscrows
        /\ nextId' = nextId + 1
        /\ escrow' = [escrow EXCEPT ![e].status = "Released",
                                    ![nextId] = Renewed(e)]
        /\ deposited' = [deposited EXCEPT ![nextId] = amt]
        /\ Receive(e, amt, 0, 0)
    BY <1>2, <2>1 DEF ReleaseAndRenew, TakeIds
  <2>3. nextId \in Ids /\ e < nextId /\ e # nextId
    BY <1>a, <2>1, <2>2, EscrowConstants DEF Allocated, Ids
  <2>4. /\ escrow'[nextId] = Renewed(e)
        /\ escrow'[e].status = "Released"
        /\ \A d \in Ids \ {e, nextId} : escrow'[d] = escrow[d]
    BY <1>a, <2>2, <2>3 DEF EscrowType
  <2>5. Renewed(e).status = "Active" /\ Renewed(e).amount = amt
    BY <1>a DEF Renewed, EscrowType
  <2>6. /\ \A d \in Ids \ {nextId} : deposited'[d] = deposited[d]
        /\ deposited'[nextId] = amt
    BY <2>2, <2>3 DEF TypeInv, TypeOK
  <2>7. /\ \A d \in Ids \ {e} : received'[d] = received[d]
        /\ PaidOut(e)' = PaidOut(e) + amt
    BY <1>a, <2>2 DEF Receive, PaidOut, TypeInv, TypeOK, ReceivedType
  <2>8. amt > 0
    BY <2>1 DEF Conservation, Held
  <2>9. QED
    <3>1. Closed(e)
      BY <2>1, <2>3, <2>4, <2>6, <2>7 DEF Closed, Live, IsTerminal, TerminalStatus
    <3>2. Opened(nextId)
      BY <2>3, <2>4, <2>5, <2>6, <2>7, <2>8 DEF Opened
    <3>3. \A d \in Ids \ {e, nextId} : Untouched(d)
      BY <2>4, <2>6, <2>7 DEF Untouched
    <3>4. \A d \in Ids : New(d) <=> d = nextId
      BY <1>a, <2>2 DEF New, Ids
    <3>5. nextId' >= nextId
      BY <1>a, <2>2
    <3>6. QED
      BY <2>3, <3>1, <3>2, <3>3, <3>4, <3>5 DEF Moves
<1>3. ASSUME NEW x \in Portion, PartialRelease(c, e, x)
      PROVE  Moves
  <2> DEFINE st == IF escrow[e].amount = x THEN "Released"
                   ELSE "PartiallyReleased"
  <2>1. /\ x \in Nat /\ x <= escrow[e].amount
        /\ IsOpen(e) /\ nextId' = nextId
        /\ PayOut(e, x, 0, 0)
        /\ escrow' = [escrow EXCEPT ![e].amount = @ - x, ![e].status = st]
    BY <1>3, EscrowConstants DEF PartialRelease, renewalVars
  <2>2. /\ escrow'[e].status = st
        /\ escrow'[e].amount = escrow[e].amount - x
        /\ \A d \in Ids \ {e} : escrow'[d] = escrow[d]
    BY <1>a, <2>1 DEF EscrowType
  <2>3. \/ st \in TerminalStatus /\ x = escrow[e].amount
        \/ st \in OpenStatus /\ escrow[e].amount - x \in Nat \ {0}
    BY <1>a, <2>1 DEF TerminalStatus, OpenStatus
  <2> HIDE DEF st
  <2>4. QED
    BY <1>a, <2>1, <2>2, <2>3, PayOutMoves DEF Live
<1>4. ASSUME NEW x \in Portion, DisputeEscrow(c, e, x)
      PROVE  Moves
  <2> DEFINE st == IF x < escrow[e].amount THEN "PartiallyDisputed"
                   ELSE "Disputed"
             rest == escrow[e].amount - x
  <2>1. /\ x \in Nat \ {0} /\ x <= escrow[e].amount
        /\ IsOpen(e) /\ nextId' = nextId
        /\ PayOut(e, rest, 0, 0)
        /\ escrow' = [escrow EXCEPT ![e].amount = x, ![e].status = st]
    BY <1>4, EscrowConstants DEF DisputeEscrow, renewalVars
  <2>2. /\ escrow'[e].status = st
        /\ escrow'[e].amount = x
        /\ \A d \in Ids \ {e} : escrow'[d] = escrow[d]
    BY <1>a, <2>1 DEF EscrowType
  <2>3. st \in DisputedStatus
    BY DEF DisputedStatus
  <2>4. rest \in Nat /\ rest + x = escrow[e].amount
    BY <1>a, <2>1
  <2> HIDE DEF st, rest
  <2>5. QED
    BY <1>a, <2>1, <2>2, <2>3, <2>4, PayOutMoves DEF Live
<1>5. ASSUME NEW toSeller \in BOOLEAN, ResolveDispute(c, e, toSeller)
      PROVE  Moves
  <2> DEFINE fee == ProtocolFee(escrow[e].amount)
             rest == escrow[e].amount - fee
  <2>1. fee \in Nat /\ rest \in Nat /\ rest + fee = escrow[e].amount
    BY <1>a, FeeWithinAmount DEF TypeInv, TypeOK
  <2>2. /\ IsDisputed(e) /\ nextId' = nextId
        /\ \/ PayOut(e, rest, 0, fee) /\ SetStatus(e, "Released")
           \/ PayOut(e, 0, rest, fee) /\ SetStatus(e, "Refunded")
    BY <1>5 DEF ResolveDispute, renewalVars
  <2> HIDE DEF fee, rest
  <2>3. QED
    BY <2>1, <2>2, SetStatusEffect, PayOutMoves DEF Live, TerminalStatus
<1>6. CASE ClaimInactivityRelease(c, e)
  <2>1. /\ IsOpen(e)
        /\ PayOut(e, escrow[e].amount, 0, 0)
        /\ SetStatus(e, "Released")
        /\ nextId' = nextId
    BY <1>6 DEF ClaimInactivityRelease, renewalVars
  <2>2. QED
    BY <1>a, <2>1, SetStatusEffect, PayOutMoves DEF Live, TerminalStatus
<1>7. CASE \/ SubmitEvidence(c, e)
           \/ \E d \in Deadline : ProposeDeadlineExtension(c, e, d)
           \/ UpdateMetadata(c, e)
           \/ \E n \in Allowance : SetRenewalAllowance(c, e, n)
  BY <1>7, QuietMoves DEF SubmitEvidence, ProposeDeadlineExtension,
     UpdateMetadata, SetRenewalAllowance, fundVars, renewalVars
<1>8. CASE \/ AcceptDeadlineExtension(c, e)
           \/ \E b \in Heirs : TransferBuyerRole(c, e, b)
           \/ CancelAutoRenew(c, e)
  <2>1. UNCHANGED <<nextId, deposited, received>>
    BY <1>8 DEF AcceptDeadlineExtension, TransferBuyerRole, CancelAutoRenew,
       fundVars, renewalVars
  <2>2. ASSUME NEW d \in Ids
        PROVE  /\ escrow'[d].status = escrow[d].status
               /\ escrow'[d].amount = escrow[d].amount
    BY <1>8, <1>a DEF AcceptDeadlineExtension, TransferBuyerRole,
       CancelAutoRenew, EscrowType
  <2>3. QED
    BY <2>1, <2>2, QuietMoves
<1>9. QED
  BY <1>1, <1>2, <1>3, <1>4, <1>5, <1>6, <1>7, <1>8 DEF PartyStep, ReleaseEscrow

LEMMA OpenEscrowMoves ==
    ASSUME TypeInv, NEW b, NEW t, NEW d, t.amount > 0, OpenEscrow(b, t, d)
    PROVE  Moves
<1>1. /\ nextId < MaxEscrows
      /\ nextId' = nextId + 1
      /\ escrow' = [escrow EXCEPT ![nextId] = NewEscrow(b, t, d)]
      /\ deposited' = [deposited EXCEPT ![nextId] = t.amount]
      /\ received' = received
  BY DEF OpenEscrow, TakeIds
<1>2. /\ nextId \in Ids /\ nextId' >= nextId
      /\ \A e \in Ids : New(e) <=> e = nextId
  BY <1>1, EscrowConstants DEF Ids, New, TypeInv, TypeOK
<1>3. /\ NewEscrow(b, t, d).status = "Active"
      /\ NewEscrow(b, t, d).amount = t.amount
  BY DEF NewEscrow
<1>4. Opened(nextId)
  BY <1>1, <1>2, <1>3 DEF Opened, TypeInv, TypeOK
<1>5. \A e \in Ids \ {nextId} : Untouched(e)
  BY <1>1 DEF Untouched, TypeInv, TypeOK
<1>6. QED
  BY <1>2, <1>4, <1>5 DEF Moves

(* What a call, a refund or the passing of time does to every escrow. *)
LEMMA Motion ==
    ASSUME TypeInv, Allocated, Conservation, Next
    PROVE  Moves
<1>a. nextId \in Nat /\ MaxEscrows \in Nat
  BY EscrowConstants DEF TypeInv, TypeOK
<1>1. CASE \E a \in Admins : AdminStep(a)
  BY <1>1, QuietMoves DEF AdminStep, Initialize, PauseContract, ResumeContract,
     AddAllowedToken, RemoveAllowedToken, UpdateProtocolFee, fundVars
<1>2. ASSUME NEW b \in Buyers, CreateStep(b)
      PROVE  Moves
  <2>1. ASSUME NEW t \in Terms, NEW d \in Deadline, CreateEscrow(b, t, d)
        PROVE  Moves
    <3>1. t.amount > 0 /\ OpenEscrow(b, t, d)
      BY <2>1 DEF CreateEscrow, Acceptable
    <3>2. QED
      BY <3>1, OpenEscrowMoves
  <2>2. ASSUME NEW t1 \in Terms, NEW t2 \in Terms, NEW d1 \in Deadline,
               NEW d2 \in Deadline, CreateEscrowsBatch(b, t1, d1, t2, d2)
        PROVE  Moves
    <3> DEFINE x1 == NewEscrow(b, [t1 EXCEPT !.window = 0], d1)
               x2 == NewEscrow(b, [t2 EXCEPT !.window = 0], d2)
    <3>1. /\ nextId + 1 < MaxEscrows
          /\ nextId' = nextId + 2
          /\ escrow' = [escrow EXCEPT ![nextId] = x1, ![nextId + 1] = x2]
          /\ deposited' = [deposited EXCEPT ![nextId] = t1.amount,
                                            ![nextId + 1] = t2.amount]
          /\ received' = received
          /\ t1.amount > 0 /\ t2.amount > 0
      BY <2>2 DEF CreateEscrowsBatch, TakeIds, Acceptable
    <3>2. /\ nextId \in Ids /\ nextId + 1 \in Ids /\ nextId # nextId + 1
          /\ nextId' >= nextId
          /\ \A e \in Ids : New(e) <=> e \in {nextId, nextId + 1}
      BY <1>a, <3>1 DEF Ids, New
    <3>3. /\ x1.status = "Active" /\ x1.amount = t1.amount
          /\ x2.status = "Active" /\ x2.amount = t2.amount
      BY EscrowConstants DEF NewEscrow, TermsType
    <3> HIDE DEF x1, x2
    <3>4. Opened(nextId) /\ Opened(nextId + 1)
      BY <3>1, <3>2, <3>3 DEF Opened, TypeInv, TypeOK
    <3>5. \A e \in Ids \ {nextId, nextId + 1} : Untouched(e)
      BY <3>1 DEF Untouched, TypeInv, TypeOK
    <3>6. QED
      BY <3>2, <3>4, <3>5 DEF Moves
  <2>3. QED
    BY <1>2, <2>1, <2>2 DEF CreateStep
<1>3. CASE \E c \in Address, e \in Ids : PartyStep(c, e)
  BY <1>3, PartyMoves
<1>4. ASSUME NEW e \in Ids, AutoReleaseExpired(e)
      PROVE  Moves
  <2>1. /\ IsOpen(e)
        /\ PayOut(e, 0, escrow[e].amount, 0)
        /\ SetStatus(e, "Refunded")
        /\ nextId' = nextId
    BY <1>4 DEF AutoReleaseExpired, renewalVars
  <2>2. escrow[e].amount \in Nat
    BY DEF TypeInv, TypeOK, EscrowType
  <2>3. QED
    BY <2>1, <2>2, SetStatusEffect, PayOutMoves DEF Live, TerminalStatus
<1>5. CASE Tick \/ \E a \in Address, t \in Token : AllowanceLapses(a, t)
  BY <1>5, QuietMoves DEF Tick, AllowanceLapses, fundVars
<1>6. QED
  BY <1>1, <1>2, <1>3, <1>4, <1>5 DEF Next

-----------------------------------------------------------------------------
(* The inductive invariant *)

(* Conservation alone is not inductive: that a creation or a renewal does    *)
(* not overwrite an escrow needs Allocated, that a payment takes exactly     *)
(* what was asked needs the types and the seller lists.                      *)
MoneyInv == TypeInv /\ Allocated /\ Conservation

LEMMA MoneyInit == Init => MoneyInv
<1> SUFFICES ASSUME Init PROVE MoneyInv
  OBVIOUS
<1>1. ASSUME NEW e \in Ids
      PROVE  /\ escrow[e].status = "None" /\ deposited[e] = 0
             /\ received[e] = NothingReceived
  BY DEF Init
<1>2. nextId = 0 /\ \A e \in Ids : e >= 0
  BY DEF Init, Ids
<1>3. Allocated
  BY <1>1, <1>2 DEF Allocated, Exists, Ids
<1>4. Conservation
  BY <1>1 DEF Conservation, PaidOut, NothingReceived, Held, IsOpen, IsDisputed,
     OpenStatus, DisputedStatus
<1>5. QED
  BY <1>3, <1>4, TypeInit DEF MoneyInv

LEMMA StatusCases ==
    ASSUME TypeInv, NEW e \in Ids
    PROVE  /\ Live(e) => Exists(e) /\ ~IsTerminal(e)
           /\ IsTerminal(e) => Exists(e) /\ ~Live(e)
           /\ Exists(e) => Live(e) \/ IsTerminal(e)
           /\ escrow[e].amount \in Nat
           /\ PaidOut(e) \in Nat /\ deposited[e] \in Nat
BY DEF TypeInv, TypeOK, EscrowType, ReceivedType, Status, OpenStatus,
   DisputedStatus, TerminalStatus, Live, IsOpen, IsDisputed, IsTerminal, Exists,
   PaidOut

LEMMA AllocatedStep ==
    ASSUME TypeInv, Allocated, Moves, TypeInv'
    PROVE  Allocated'
<1> SUFFICES ASSUME NEW e \in Ids
             PROVE  /\ Exists(e)' <=> e < nextId'
                    /\ ~Exists(e)' => /\ deposited'[e] = 0
                                      /\ received'[e] = NothingReceived
  BY DEF Allocated
<1>1. nextId \in Nat /\ nextId' \in Nat /\ e \in Nat /\ nextId' >= nextId
  BY EscrowConstants DEF TypeInv, TypeOK, Moves, Ids
<1>2. CASE New(e)
  BY <1>1, <1>2 DEF Moves, New, Opened, Exists
<1>3. CASE ~New(e)
  <2>1. e < nextId' <=> e < nextId
    BY <1>1, <1>3 DEF New
  <2>2. CASE Untouched(e)
    BY <2>1, <2>2 DEF Untouched, Exists, Allocated
  <2>3. CASE Reduced(e) \/ Closed(e)
    <3>1. Exists(e) /\ Exists(e)'
      BY <2>3, StatusCases DEF Reduced, Closed, Live, IsOpen, IsDisputed,
         IsTerminal, OpenStatus, DisputedStatus, TerminalStatus, Exists
    <3>2. QED
      BY <2>1, <3>1 DEF Allocated
  <2>4. QED
    BY <1>3, <2>2, <2>3 DEF Moves
<1>4. QED
  BY <1>2, <1>3

LEMMA ConservationStep ==
    ASSUME TypeInv, Allocated, Conservation, Moves, TypeInv'
    PROVE  Conservation'
<1> SUFFICES ASSUME NEW e \in Ids
             PROVE  /\ deposited'[e] = PaidOut(e)' + Held(e)'
                    /\ Live(e)' => Held(e)' > 0
  BY DEF Conservation, Live
<1>1. /\ deposited[e] = PaidOut(e) + Held(e)
      /\ Live(e) => Held(e) > 0
      /\ Held(e) = IF Live(e) THEN escrow[e].amount ELSE 0
      /\ Held(e)' = IF Live(e)' THEN escrow'[e].amount ELSE 0
  BY DEF Conservation, Live, Held
<1>2. /\ escrow[e].amount \in Nat /\ escrow'[e].amount \in Nat
      /\ PaidOut(e) \in Nat /\ PaidOut(e)' \in Nat
  BY StatusCases DEF TypeInv, TypeOK, EscrowType, ReceivedType, PaidOut
<1>3. CASE New(e)
  <2>1. Opened(e) /\ ~Exists(e)
    <3>1. nextId \in Nat /\ e \in Nat
      BY EscrowConstants DEF TypeInv, TypeOK, Ids
    <3>2. QED
      BY <1>3, <3>1 DEF Moves, New, Allocated
  <2>2. received[e] = NothingReceived
    BY <2>1 DEF Allocated
  <2>3. PaidOut(e)' = 0 /\ Live(e)'
    BY <2>1, <2>2 DEF Opened, PaidOut, NothingReceived, Live, IsOpen, OpenStatus
  <2>4. QED
    BY <1>1, <1>2, <2>1, <2>3 DEF Opened
<1>4. CASE Untouched(e)
  <2>1. PaidOut(e)' = PaidOut(e) /\ (Live(e)' <=> Live(e))
    BY <1>4 DEF Untouched, PaidOut, Live, IsOpen, IsDisputed
  <2>2. QED
    BY <1>1, <1>4, <2>1 DEF Untouched
<1>5. CASE Reduced(e)
  BY <1>1, <1>2, <1>5 DEF Reduced
<1>6. CASE Closed(e)
  <2>1. ~Live(e)'
    BY <1>6 DEF Closed, IsTerminal, Live, IsOpen, IsDisputed, OpenStatus,
       DisputedStatus, TerminalStatus
  <2>2. QED
    BY <1>1, <1>2, <1>6, <2>1 DEF Closed
<1>7. QED
  BY <1>3, <1>4, <1>5, <1>6 DEF Moves

LEMMA MoneyStep == MoneyInv /\ Next => MoneyInv' /\ Moves
<1>1. ASSUME MoneyInv, Next
      PROVE  MoneyInv' /\ Moves
  <2>1. TypeInv'
    BY <1>1, TypeNext DEF MoneyInv
  <2>2. Moves
    BY <1>1, Motion DEF MoneyInv
  <2>3. Allocated' /\ Conservation'
    BY <1>1, <2>1, <2>2, AllocatedStep, ConservationStep DEF MoneyInv
  <2>4. QED
    BY <2>1, <2>2, <2>3 DEF MoneyInv
<1>2. QED
  BY <1>1

LEMMA MoneyNext == MoneyInv /\ [Next]_vars => MoneyInv'
<1>1. ASSUME MoneyInv, UNCHANGED vars
      PROVE  MoneyInv'
  <2>1. TypeInv'
    BY <1>1, TypeNext DEF MoneyInv
  <2>2. UNCHANGED <<nextId, escrow, deposited, received>>
    BY <1>1 DEF vars, fundVars
  <2>3. Allocated' /\ Conservation'
    BY <1>1, <2>2 DEF MoneyInv, Allocated, Conservation, Exists, Held, PaidOut,
       IsOpen, IsDisputed
  <2>4. QED
    BY <2>1, <2>3 DEF MoneyInv
<1>2. QED
  BY <1>1, MoneyStep

LEMMA MoneyAlways == Spec => []MoneyInv
BY MoneyInit, MoneyNext, PTL DEF Spec

-----------------------------------------------------------------------------
(* Theorems *)

(* Identifiers are handed out in order and never reused. *)
THEOREM IdsNeverReused == Spec => []Allocated
<1>1. MoneyInv => Allocated
  BY DEF MoneyInv
<1>2. QED
  BY <1>1, MoneyAlways, PTL

(* What an escrow took in is what has been paid out of it plus what it still *)
(* holds, after any sequence of calls.                                       *)
THEOREM MoneyIsConserved == Spec => []Conservation
<1>1. MoneyInv => Conservation
  BY DEF MoneyInv
<1>2. QED
  BY <1>1, MoneyAlways, PTL

LEMMA MovesAreFinal ==
    ASSUME MoneyInv, Moves
    PROVE  \A e \in Ids : IsTerminal(e) =>
                /\ escrow'[e].status = escrow[e].status
                /\ escrow'[e].amount = escrow[e].amount
                /\ received'[e] = received[e]
<1> SUFFICES ASSUME NEW e \in Ids, IsTerminal(e)
             PROVE  Untouched(e)
  BY DEF Untouched
<1>1. Exists(e) /\ ~Live(e)
  BY StatusCases DEF MoneyInv
<1>2. ~New(e)
  <2>1. e < nextId /\ nextId \in Nat /\ e \in Nat
    BY <1>1, EscrowConstants DEF MoneyInv, Allocated, TypeInv, TypeOK, Ids
  <2>2. QED
    BY <2>1 DEF New
<1>3. QED
  BY <1>1, <1>2 DEF Moves, Reduced, Closed

(* Nothing is paid out of a settled escrow and its status stays. *)
THEOREM SettlementIsFinal == Spec => SettledIsFinal
<1> DEFINE Final == \A e \in Ids : IsTerminal(e) =>
                      /\ escrow'[e].status = escrow[e].status
                      /\ escrow'[e].amount = escrow[e].amount
                      /\ received'[e] = received[e]
<1>1. MoneyInv /\ [Next]_vars => [Final]_vars
  BY MoneyStep, MovesAreFinal
<1>2. QED
  BY <1>1, MoneyAlways, PTL DEF Spec, SettledIsFinal

LEMMA NextFreezes ==
    ASSUME Next, paused
    PROVE  UNCHANGED fundVars
<1>1. CASE \E a \in Admins : AdminStep(a)
  BY <1>1 DEF AdminStep, Initialize, PauseContract, ResumeContract,
     AddAllowedToken, RemoveAllowedToken, UpdateProtocolFee
<1>2. CASE \E b \in Buyers : CreateStep(b)
  BY <1>2 DEF CreateStep, CreateEscrow, CreateEscrowsBatch
<1>3. CASE \E c \in Address, e \in Ids : PartyStep(c, e)
  BY <1>3 DEF PartyStep, ReleaseEscrow, PartialRelease, DisputeEscrow,
     ResolveDispute, SubmitEvidence, ClaimInactivityRelease,
     ProposeDeadlineExtension, AcceptDeadlineExtension, TransferBuyerRole,
     UpdateMetadata, SetRenewalAllowance, CancelAutoRenew
<1>4. CASE \E e \in Ids : AutoReleaseExpired(e)
  BY <1>4 DEF AutoReleaseExpired
<1>5. CASE Tick \/ \E a \in Address, t \in Token : AllowanceLapses(a, t)
  BY <1>5 DEF Tick, AllowanceLapses
<1>6. QED
  BY <1>1, <1>2, <1>3, <1>4, <1>5 DEF Next

(* No call made while the contract is paused moves a token. *)
THEOREM PauseHoldsFunds == Spec => PauseFreezesFunds
<1>1. [Next]_vars => [paused => UNCHANGED fundVars]_vars
  BY NextFreezes
<1>2. QED
  BY <1>1, PTL DEF Spec, PauseFreezesFunds

-----------------------------------------------------------------------------
(* The refinement of Custody *)

money == [e \in Ids |-> PaidOut(e)]
done == [e \in Ids |-> IsTerminal(e)]

(* Every step is, for each escrow, a step of the abstract deposit or leaves  *)
(* it as it is.                                                              *)
LEMMA MovesKeepPromise ==
    ASSUME MoneyInv, MoneyInv', Moves
    PROVE  Promise!Next
<1>1. /\ deposited' \in [Ids -> Nat]
      /\ money' \in [Ids -> Nat]
      /\ done' \in [Ids -> BOOLEAN]
  BY DEF money, done, MoneyInv, TypeInv, TypeOK, ReceivedType, PaidOut, IsTerminal
<1>2. ASSUME NEW e \in Ids
      PROVE  \/ Promise!Stay(e) \/ Promise!Open(e) \/ Promise!PayPart(e)
             \/ Promise!Close(e)
  <2>1. /\ money[e] = PaidOut(e) /\ money'[e] = PaidOut(e)'
        /\ done[e] = IsTerminal(e) /\ done'[e] = IsTerminal(e)'
    BY DEF money, done
  <2>2. /\ PaidOut(e) \in Nat /\ PaidOut(e)' \in Nat
        /\ escrow[e].amount \in Nat /\ escrow'[e].amount \in Nat
    BY StatusCases DEF MoneyInv, TypeInv, TypeOK, EscrowType,
       ReceivedType, PaidOut
  <2>3. /\ deposited[e] = PaidOut(e) + Held(e)
        /\ deposited'[e] = PaidOut(e)' + Held(e)'
        /\ Held(e) = IF Live(e) THEN escrow[e].amount ELSE 0
        /\ Held(e)' = IF Live(e)' THEN escrow'[e].amount ELSE 0
        /\ Live(e) => Held(e) > 0
    BY DEF MoneyInv, Conservation, Held, Live
  <2>4. /\ Live(e) => ~IsTerminal(e)
        /\ Live(e)' => ~IsTerminal(e)'
    BY DEF Live, IsOpen, IsDisputed, IsTerminal, OpenStatus, DisputedStatus,
       TerminalStatus
  <2>5. CASE New(e)
    <3>1. Opened(e) /\ ~Exists(e)
      <4>1. nextId \in Nat /\ e \in Nat
        BY EscrowConstants DEF MoneyInv, TypeInv, TypeOK, Ids
      <4>2. QED
        BY <2>5, <4>1 DEF Moves, New, MoneyInv, Allocated
    <3>2. deposited[e] = 0 /\ received[e] = NothingReceived
      BY <3>1 DEF MoneyInv, Allocated
    <3>3. PaidOut(e)' = 0 /\ Live(e)' /\ ~IsTerminal(e)
      BY <3>1, <3>2 DEF Opened, PaidOut, NothingReceived, Live, IsOpen,
         OpenStatus, IsTerminal, TerminalStatus, Exists
    <3>4. QED
      BY <2>1, <2>4, <3>1, <3>2, <3>3 DEF Promise!Open, money, done, Opened
  <2>6. CASE Untouched(e)
    BY <2>1, <2>6 DEF Promise!Stay, money, done, Untouched, PaidOut, IsTerminal
  <2>7. CASE Reduced(e)
    <3>1. ~IsTerminal(e) /\ ~IsTerminal(e)'
      BY <2>4, <2>7 DEF Reduced
    <3>2. CASE PaidOut(e)' = PaidOut(e)
      <4>1. IsTerminal(e)' = IsTerminal(e)
        BY <3>1 DEF IsTerminal
      <4>2. QED
        BY <2>1, <2>7, <3>2, <4>1 DEF Promise!Stay, money, done, Reduced
    <3>3. CASE PaidOut(e)' > PaidOut(e)
      BY <2>1, <2>2, <2>3, <2>7, <3>1, <3>3 DEF Promise!PayPart, money, done, Reduced
    <3>4. QED
      BY <2>2, <2>7, <3>2, <3>3 DEF Reduced
  <2>8. CASE Closed(e)
    <3>1. ~IsTerminal(e) /\ IsTerminal(e)' /\ Live(e) /\ ~Live(e)'
      BY <2>4, <2>8 DEF Closed
    <3>2. deposited[e] > 0
      BY <2>2, <2>3, <3>1
    <3>3. QED
      BY <2>1, <2>2, <2>3, <2>8, <3>1, <3>2 DEF Promise!Close, money, done, Closed
  <2>9. New(e) \/ Untouched(e) \/ Reduced(e) \/ Closed(e)
    BY DEF Moves
  <2>10. QED
    BY <2>5, <2>6, <2>7, <2>8, <2>9
<1>3. QED
  BY <1>1, <1>2 DEF Promise!Next, money, done

LEMMA InitKeepsPromise == Init => Promise!Init
<1> SUFFICES ASSUME Init PROVE Promise!Init
  OBVIOUS
<1>1. \A e \in Ids : /\ received[e] = NothingReceived
                    /\ escrow[e].status = "None"
  BY DEF Init
<1>2. \A e \in Ids : PaidOut(e) = 0 /\ IsTerminal(e) = FALSE
  BY <1>1 DEF PaidOut, NothingReceived, IsTerminal, TerminalStatus
<1>3. deposited = [e \in Ids |-> 0]
  BY DEF Init
<1>4. QED
  BY <1>2, <1>3 DEF Promise!Init

(* The escrow contract implements Custody: every step is, for each escrow, a *)
(* step of the abstract deposit or leaves it as it is.                       *)
THEOREM ImplementsCustody == Spec => KeepsCustody
<1>1. MoneyInv /\ MoneyInv' /\ [Next]_vars => [Promise!Next]_(Promise!cvars)
  <2>1. ASSUME UNCHANGED vars
        PROVE  UNCHANGED Promise!cvars
    BY <2>1 DEF vars, fundVars, Promise!cvars, PaidOut, IsTerminal
  <2>2. QED
    BY <2>1, MovesKeepPromise, MoneyStep
<1>2. QED
  BY <1>1, InitKeepsPromise, MoneyAlways, PTL DEF Spec, KeepsCustody, Promise!Spec
=============================================================================
