---------------------------- MODULE AhjoorEscrow ----------------------------
(***************************************************************************)
(* The escrow contract (contracts/ahjoor-escrow): a buyer locks tokens for *)
(* one or several sellers; buyer, sellers, arbiter and the ledger clock    *)
(* decide in which order they leave the contract.                          *)
(*                                                                         *)
(* A contract call is one transaction: it either runs to its end or panics *)
(* and leaves no trace, so every entry point is one action and every panic *)
(* is a conjunct of its guard.  require_auth makes the caller the address  *)
(* that signed, so callers are quantified over all addresses.              *)
(***************************************************************************)
EXTENDS Integers, Sequences, FiniteSetsExt

CONSTANTS
    Address,                \* accounts: buyers, sellers, arbiters, admins
    Admins,                 \* those of them that try the admin's calls
    Buyers,                 \* those that open escrows
    Heirs,                  \* those a buyer may hand the role to
    Token,                  \* token contracts
    NoAddress,              \* Option::None for the admin and for a proposer
    Terms,                  \* what a buyer may ask for in create_escrow
    Deadline,               \* deadlines a party may name
    Portion,                \* amounts a party may release or dispute
    Allowance,              \* total_renewals a buyer may pre-approve
    FeeRate,                \* fees the admin may try, in basis points
    MaxEscrows,             \* bound: escrows ever created
    MaxTime,                \* bound: last timestamp
    MaxEvidence,            \* MAX_EVIDENCE_ENTRIES_PER_PARTY (5 in the code)
    ExtensionWindow         \* DEADLINE_EXTENSION_PROPOSAL_WINDOW

MAX_PROTOCOL_FEE_BPS == 200
BasisPoints == 10000
MaxSellers == 5

(* A seller list: Vec<(Address, u32)>, the first entry the primary seller. *)
SellerList == Seq([to : Address, bps : Nat])

TermsType ==
    [sellers : SellerList, arbiter : Address, amount : Int, token : Token,
     autoRenew : BOOLEAN, renewalCount : Nat, window : Nat]

ASSUME EscrowConstants ==
    /\ NoAddress \notin Address
    /\ Address # {}
    /\ Admins \cup Buyers \cup Heirs \subseteq Address
    /\ Token # {}
    /\ Terms \subseteq TermsType
    /\ Deadline \subseteq Nat
    /\ Portion \subseteq Int
    /\ Allowance \subseteq Nat
    /\ FeeRate \subseteq Nat
    /\ MaxEscrows \in Nat
    /\ MaxTime \in Nat
    /\ MaxEvidence \in Nat
    /\ ExtensionWindow \in Nat

Ids == 0 .. MaxEscrows - 1

VARIABLES
    now,                    \* ledger timestamp
    admin,                  \* DataKey::Admin
    paused,                 \* DataKey::Paused
    allowed,                \* tokens with DataKey::AllowedToken set
    feeBps,                 \* DataKey::ProtocolFeeBps
    nextId,                 \* DataKey::EscrowCounter
    escrow,                 \* DataKey::Escrow(id); status "None" when absent
    dispute,                \* DataKey::Dispute(id)
    proposal,               \* DataKey::DeadlineProposal(id)
    evidence,               \* entries in DataKey::Evidence(id, party)
    lastBuyerAction,        \* DataKey::LastBuyerAction(id)
    renewalAllowance,       \* DataKey::RenewalAllowance(id)
    tokenAllowance,         \* external: allowance granted to this contract
    balance,                \* external: the contract's balance of each token
    deposited,              \* history: taken in for the escrow
    received,               \* history: who was paid how much out of the escrow
    generation              \* history: renewals between the first escrow and id

configVars == <<admin, paused, allowed, feeBps>>
fundVars == <<balance, deposited, received>>
sideVars == <<dispute, proposal, evidence>>
renewalVars == <<nextId, renewalAllowance, tokenAllowance, generation>>
vars == <<now, configVars, nextId, escrow, sideVars, lastBuyerAction,
          renewalAllowance, tokenAllowance, fundVars, generation>>

-----------------------------------------------------------------------------
(* Statuses *)

OpenStatus == {"Active", "PartiallyReleased"}
DisputedStatus == {"Disputed", "PartiallyDisputed"}
TerminalStatus == {"Released", "Resolved", "Refunded"}
Status == {"None"} \cup OpenStatus \cup DisputedStatus \cup TerminalStatus

IsDisputed(e) == escrow[e].status \in DisputedStatus

OpenUnlessDisputed(e) ==                    \* mutant: settled counts as open
    escrow[e].status # "None" /\ ~IsDisputed(e)

IsOpen(e) == escrow[e].status \in OpenStatus
IsTerminal(e) == escrow[e].status \in TerminalStatus
Exists(e) == escrow[e].status # "None"

(* What the contract still holds for an escrow.  A settled escrow keeps its *)
(* amount field, which is why the status decides.                           *)
Held(e) == IF IsOpen(e) \/ IsDisputed(e) THEN escrow[e].amount ELSE 0

PaidOut(e) == received[e].sellers + received[e].buyer + received[e].fee

Buyer(e) == escrow[e].buyer
Seller(e) == escrow[e].seller
Arbiter(e) == escrow[e].arbiter

EscrowType ==
    [buyer : Address, seller : Address, arbiter : Address, amount : Nat,
     token : Token, status : Status, createdAt : Nat, deadline : Nat,
     sellers : SellerList, autoRenew : BOOLEAN, renewalCount : Nat,
     renewalsRemaining : Nat, window : Nat]

DisputeType == [raised : BOOLEAN, resolved : BOOLEAN, amount : Nat]
ReceivedType == [sellers : Nat, buyer : Nat, fee : Nat]
ProposalType == [proposer : Address \cup {NoAddress}, deadline : Nat, at : Nat]

NoDispute == [raised |-> FALSE, resolved |-> FALSE, amount |-> 0]
NothingReceived == [sellers |-> 0, buyer |-> 0, fee |-> 0]
NoProposal == [proposer |-> NoAddress, deadline |-> 0, at |-> 0]

-----------------------------------------------------------------------------
(* Seller lists.  The code accepts at most five entries, so sums over a     *)
(* list are written out over the five places it may have.                   *)

BpsAt(list, i) == IF i <= Len(list) THEN list[i].bps ELSE 0

ValidSellers(list) ==
    /\ Len(list) \in 1 .. MaxSellers
    /\ BpsAt(list, 1) + BpsAt(list, 2) + BpsAt(list, 3) + BpsAt(list, 4)
         + BpsAt(list, 5) = BasisPoints

Share(list, total, i) == (total * BpsAt(list, i)) \div BasisPoints

SharesAfterFirst(list, total) ==
    Share(list, total, 2) + Share(list, total, 3)
      + Share(list, total, 4) + Share(list, total, 5)

(* The first seller receives what rounding left over, if that is positive. *)
FirstShare(list, total) == total - SharesAfterFirst(list, total)

OutflowWithoutDust(list, total) ==         \* mutant: rounding dust stays behind
    Share(list, total, 1) + SharesAfterFirst(list, total)

ReleaseOutflow(list, total) ==
    IF Len(list) <= 1 THEN total
    ELSE SharesAfterFirst(list, total)
           + (IF FirstShare(list, total) > 0 THEN FirstShare(list, total) ELSE 0)

FeeInPerMille(amount) == (amount * feeBps) \div 1000      \* mutant: wrong unit

ProtocolFee(amount) == (amount * feeBps) \div BasisPoints

-----------------------------------------------------------------------------
(* Parts several entry points share *)

IsAdmin(a) == admin = a

(* update_last_buyer_action: recorded only when the inactivity release of   *)
(* the escrow is enabled.                                                   *)
Stamp(times, e, when) == IF when THEN [times EXCEPT ![e] = now] ELSE times

BuyerActs(e, caller) ==
    Stamp(lastBuyerAction, e, caller = Buyer(e) /\ escrow[e].window > 0)

Receive(e, toSellers, toBuyer, fee) ==
    received' = [received EXCEPT
                   ![e] = [sellers |-> @.sellers + toSellers,
                           buyer |-> @.buyer + toBuyer,
                           fee |-> @.fee + fee]]

(* The token contract moves out of the contract only what it holds. *)
PayOut(e, toSellers, toBuyer, fee) ==
    LET sum == toSellers + toBuyer + fee
    IN  /\ sum <= balance[escrow[e].token]
        /\ balance' = [balance EXCEPT ![escrow[e].token] = @ - sum]
        /\ Receive(e, toSellers, toBuyer, fee)
        /\ UNCHANGED deposited

(* next_escrow_id, n times over. *)
TakeIdsOnce(n) == nextId' = nextId + 1      \* mutant: a batch takes one

TakeIds(n) == nextId' = nextId + n

SetStatus(e, s) == escrow' = [escrow EXCEPT ![e].status = s]

(* The record create_escrow_core stores. *)
NewEscrow(b, t, d) ==
    [buyer |-> b, seller |-> t.sellers[1].to, arbiter |-> t.arbiter,
     amount |-> t.amount, token |-> t.token, status |-> "Active",
     createdAt |-> now, deadline |-> d, sellers |-> t.sellers,
     autoRenew |-> t.autoRenew, renewalCount |-> t.renewalCount,
     renewalsRemaining |-> t.renewalCount, window |-> t.window]

Acceptable(t, d) ==
    /\ t.amount > 0
    /\ d > now
    /\ t.token \in allowed
    /\ ValidSellers(t.sellers)

-----------------------------------------------------------------------------
(* Administration *)

Initialize(a) ==
    /\ admin = NoAddress
    /\ admin' = a
    /\ UNCHANGED <<now, paused, allowed, feeBps, nextId, escrow, sideVars,
                   lastBuyerAction, renewalAllowance, tokenAllowance, fundVars,
                   generation>>

(* require_or_bootstrap_admin: before initialize, the first to pause        *)
(* becomes the admin.                                                       *)
PauseContract(a) ==
    /\ admin \in {NoAddress, a}
    /\ ~paused
    /\ admin' = a
    /\ paused' = TRUE
    /\ UNCHANGED <<now, allowed, feeBps, nextId, escrow, sideVars,
                   lastBuyerAction, renewalAllowance, tokenAllowance, fundVars,
                   generation>>

ResumeContract(a) ==
    /\ IsAdmin(a)
    /\ paused
    /\ paused' = FALSE
    /\ UNCHANGED <<now, admin, allowed, feeBps, nextId, escrow, sideVars,
                   lastBuyerAction, renewalAllowance, tokenAllowance, fundVars,
                   generation>>

AddAllowedToken(a, t) ==
    /\ IsAdmin(a)
    /\ allowed' = allowed \cup {t}
    /\ UNCHANGED <<now, admin, paused, feeBps, nextId, escrow, sideVars,
                   lastBuyerAction, renewalAllowance, tokenAllowance, fundVars,
                   generation>>

RemoveAllowedToken(a, t) ==
    /\ IsAdmin(a)
    /\ allowed' = allowed \ {t}
    /\ UNCHANGED <<now, admin, paused, feeBps, nextId, escrow, sideVars,
                   lastBuyerAction, renewalAllowance, tokenAllowance, fundVars,
                   generation>>

UpdateFeeUncapped(a, f) ==                  \* mutant: any fee goes
    /\ IsAdmin(a)
    /\ feeBps' = f
    /\ UNCHANGED <<now, admin, paused, allowed, nextId, escrow, sideVars,
                   lastBuyerAction, renewalAllowance, tokenAllowance, fundVars,
                   generation>>

UpdateProtocolFee(a, f) ==
    /\ IsAdmin(a)
    /\ f <= MAX_PROTOCOL_FEE_BPS
    /\ feeBps' = f
    /\ UNCHANGED <<now, admin, paused, allowed, nextId, escrow, sideVars,
                   lastBuyerAction, renewalAllowance, tokenAllowance, fundVars,
                   generation>>

-----------------------------------------------------------------------------
(* Creating escrows *)

(* The transfer, the identifier and the record every way of opening an       *)
(* escrow ends with.                                                         *)
OpenEscrow(b, t, d) ==
    /\ nextId < MaxEscrows
    /\ escrow' = [escrow EXCEPT ![nextId] = NewEscrow(b, t, d)]
    /\ lastBuyerAction' = Stamp(lastBuyerAction, nextId, t.window > 0)
    /\ TakeIds(1)
    /\ balance' = [balance EXCEPT ![t.token] = @ + t.amount]
    /\ deposited' = [deposited EXCEPT ![nextId] = t.amount]
    /\ UNCHANGED <<now, configVars, sideVars, renewalAllowance,
                   tokenAllowance, received, generation>>

CreateEscrow(b, t, d) ==
    /\ ~paused
    /\ Acceptable(t, d)
    /\ OpenEscrow(b, t, d)

(* Two configurations in one transaction; the inactivity window is not part *)
(* of EscrowBatchConfig, and one bad configuration undoes them all.         *)
CreateEscrowsBatch(b, t1, d1, t2, d2) ==
    /\ ~paused
    /\ Acceptable(t1, d1)
    /\ Acceptable(t2, d2)
    /\ nextId + 1 < MaxEscrows
    /\ escrow' = [escrow EXCEPT
                    ![nextId] = NewEscrow(b, [t1 EXCEPT !.window = 0], d1),
                    ![nextId + 1] = NewEscrow(b, [t2 EXCEPT !.window = 0], d2)]
    /\ TakeIds(2)
    /\ balance' = [k \in Token |->
                     balance[k] + (IF t1.token = k THEN t1.amount ELSE 0)
                                + (IF t2.token = k THEN t2.amount ELSE 0)]
    /\ deposited' = [deposited EXCEPT ![nextId] = t1.amount,
                                      ![nextId + 1] = t2.amount]
    /\ UNCHANGED <<now, configVars, sideVars, lastBuyerAction,
                   renewalAllowance, tokenAllowance, received, generation>>

-----------------------------------------------------------------------------
(* Releasing, and the renewal a release may start *)

(* try_auto_renew returns without effect unless this holds. *)
WantsRenewal(e) ==
    /\ escrow[e].autoRenew
    /\ escrow[e].renewalCount = 0 \/ escrow[e].renewalsRemaining # 0

RenewedUncounted(e) ==                      \* mutant: the plan is not used up
    [escrow[e] EXCEPT
       !.status = "Active",
       !.createdAt = now,
       !.deadline = now + (escrow[e].deadline - escrow[e].createdAt)]

(* The record try_auto_renew stores, from the escrow as release found it. *)
Renewed(e) ==
    [escrow[e] EXCEPT
       !.status = "Active",
       !.createdAt = now,
       !.deadline = now + (escrow[e].deadline - escrow[e].createdAt),
       !.renewalsRemaining = IF escrow[e].renewalCount = 0 THEN 0 ELSE @ - 1]

ReleaseOnly(caller, e) ==
    /\ ~WantsRenewal(e)
    /\ PayOut(e, ReleaseOutflow(escrow[e].sellers, escrow[e].amount), 0, 0)
    /\ SetStatus(e, "Released")
    /\ lastBuyerAction' = BuyerActs(e, caller)
    /\ UNCHANGED renewalVars

(* The pre-approved renewal count of e, less one, moves to the new escrow;  *)
(* the tokens come from the buyer through the token allowance.              *)
ReleaseAndRenew(caller, e) ==
    LET x == escrow[e]
        out == ReleaseOutflow(x.sellers, x.amount)
    IN  /\ WantsRenewal(e)
        /\ out <= balance[x.token]
        /\ renewalAllowance[e] # 0
        /\ x.deadline > x.createdAt
        /\ tokenAllowance[x.buyer][x.token] >= x.amount
        /\ nextId < MaxEscrows
        /\ escrow' = [escrow EXCEPT ![e].status = "Released",
                                    ![nextId] = Renewed(e)]
        /\ TakeIds(1)
        /\ renewalAllowance' =
             [renewalAllowance EXCEPT ![nextId] = renewalAllowance[e] - 1]
        /\ tokenAllowance' =
             [tokenAllowance EXCEPT ![x.buyer][x.token] = @ - x.amount]
        /\ balance' = [balance EXCEPT ![x.token] = @ - out + x.amount]
        /\ Receive(e, out, 0, 0)
        /\ deposited' = [deposited EXCEPT ![nextId] = x.amount]
        /\ generation' = [generation EXCEPT ![nextId] = generation[e] + 1]
        /\ lastBuyerAction' = Stamp(BuyerActs(e, caller), nextId, x.window > 0)

ReleaseEscrow(caller, e) ==
    /\ ~paused
    /\ IsOpen(e)
    /\ caller \in {Buyer(e), Arbiter(e)}
    /\ ReleaseOnly(caller, e) \/ ReleaseAndRenew(caller, e)
    /\ UNCHANGED <<now, configVars, sideVars>>

(* partial_release pays the primary seller only and does not record the     *)
(* call as buyer activity.                                                  *)
PartialRelease(caller, e, x) ==
    /\ ~paused
    /\ IsOpen(e)
    /\ caller \in {Buyer(e), Arbiter(e)}
    /\ x > 0
    /\ x <= escrow[e].amount
    /\ PayOut(e, x, 0, 0)
    /\ escrow' = [escrow EXCEPT
                    ![e].amount = @ - x,
                    ![e].status = IF escrow[e].amount = x THEN "Released"
                                  ELSE "PartiallyReleased"]
    /\ UNCHANGED <<now, configVars, sideVars, lastBuyerAction, renewalVars>>

-----------------------------------------------------------------------------
(* Disputes *)

(* The undisputed part leaves at once, to the primary seller. *)
DisputeEscrow(caller, e, x) ==
    /\ ~paused
    /\ IsOpen(e)
    /\ caller \in {Buyer(e), Seller(e)}
    /\ x > 0
    /\ x <= escrow[e].amount
    /\ PayOut(e, escrow[e].amount - x, 0, 0)
    /\ escrow' = [escrow EXCEPT
                    ![e].amount = x,
                    ![e].status = IF x < escrow[e].amount
                                  THEN "PartiallyDisputed" ELSE "Disputed"]
    /\ dispute' = [dispute EXCEPT
                     ![e] = [raised |-> TRUE, resolved |-> FALSE, amount |-> x]]
    /\ lastBuyerAction' = BuyerActs(e, caller)
    /\ UNCHANGED <<now, configVars, proposal, evidence, renewalVars>>

ForgetDispute(e) == UNCHANGED dispute       \* mutant: the record is not closed

MarkResolved(e) ==
    dispute' = IF dispute[e].raised
               THEN [dispute EXCEPT ![e].resolved = TRUE]
               ELSE dispute

(* The protocol fee and the winner's part leave together. *)
ResolveDispute(caller, e, toSeller) ==
    /\ ~paused
    /\ IsDisputed(e)
    /\ caller = Arbiter(e)
    /\ LET fee == ProtocolFee(escrow[e].amount)
           rest == escrow[e].amount - fee
       IN  IF toSeller
           THEN PayOut(e, rest, 0, fee) /\ SetStatus(e, "Released")
           ELSE PayOut(e, 0, rest, fee) /\ SetStatus(e, "Refunded")
    /\ MarkResolved(e)
    /\ UNCHANGED <<now, configVars, proposal, evidence, lastBuyerAction,
                   renewalVars>>

SubmitEvidence(party, e) ==
    /\ ~paused
    /\ Exists(e)
    /\ party \in {Buyer(e), Seller(e)}
    /\ evidence[e][party] < MaxEvidence
    /\ evidence' = [evidence EXCEPT ![e][party] = @ + 1]
    /\ lastBuyerAction' = BuyerActs(e, party)
    /\ UNCHANGED <<now, configVars, escrow, dispute, proposal, fundVars,
                   renewalVars>>

-----------------------------------------------------------------------------
(* Time-outs *)

RefundWhilePaused(e) ==                     \* mutant: pause is not looked at
    /\ IsOpen(e)
    /\ now > escrow[e].deadline
    /\ PayOut(e, 0, escrow[e].amount, 0)
    /\ SetStatus(e, "Refunded")
    /\ UNCHANGED <<now, configVars, sideVars, lastBuyerAction, renewalVars>>

RefundUntouchedOnly(e) ==                   \* mutant: refuses after a partial release
    /\ ~paused
    /\ escrow[e].status = "Active"
    /\ now > escrow[e].deadline
    /\ PayOut(e, 0, escrow[e].amount, 0)
    /\ SetStatus(e, "Refunded")
    /\ UNCHANGED <<now, configVars, sideVars, lastBuyerAction, renewalVars>>

(* After the deadline the buyer, who must sign, takes back what is left. *)
AutoReleaseExpired(e) ==
    /\ ~paused
    /\ IsOpen(e)
    /\ now > escrow[e].deadline
    /\ PayOut(e, 0, escrow[e].amount, 0)
    /\ SetStatus(e, "Refunded")
    /\ UNCHANGED <<now, configVars, sideVars, lastBuyerAction, renewalVars>>

(* saturating_sub: the clock never runs back, so the difference is exact. *)
ClaimInactivityRelease(caller, e) ==
    /\ ~paused
    /\ escrow[e].window # 0
    /\ IsOpen(e)
    /\ caller = Seller(e)
    /\ now - lastBuyerAction[e] >= escrow[e].window
    /\ PayOut(e, escrow[e].amount, 0, 0)
    /\ SetStatus(e, "Released")
    /\ UNCHANGED <<now, configVars, sideVars, lastBuyerAction, renewalVars>>

-----------------------------------------------------------------------------
(* Deadline extensions.  Neither call asks whether the contract is paused,  *)
(* and of the two disputed statuses they refuse only "Disputed".            *)

Extendable(e) ==
    /\ Exists(e)
    /\ escrow[e].status # "Disputed"
    /\ ~IsTerminal(e)

ProposeDeadlineExtension(caller, e, d) ==
    /\ Extendable(e)
    /\ caller \in {Buyer(e), Seller(e)}
    /\ d > escrow[e].deadline
    /\ proposal' = [proposal EXCEPT
                      ![e] = [proposer |-> caller, deadline |-> d, at |-> now]]
    /\ UNCHANGED <<now, configVars, escrow, dispute, evidence, lastBuyerAction,
                   fundVars, renewalVars>>

(* An expired or outdated proposal is removed before the call panics, and   *)
(* the panic puts it back.                                                  *)
AcceptDeadlineExtension(caller, e) ==
    /\ Extendable(e)
    /\ caller \in {Buyer(e), Seller(e)}
    /\ proposal[e] # NoProposal
    /\ caller # proposal[e].proposer
    /\ now <= proposal[e].at + ExtensionWindow
    /\ proposal[e].deadline > escrow[e].deadline
    /\ escrow' = [escrow EXCEPT ![e].deadline = proposal[e].deadline]
    /\ proposal' = [proposal EXCEPT ![e] = NoProposal]
    /\ UNCHANGED <<now, configVars, dispute, evidence, lastBuyerAction,
                   fundVars, renewalVars>>

-----------------------------------------------------------------------------
(* The buyer's other calls *)

TransferBuyerRole(caller, e, newBuyer) ==
    /\ ~paused
    /\ escrow[e].status = "Active"
    /\ caller = Buyer(e)
    /\ caller # newBuyer
    /\ escrow' = [escrow EXCEPT ![e].buyer = newBuyer]
    /\ UNCHANGED <<now, configVars, sideVars, lastBuyerAction, fundVars,
                   renewalVars>>

(* The metadata hash is data nothing else reads; what remains of the call   *)
(* is the buyer activity it records.  It is allowed while paused.           *)
UpdateMetadata(caller, e) ==
    /\ Exists(e)
    /\ caller \in {Buyer(e), Seller(e)}
    /\ lastBuyerAction' = BuyerActs(e, caller)
    /\ UNCHANGED <<now, configVars, escrow, sideVars, fundVars, renewalVars>>

(* approve replaces whatever the buyer had granted for the same token. *)
SetRenewalAllowance(caller, e, n) ==
    /\ ~paused
    /\ Exists(e)
    /\ caller = Buyer(e)
    /\ escrow[e].autoRenew
    /\ tokenAllowance' =
         [tokenAllowance EXCEPT ![caller][escrow[e].token] = escrow[e].amount * n]
    /\ renewalAllowance' = [renewalAllowance EXCEPT ![e] = n]
    /\ UNCHANGED <<now, configVars, nextId, escrow, sideVars, lastBuyerAction,
                   fundVars, generation>>

CancelAutoRenew(caller, e) ==
    /\ ~paused
    /\ Exists(e)
    /\ caller = Buyer(e)
    /\ escrow' = [escrow EXCEPT ![e].autoRenew = FALSE,
                                ![e].renewalsRemaining = 0]
    /\ renewalAllowance' = [renewalAllowance EXCEPT ![e] = 0]
    /\ UNCHANGED <<now, configVars, nextId, sideVars, lastBuyerAction,
                   tokenAllowance, fundVars, generation>>

-----------------------------------------------------------------------------
(* The environment *)

Tick ==
    /\ now < MaxTime
    /\ now' = now + 1
    /\ UNCHANGED <<configVars, nextId, escrow, sideVars, lastBuyerAction,
                   renewalAllowance, tokenAllowance, fundVars, generation>>

(* A token allowance ends with its expiration ledger. *)
AllowanceLapses(a, t) ==
    /\ tokenAllowance[a][t] > 0
    /\ tokenAllowance' = [tokenAllowance EXCEPT ![a][t] = 0]
    /\ UNCHANGED <<now, configVars, nextId, escrow, sideVars, lastBuyerAction,
                   renewalAllowance, fundVars, generation>>

-----------------------------------------------------------------------------
Init ==
    /\ now = 0
    /\ admin = NoAddress
    /\ paused = FALSE
    /\ allowed = {}
    /\ feeBps = 0
    /\ nextId = 0
    /\ escrow = [e \in Ids |->
                   LET a == CHOOSE a \in Address : TRUE
                       t == CHOOSE t \in Token : TRUE
                   IN  [buyer |-> a, seller |-> a, arbiter |-> a, amount |-> 0,
                        token |-> t, status |-> "None", createdAt |-> 0,
                        deadline |-> 0, sellers |-> <<>>, autoRenew |-> FALSE,
                        renewalCount |-> 0, renewalsRemaining |-> 0,
                        window |-> 0]]
    /\ dispute = [e \in Ids |-> NoDispute]
    /\ proposal = [e \in Ids |-> NoProposal]
    /\ evidence = [e \in Ids |-> [p \in Address |-> 0]]
    /\ lastBuyerAction = [e \in Ids |-> 0]
    /\ renewalAllowance = [e \in Ids |-> 0]
    /\ tokenAllowance = [a \in Address |-> [t \in Token |-> 0]]
    /\ balance = [t \in Token |-> 0]
    /\ deposited = [e \in Ids |-> 0]
    /\ received = [e \in Ids |-> NothingReceived]
    /\ generation = [e \in Ids |-> 0]

AdminStep(a) ==
    \/ Initialize(a)
    \/ PauseContract(a)
    \/ ResumeContract(a)
    \/ \E t \in Token : AddAllowedToken(a, t) \/ RemoveAllowedToken(a, t)
    \/ \E f \in FeeRate : UpdateProtocolFee(a, f)

CreateStep(b) ==
    \/ \E t \in Terms, d \in Deadline : CreateEscrow(b, t, d)
    \/ \E t1, t2 \in Terms, d1, d2 \in Deadline :
         CreateEscrowsBatch(b, t1, d1, t2, d2)

PartyStep(c, e) ==
    \/ ReleaseEscrow(c, e)
    \/ \E x \in Portion : PartialRelease(c, e, x) \/ DisputeEscrow(c, e, x)
    \/ \E toSeller \in BOOLEAN : ResolveDispute(c, e, toSeller)
    \/ SubmitEvidence(c, e)
    \/ ClaimInactivityRelease(c, e)
    \/ \E d \in Deadline : ProposeDeadlineExtension(c, e, d)
    \/ AcceptDeadlineExtension(c, e)
    \/ \E b \in Heirs : TransferBuyerRole(c, e, b)
    \/ UpdateMetadata(c, e)
    \/ \E n \in Allowance : SetRenewalAllowance(c, e, n)
    \/ CancelAutoRenew(c, e)

Next ==
    \/ \E a \in Admins : AdminStep(a)
    \/ \E b \in Buyers : CreateStep(b)
    \/ \E c \in Address, e \in Ids : PartyStep(c, e)
    \/ \E e \in Ids : AutoReleaseExpired(e)
    \/ Tick
    \/ \E a \in Address, t \in Token : AllowanceLapses(a, t)

Spec == Init /\ [][Next]_vars
-----------------------------------------------------------------------------
(* What is checked *)

(* Every variable has its type. *)
TypeOK ==
    /\ now \in Nat
    /\ admin \in Address \cup {NoAddress}
    /\ paused \in BOOLEAN
    /\ allowed \subseteq Token
    /\ feeBps \in 0 .. MAX_PROTOCOL_FEE_BPS
    /\ nextId \in 0 .. MaxEscrows
    /\ escrow \in [Ids -> EscrowType]
    /\ dispute \in [Ids -> DisputeType]
    /\ proposal \in [Ids -> ProposalType]
    /\ evidence \in [Ids -> [Address -> 0 .. MaxEvidence]]
    /\ lastBuyerAction \in [Ids -> Nat]
    /\ renewalAllowance \in [Ids -> Nat]
    /\ tokenAllowance \in [Address -> [Token -> Nat]]
    /\ balance \in [Token -> Int]
    /\ deposited \in [Ids -> Nat]
    /\ received \in [Ids -> ReceivedType]
    /\ generation \in [Ids -> Nat]

(* Identifiers are handed out in order and never reused: exactly those below *)
(* the counter name an escrow, and nothing was taken in or paid out under    *)
(* any other.                                                                *)
Allocated ==
    \A e \in Ids :
        /\ Exists(e) <=> e < nextId
        /\ ~Exists(e) => deposited[e] = 0 /\ received[e] = NothingReceived

(* Whatever sequence of partial releases, disputes, fees, refunds and        *)
(* renewals an escrow goes through, what it took in is exactly what has been *)
(* paid out of it plus what it still holds; an unsettled escrow holds        *)
(* something.                                                                *)
Conservation ==
    \A e \in Ids :
        /\ deposited[e] = PaidOut(e) + Held(e)
        /\ IsOpen(e) \/ IsDisputed(e) => Held(e) > 0

(* The contract's balance of every token is exactly what its unsettled       *)
(* escrows hold: each can be paid in full, in any order, and nothing is left *)
(* behind when all are settled.                                              *)
Solvency ==
    \A t \in Token :
        balance[t] = SumFunctionOnSet([e \in Ids |-> Held(e)],
                                      {e \in Ids : escrow[e].token = t})

(* A dispute record is unresolved exactly while the escrow is in a disputed  *)
(* status, and then it is about the whole of what the escrow still holds.    *)
DisputeRecordAgrees ==
    \A e \in Ids :
        /\ IsDisputed(e) <=> dispute[e].raised /\ ~dispute[e].resolved
        /\ IsDisputed(e) => dispute[e].amount = escrow[e].amount

(* The buyer is paid only by a refund, a release leaves everything but the   *)
(* fee with the sellers, and the fee is at most 2% of an amount that was     *)
(* disputed and decided.                                                     *)
SettlementSplit ==
    \A e \in Ids :
        /\ received[e].buyer > 0 => escrow[e].status = "Refunded"
        /\ escrow[e].status = "Released" =>
             received[e].sellers + received[e].fee = deposited[e]
        /\ received[e].fee > 0 => dispute[e].resolved
        /\ received[e].fee * BasisPoints <=
             dispute[e].amount * MAX_PROTOCOL_FEE_BPS

(* A finite renewal plan is never overrun: the renewals behind an escrow and *)
(* those it still allows stay within the renewal_count of the first one, and *)
(* a renewed escrow took in what its released predecessor still held.         *)
RenewalPlanKept ==
    \A e \in Ids :
        /\ Exists(e) /\ escrow[e].renewalCount # 0 =>
             generation[e] + escrow[e].renewalsRemaining
               <= escrow[e].renewalCount
        /\ generation[e] > 0 =>
             \E p \in Ids : /\ p < e
                            /\ generation[p] = generation[e] - 1
                            /\ escrow[p].status = "Released"
                            /\ escrow[p].amount = deposited[e]

(* Once an escrow is settled its status is final and no further token leaves *)
(* the contract on its account, to anyone.                                   *)
SettledIsFinal ==
    [][\A e \in Ids : IsTerminal(e) =>
          /\ escrow'[e].status = escrow[e].status
          /\ escrow'[e].amount = escrow[e].amount
          /\ received'[e] = received[e]]_vars

(* While the contract is paused no call moves tokens in or out of it.        *)
PauseFreezesFunds == [][paused => UNCHANGED fundVars]_vars

(* The promise of Custody, read off this contract's records. *)
Promise == INSTANCE Custody WITH
    Deposit <- Ids,
    paid <- [e \in Ids |-> PaidOut(e)],
    closed <- [e \in Ids |-> IsTerminal(e)]

(* The contract keeps the promise of Custody. *)
KeepsCustody == Promise!Spec
==============================================================================
