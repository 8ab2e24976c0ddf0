------------------------ MODULE AhjoorRoscaGovernance ------------------------
(***************************************************************************)
(* Votes of the savings group: a member proposes, members vote or let      *)
(* another member vote for them, and once the time is over anybody has the *)
(* proposal executed, which changes the group AhjoorRosca models.          *)
(*                                                                         *)
(* The group's own calls run in between: members join, leave and are       *)
(* removed, rounds end and contributions start again from nothing.  The    *)
(* steps AhjoorRosca leaves open, which proposals pass and when, are       *)
(* decided here; KeepsGroup says that nothing else is added.               *)
(***************************************************************************)
EXTENDS AhjoorRosca

CONSTANTS
    Motion,                 \* what members propose
    Creators,               \* bound: those who propose
    Weighing,               \* bound: values of voting_mode tried, see weighted
    TypeQuorum,             \* quorums in basis points the admin sets
    QuorumFor,              \* bound: types of proposal he sets them for
    Delegators,             \* bound: those who delegate
    NoOne,
    NoData,                 \* execution_data when there is none
    MaxProposals            \* bound: proposals ever made

Props == 0 .. MaxProposals - 1
ProposalType == {"PenaltyAppeal", "RuleChange", "MemberRemoval", "MaxMembersUpdate"}
ProposalStatus == {"None", "Pending", "Rejected", "Executed"}

(* execution_data stays below 2^32, so that reading it as u32 is exact. *)
MotionType ==
    [kind : ProposalType, target : Address, duration : Nat, data : Int \cup {NoData}]

(* Fallen and Cap, which bound what AhjoorRosca's proposals may do, cover    *)
(* what is proposed here.                                                    *)
ASSUME GovernanceConstants ==
    /\ Address # {} /\ NoOne \notin Address /\ NoData \notin Int
    /\ Motion \subseteq MotionType
    /\ \A x \in Motion : /\ x.kind = "MemberRemoval" => x.target \in Fallen
                         /\ x.kind = "MaxMembersUpdate" /\ x.data \in 1 .. 100 =>
                              x.data \in Cap
    /\ Creators \subseteq Address /\ Delegators \subseteq Address
    /\ Weighing \subseteq BOOLEAN
    /\ TypeQuorum \subseteq Nat /\ QuorumFor \subseteq ProposalType
    /\ MaxProposals \in Nat

VARIABLES
    proposal,               \* DataKey::Proposals; status "None" when absent
    nextProposal,           \* DataKey::ProposalCounter
    voted,                  \* who is in DataKey::ProposalVotes
    delegate,               \* vote_delegations, NoOne without one
    quorum,                 \* DataKey::QuorumPercentage
    quorumOf,               \* DataKey::QuorumConfig, 0 when not set
    weighted,               \* DataKey::VotingMode = WeightedByContributions
    voice                   \* history: what each account's voice added up to

ballotVars == <<proposal, voted, voice>>
rulesVars == <<quorum, quorumOf, weighted>>
govVars == <<nextProposal, ballotVars, delegate, rulesVars>>

BallotType ==
    [kind : ProposalType, target : Address, data : Int \cup {NoData}, for : Nat,
     against : Nat, deadline : Nat, quorum : 100 .. 10000, status : ProposalStatus]

-----------------------------------------------------------------------------
(* Proposing *)

(* The quorum of a proposal is fixed when it is made. *)
RequiredQuorum(kind) == IF quorumOf[kind] # 0 THEN quorumOf[kind] ELSE quorum * 100

CreateProposal(c, x) ==
    /\ ~paused
    /\ c \in members
    /\ nextProposal < MaxProposals
    /\ nextProposal' = nextProposal + 1
    /\ proposal' = [proposal EXCEPT ![nextProposal] =
          [kind |-> x.kind, target |-> x.target, data |-> x.data, for |-> 0,
           against |-> 0, deadline |-> now + x.duration,
           quorum |-> RequiredQuorum(x.kind), status |-> "Pending"]]
    /\ voted' = [voted EXCEPT ![nextProposal] = {}]
    /\ UNCHANGED <<vars, voice, delegate, rulesVars>>

(* Not held back by a pause. *)
SetQuorumPerType(kind, bps) ==
    /\ bps \in 100 .. 10000
    /\ quorumOf' = [quorumOf EXCEPT ![kind] = bps]
    /\ UNCHANGED <<vars, nextProposal, ballotVars, delegate, quorum, weighted>>

-----------------------------------------------------------------------------
(* Delegating *)

(* One may delegate to oneself, and the delegate may delegate later on. *)
DelegateVote(a, b) ==
    /\ ~paused
    /\ a \in members /\ b \in members
    /\ delegate[b] = NoOne
    /\ delegate' = [delegate EXCEPT ![a] = b]
    /\ UNCHANGED <<vars, nextProposal, ballotVars, rulesVars>>

(* Membership is not asked for. *)
RevokeDelegation(a) ==
    /\ ~paused
    /\ delegate[a] # NoOne
    /\ delegate' = [delegate EXCEPT ![a] = NoOne]
    /\ UNCHANGED <<vars, nextProposal, ballotVars, rulesVars>>

(* One entry of temporary storage holds all delegations. *)
DelegationsLapse ==
    /\ delegate' = [a \in Address |-> NoOne]
    /\ UNCHANGED <<vars, nextProposal, ballotVars, rulesVars>>

-----------------------------------------------------------------------------
(* Voting *)

(* get_member_voting_weight *)
Weight(a) == IF weighted THEN contributed[a] ELSE 1

BehindAll(v, p) == {a \in Address : delegate[a] = v}                \* mutant

(* For whom a vote counts besides the voter: those who delegated to him,     *)
(* members or not any more, and have no vote on the proposal yet.            *)
Behind(v, p) == {a \in Address : delegate[a] = v /\ a \notin voted[p]}

VoteOnProposal(v, p, yes) ==
    LET voices == {v} \cup Behind(v, p)
        sum == SumFunctionOnSet([a \in voices |-> Weight(a)], voices)
    IN  /\ ~paused
        /\ v \in members
        /\ delegate[v] = NoOne
        /\ now <= proposal[p].deadline
        /\ proposal[p].status = "Pending"
        /\ v \notin voted[p]
        /\ weighted => Weight(v) # 0
        /\ proposal' = IF yes THEN [proposal EXCEPT ![p].for = @ + sum]
                       ELSE [proposal EXCEPT ![p].against = @ + sum]
        /\ voted' = [voted EXCEPT ![p] = @ \cup voices]
        /\ voice' = [voice EXCEPT ![p] = [a \in Address |->
                        IF a \in voices THEN Weight(a) ELSE voice[p][a]]]
        /\ UNCHANGED <<vars, nextProposal, delegate, rulesVars>>

-----------------------------------------------------------------------------
(* Executing *)

(* Members and contributions are those of the moment, not of the vote.       *)
PossibleVotes ==
    IF weighted THEN SumFunctionOnSet(contributed, members)
    ELSE Cardinality(members)

QuorumMet(p) ==
    proposal[p].for + proposal[p].against
        >= (PossibleVotes * proposal[p].quorum + 9999) \div BasisPoints

Passed(p) == QuorumMet(p) /\ proposal[p].for > proposal[p].against

LowerCapAnyway(n) ==                        \* mutant: the count is not compared
    /\ maxMembers' = n
    /\ UNCHANGED <<now, pauseVars, members, order, exited, exitRequest, invited,
                   roundVars, skipVars, defaultVars, configVars, rewardVars,
                   shareVars, fundVars>>

(* A limit that is out of range or too low is passed over, and so is a       *)
(* quorum out of range: the proposal counts as executed.                     *)
UpdateMaxMembersIfFit(n) ==
    IF n \in 1 .. 100 /\ n >= Cardinality(members) THEN UpdateMaxMembers(n)
    ELSE UNCHANGED vars

NewQuorum(n) == IF n \in 1 .. 100 THEN n ELSE quorum

Effect(x) ==
    \/ /\ x.kind = "PenaltyAppeal"
       /\ ExecutePenaltyAppeal(x.target)
       /\ UNCHANGED quorum
    \/ /\ x.kind = "RuleChange"
       /\ quorum' = NewQuorum(x.data)
       /\ UNCHANGED vars
    \/ /\ x.kind = "MemberRemoval"
       /\ ExecuteMemberRemoval(x.target)
       /\ UNCHANGED quorum
    \/ /\ x.kind = "MaxMembersUpdate"
       /\ UpdateMaxMembersIfFit(x.data)
       /\ UNCHANGED quorum

(* mutant: what was executed may be executed again *)
ExecuteAgain(p) ==
    /\ ~paused
    /\ proposal[p].status \in {"Pending", "Executed"}
    /\ now > proposal[p].deadline
    /\ IF Passed(p)
       THEN /\ proposal' = [proposal EXCEPT ![p].status = "Executed"]
            /\ Effect(proposal[p])
       ELSE /\ proposal' = [proposal EXCEPT ![p].status = "Rejected"]
            /\ UNCHANGED <<vars, quorum>>
    /\ UNCHANGED <<nextProposal, voted, voice, delegate, quorumOf, weighted>>

ExecuteProposal(p) ==
    /\ ~paused
    /\ proposal[p].status = "Pending"
    /\ now > proposal[p].deadline
    /\ IF Passed(p)
       THEN /\ proposal' = [proposal EXCEPT ![p].status = "Executed"]
            /\ Effect(proposal[p])
       ELSE /\ proposal' = [proposal EXCEPT ![p].status = "Rejected"]
            /\ UNCHANGED <<vars, quorum>>
    /\ UNCHANGED <<nextProposal, voted, voice, delegate, quorumOf, weighted>>

-----------------------------------------------------------------------------
NoProposal ==
    [kind |-> "RuleChange", target |-> CHOOSE a \in Address : TRUE, data |-> NoData,
     for |-> 0, against |-> 0, deadline |-> 0, quorum |-> 10000, status |-> "None"]

GovernanceInit ==
    /\ Init
    /\ proposal = [p \in Props |-> NoProposal] /\ nextProposal = 0
    /\ voted = [p \in Props |-> {}]
    /\ voice = [p \in Props |-> [a \in Address |-> 0]]
    /\ delegate = [a \in Address |-> NoOne]
    /\ quorum = 51 /\ quorumOf = [k \in ProposalType |-> 0]
    /\ weighted \in Weighing

(* The group's own calls: all of them but the effects of proposals. *)
GroupStep ==
    /\ \/ RoundStep \/ JoinOrLeaveStep \/ SettingsStep \/ MoneyStep
       \/ Tick \/ ExitRequestsLapse \/ InvitesLapse
    /\ UNCHANGED govVars

BallotStep ==
    \/ \E c \in Creators, x \in Motion : CreateProposal(c, x)
    \/ \E v \in Address, p \in Props, yes \in BOOLEAN : VoteOnProposal(v, p, yes)
    \/ \E p \in Props : ExecuteProposal(p)

RulesStep ==
    \/ \E k \in QuorumFor, bps \in TypeQuorum : SetQuorumPerType(k, bps)
    \/ \E a \in Delegators, b \in Address : DelegateVote(a, b)
    \/ \E a \in Delegators : RevokeDelegation(a)
    \/ DelegationsLapse

GovernanceNext == GroupStep \/ BallotStep \/ RulesStep

GovernanceSpec == GovernanceInit /\ [][GovernanceNext]_<<vars, govVars>>

-----------------------------------------------------------------------------
(* What holds *)

(* The counters of a proposal are the voices of those recorded as having    *)
(* voted, each once and with the weight it was read with: however           *)
(* delegations are given, changed, taken back and forgotten, before a vote  *)
(* or after, and whoever leaves the group meanwhile.  Quorums, the global   *)
(* one and those fixed in proposals, stay within 1% and 100%.               *)
VoicesCountOnce ==
    /\ proposal \in [Props -> BallotType]
    /\ quorum \in 1 .. 100
    /\ \A p \in Props :
          /\ proposal[p].for + proposal[p].against =
                SumFunctionOnSet(voice[p], voted[p])
          /\ \A a \in Address : voice[p][a] # 0 => a \in voted[p]

(* A step in which proposal p about m is executed. *)
Decides(p, kind, m) ==
    /\ proposal[p].kind = kind /\ proposal[p].target = m
    /\ proposal[p].status = "Pending" /\ proposal'[p].status = "Executed"
    /\ voted[p] # {}

(* Nobody's suspension ends, and nobody is put out of the group while a      *)
(* round is being paid, except by a proposal about that very member, on     *)
(* which somebody voted and which is decided once: members who asked to     *)
(* exit leave by themselves.                                                *)
StandingNeedsVote ==
    [][/\ \A m \in suspended \ suspended' : \E p \in Props : Decides(p, "PenaltyAppeal", m)
       /\ \A m \in members \ members' :
             paid = {} \/ exitRequest[m] # -1 \/ \E p \in Props : Decides(p, "MemberRemoval", m)]_<<vars, govVars>>

(* Votes add nothing to what AhjoorRosca allows, so its properties hold of   *)
(* the group with its governance.                                           *)
KeepsGroup == Spec

=============================================================================
