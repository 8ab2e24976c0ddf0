-------------------- MODULE AhjoorRoscaGovernanceProofs --------------------
(***************************************************************************)
(* Theorems about AhjoorRoscaGovernance: it implements AhjoorRosca, so the *)
(* theorems of AhjoorRoscaProofs hold of the governed group, nobody's      *)
(* standing in the group changes without a vote, and every voice counts    *)
(* once.                                                                   *)
(***************************************************************************)
EXTENDS AhjoorRoscaGovernance, AhjoorRoscaProofs

allVars == <<vars, govVars>>

(* Quorums and delegations are settings: the group and the ballots stay.    *)
LEMMA RulesLeaveAlone ==
    ASSUME RulesStep
    PROVE  UNCHANGED vars /\ UNCHANGED <<nextProposal, ballotVars>>
<1>1. ASSUME NEW k, NEW bps, SetQuorumPerType(k, bps)
      PROVE  UNCHANGED <<vars, nextProposal, ballotVars>>
  BY <1>1 DEF SetQuorumPerType
<1>2. ASSUME NEW a, NEW b, DelegateVote(a, b)
      PROVE  UNCHANGED <<vars, nextProposal, ballotVars>>
  BY <1>2 DEF DelegateVote
<1>3. ASSUME NEW a, RevokeDelegation(a)
      PROVE  UNCHANGED <<vars, nextProposal, ballotVars>>
  BY <1>3 DEF RevokeDelegation
<1>4. ASSUME DelegationsLapse
      PROVE  UNCHANGED <<vars, nextProposal, ballotVars>>
  BY <1>4 DEF DelegationsLapse
<1>5. UNCHANGED <<vars, nextProposal, ballotVars>>
  BY <1>1, <1>2, <1>3, <1>4 DEF RulesStep
<1>6. QED
  BY <1>5

-----------------------------------------------------------------------------
(* Governance implements the group *)

LEMMA EffectIsGroupStep ==
    ASSUME NEW x, x.target \in Address, Effect(x), ~paused,
           x.kind = "MemberRemoval" => x.target \in Fallen,
           x.kind = "MaxMembersUpdate" /\ x.data \in 1 .. 100 => x.data \in Cap
    PROVE  [Next]_vars
<1>1. CASE x.kind = "PenaltyAppeal" /\ ExecutePenaltyAppeal(x.target)
  BY <1>1 DEF Next, MembershipStep, ProposalStep
<1>2. CASE UNCHANGED vars
  BY <1>2
<1>3. CASE x.kind = "MemberRemoval" /\ ExecuteMemberRemoval(x.target)
  BY <1>3 DEF Next, MembershipStep, ProposalStep
<1>4. CASE x.kind = "MaxMembersUpdate" /\ UpdateMaxMembersIfFit(x.data)
  <2>1. CASE x.data \in 1 .. 100 /\ UpdateMaxMembers(x.data)
    BY <1>4, <2>1 DEF Next, MembershipStep, JoinOrLeaveStep
  <2>2. QED
    BY <1>4, <2>1 DEF UpdateMaxMembersIfFit
<1>5. QED
  BY <1>1, <1>2, <1>3, <1>4 DEF Effect

(* What is known of every ballot: what it asks for is something a member    *)
(* may propose, and without a vote it counts nothing.                       *)
BallotOf(V) ==
    [kind : ProposalType, target : Address, data : Int \cup {NoData}, for : V,
     against : V, deadline : V, quorum : V, status : ProposalStatus]

Sound(b, voters) ==
    /\ b.kind = "MemberRemoval" => b.target \in Fallen
    /\ b.kind = "MaxMembersUpdate" /\ b.data \in 1 .. 100 => b.data \in Cap
    /\ voters = {} => b.for = 0 /\ b.against = 0

BallotInv ==
    /\ \E V : proposal \in [Props -> BallotOf(V)]
    /\ voted \in [Props -> SUBSET Address]
    /\ nextProposal \in Nat
    /\ \A p \in Props : Sound(proposal[p], voted[p])

LEMMA OneBallot ==
    ASSUME BallotInv, NEW p \in Props, NEW V, NEW b \in BallotOf(V),
           NEW voters \in SUBSET Address, Sound(b, voters),
           proposal' = [proposal EXCEPT ![p] = b],
           voted' = [voted EXCEPT ![p] = voters],
           nextProposal' \in Nat
    PROVE  BallotInv'
<1>1. PICK U : proposal \in [Props -> BallotOf(U)]
  BY DEF BallotInv
<1>2. BallotOf(U) \subseteq BallotOf(U \cup V) /\ b \in BallotOf(U \cup V)
  BY DEF BallotOf
<1>3. proposal' \in [Props -> BallotOf(U \cup V)]
  BY <1>1, <1>2
<1>4. voted' \in [Props -> SUBSET Address]
  BY DEF BallotInv
<1>5. \A q \in Props \ {p} : proposal'[q] = proposal[q] /\ voted'[q] = voted[q]
  BY <1>1 DEF BallotInv
<1>6. proposal'[p] = b /\ voted'[p] = voters
  BY <1>1 DEF BallotInv
<1>7. \A q \in Props : Sound(proposal'[q], voted'[q])
  BY <1>5, <1>6 DEF BallotInv
<1>8. QED
  BY <1>3, <1>4, <1>7 DEF BallotInv, Sound

LEMMA CreationSound ==
    ASSUME BallotInv, NEW c, NEW x \in Motion, CreateProposal(c, x)
    PROVE  BallotInv'
<1> DEFINE V == {0, now + x.duration, RequiredQuorum(x.kind)}
           b == [kind |-> x.kind, target |-> x.target, data |-> x.data, for |-> 0,
                 against |-> 0, deadline |-> now + x.duration,
                 quorum |-> RequiredQuorum(x.kind), status |-> "Pending"]
<1>1. nextProposal \in Props /\ nextProposal' \in Nat
  BY GovernanceConstants DEF CreateProposal, BallotInv, Props
<1>2. x \in MotionType
  BY GovernanceConstants
<1>3. proposal' = [proposal EXCEPT ![nextProposal] = b]
  BY DEF CreateProposal
<1>4. voted' = [voted EXCEPT ![nextProposal] = {}]
  BY DEF CreateProposal
<1>5. b \in BallotOf(V)
  BY <1>2 DEF MotionType, BallotOf, ProposalStatus
<1>6. Sound(b, {})
  BY GovernanceConstants DEF Sound
<1> HIDE DEF V, b
<1>7. QED
  BY <1>1, <1>3, <1>4, <1>5, <1>6, OneBallot

LEMMA VoteSound ==
    ASSUME BallotInv, NEW v \in Address, NEW p \in Props, NEW yes \in BOOLEAN,
           VoteOnProposal(v, p, yes)
    PROVE  BallotInv'
<1> DEFINE voices == {v} \cup Behind(v, p)
           sum == SumFunctionOnSet([a \in voices |-> Weight(a)], voices)
           voters == voted[p] \cup voices
<1>1. PICK U : proposal \in [Props -> BallotOf(U)]
  BY DEF BallotInv
<1>2. proposal' = IF yes THEN [proposal EXCEPT ![p].for = @ + sum]
                  ELSE [proposal EXCEPT ![p].against = @ + sum]
  BY DEF VoteOnProposal
<1>3. voted' = [voted EXCEPT ![p] = voters] /\ UNCHANGED nextProposal
  BY DEF VoteOnProposal, BallotInv
<1>4. voters \in SUBSET Address /\ voters # {}
  BY DEF Behind, BallotInv
<1> HIDE DEF sum, voters
<1>5. proposal[p] \in BallotOf(U) /\ Sound(proposal[p], voted[p])
  BY <1>1 DEF BallotInv
<1>6. CASE yes
  <2> DEFINE b == [proposal[p] EXCEPT !.for = proposal[p].for + sum]
             V == U \cup {proposal[p].for + sum}
  <2>1. b \in BallotOf(V) /\ Sound(b, voters)
    BY <1>4, <1>5 DEF BallotOf, Sound
  <2>2. proposal' = [proposal EXCEPT ![p] = b]
    BY <1>1, <1>2, <1>6
  <2> HIDE DEF b, V
  <2>3. QED
    BY <1>3, <1>4, <2>1, <2>2, OneBallot DEF BallotInv
<1>7. CASE ~yes
  <2> DEFINE b == [proposal[p] EXCEPT !.against = proposal[p].against + sum]
             V == U \cup {proposal[p].against + sum}
  <2>1. b \in BallotOf(V) /\ Sound(b, voters)
    BY <1>4, <1>5 DEF BallotOf, Sound
  <2>2. proposal' = [proposal EXCEPT ![p] = b]
    BY <1>1, <1>2, <1>7
  <2> HIDE DEF b, V
  <2>3. QED
    BY <1>3, <1>4, <2>1, <2>2, OneBallot DEF BallotInv
<1>8. QED
  BY <1>6, <1>7

LEMMA DecisionSound ==
    ASSUME BallotInv, NEW p \in Props, ExecuteProposal(p)
    PROVE  BallotInv'
<1>1. PICK U : proposal \in [Props -> BallotOf(U)]
  BY DEF BallotInv
<1>2. PICK st \in {"Executed", "Rejected"} : proposal' = [proposal EXCEPT ![p].status = st]
  BY DEF ExecuteProposal
<1>3. UNCHANGED <<voted, nextProposal>>
  BY DEF ExecuteProposal
<1> DEFINE b == [proposal[p] EXCEPT !.status = st]
<1>4. proposal[p] \in BallotOf(U) /\ Sound(proposal[p], voted[p]) /\ voted[p] \in SUBSET Address
  BY <1>1 DEF BallotInv
<1>5. b \in BallotOf(U) /\ Sound(b, voted[p])
  BY <1>4 DEF BallotOf, Sound, ProposalStatus
<1>6. proposal' = [proposal EXCEPT ![p] = b]
  BY <1>1, <1>2
<1>7. voted' = [voted EXCEPT ![p] = voted[p]]
  BY <1>3 DEF BallotInv
<1> HIDE DEF b
<1>8. QED
  BY <1>3, <1>4, <1>5, <1>6, <1>7, OneBallot DEF BallotInv

LEMMA BallotsStaySound ==
    ASSUME BallotInv, [GovernanceNext]_allVars
    PROVE  BallotInv'
<1>1. CASE GroupStep \/ UNCHANGED allVars
  <2>1. UNCHANGED <<proposal, voted, nextProposal>>
    BY <1>1 DEF GroupStep, allVars, govVars, ballotVars
  <2>2. QED
    BY <2>1 DEF BallotInv
<1>2. CASE BallotStep
  BY <1>2, CreationSound, VoteSound, DecisionSound DEF BallotStep
<1>3. CASE RulesStep
  <2>1. UNCHANGED <<proposal, voted, nextProposal>>
    BY <1>3, RulesLeaveAlone DEF ballotVars
  <2>2. QED
    BY <2>1 DEF BallotInv
<1>4. QED
  BY <1>1, <1>2, <1>3 DEF GovernanceNext

LEMMA InitBallots == GovernanceInit => BallotInv
<1>1. SUFFICES ASSUME GovernanceInit
               PROVE  BallotInv
  OBVIOUS
<1>2. /\ proposal = [p \in Props |-> NoProposal] /\ voted = [p \in Props |-> {}]
      /\ nextProposal = 0
  BY <1>1 DEF GovernanceInit
<1>3. NoProposal \in BallotOf({0, 10000}) /\ Sound(NoProposal, {})
  <2>1. (CHOOSE a \in Address : TRUE) \in Address
    BY GovernanceConstants
  <2>2. QED
    BY <2>1 DEF NoProposal, BallotOf, Sound, ProposalType, ProposalStatus
<1>4. QED
  BY <1>2, <1>3 DEF BallotInv

LEMMA BallotIsSound ==
    ASSUME BallotInv, NEW p \in Props
    PROVE  /\ proposal[p].target \in Address
           /\ Sound(proposal[p], voted[p])
<1>1. PICK U : proposal \in [Props -> BallotOf(U)]
  BY DEF BallotInv
<1>2. proposal[p] \in BallotOf(U)
  BY <1>1
<1>3. QED
  BY <1>2 DEF BallotInv, BallotOf

LEMMA GovernedStep ==
    ASSUME BallotInv, [GovernanceNext]_allVars
    PROVE  [Next]_vars
<1>1. CASE GroupStep
  BY <1>1 DEF GroupStep, Next, MembershipStep
<1>2. ASSUME NEW c \in Creators, NEW x \in Motion, CreateProposal(c, x)
      PROVE  UNCHANGED vars
  BY <1>2 DEF CreateProposal
<1>3. ASSUME NEW v \in Address, NEW p \in Props, NEW yes \in BOOLEAN,
             VoteOnProposal(v, p, yes)
      PROVE  UNCHANGED vars
  BY <1>3 DEF VoteOnProposal
<1>4. ASSUME NEW p \in Props, ExecuteProposal(p)
      PROVE  [Next]_vars
  <2>1. ~paused
    BY <1>4 DEF ExecuteProposal
  <2>2. CASE UNCHANGED vars
    BY <2>2
  <2>3. CASE Effect(proposal[p])
    BY <2>1, <2>3, BallotIsSound, EffectIsGroupStep DEF Sound
  <2>4. QED
    BY <1>4, <2>2, <2>3 DEF ExecuteProposal
<1>5. CASE RulesStep
  BY <1>5, RulesLeaveAlone
<1>6. CASE UNCHANGED allVars
  BY <1>6 DEF allVars
<1>7. QED
  BY <1>1, <1>2, <1>3, <1>4, <1>5, <1>6 DEF GovernanceNext, BallotStep

(* Votes change the group only as AhjoorRosca lets proposals change it.      *)
THEOREM GovernanceKeepsGroup == GovernanceSpec => KeepsGroup
<1>1. GovernanceInit => Init /\ BallotInv
  BY InitBallots DEF GovernanceInit
<1>2. BallotInv /\ [GovernanceNext]_allVars => BallotInv'
  BY BallotsStaySound
<1>3. BallotInv /\ [GovernanceNext]_allVars => [Next]_vars
  BY GovernedStep
<1>4. QED
  BY <1>1, <1>2, <1>3, PTL DEF GovernanceSpec, KeepsGroup, Spec, allVars

(* Suspensions and default counts agree in the governed group as well.       *)
THEOREM GovernedSuspension == GovernanceSpec => []SuspensionAgrees
BY GovernanceKeepsGroup, SuspensionFollowsCount, PTL DEF KeepsGroup

(* And so hold types, the money of the pot, the seats of the payout order   *)
(* and the length of a round; only members in good standing are paid, marks *)
(* of payment stay right, and a pause freezes the group.                    *)
THEOREM GovernedGroup ==
    GovernanceSpec => /\ [](TypeOK /\ PotHeld /\ SeatsMatchMembers /\ WindowKept)
                      /\ PayeeInGoodStanding
                      /\ MarksHold
                      /\ PauseFreezesGroup
BY GovernanceKeepsGroup, GroupTypeCorrect, PotIsHeld, SeatsFollowMembers, PausesCostNoTime,
   PayeesInGoodStanding, OnlyOwnTierUnmarks, PauseHoldsGroup, PTL DEF KeepsGroup

-----------------------------------------------------------------------------
(* Nobody's standing changes without a vote *)

KeepsStanding ==
    /\ suspended \subseteq suspended'
    /\ \A m \in members \ members' : paid = {} \/ exitRequest[m] # -1

LEMMA RoundKeepsStanding ==
    ASSUME RoundStep
    PROVE  KeepsStanding
<1>1. ASSUME NEW c \in Address, NEW t \in Token, NEW a \in Amount, Contribute(c, t, a)
      PROVE  KeepsStanding
  BY <1>1 DEF Contribute, KeepsStanding, memberVars
<1>2. ASSUME NEW m \in Skippers, NEW r \in Rounds, RequestSkip(m, r)
      PROVE  KeepsStanding
  BY <1>2 DEF RequestSkip, KeepsStanding, memberVars, defaultVars
<1>3. CASE CloseRound
  BY <1>3 DEF CloseRound, KeepsStanding, memberVars
<1>4. CASE FinalizeRound
  BY <1>4 DEF FinalizeRound, KeepsStanding, memberVars
<1>5. ASSUME NEW m \in Address, PenaliseDefaulter(m)
      PROVE  KeepsStanding
  BY <1>5 DEF PenaliseDefaulter, KeepsStanding, memberVars
<1>6. QED
  BY <1>1, <1>2, <1>3, <1>4, <1>5 DEF RoundStep

LEMMA JoiningKeepsStanding ==
    ASSUME JoinOrLeaveStep
    PROVE  KeepsStanding
<1>1. ASSUME NEW m \in Joiners, AddMember(m) \/ GenerateInvite(m)
      PROVE  KeepsStanding
  BY <1>1 DEF AddMember, Join, GenerateInvite, KeepsStanding, defaultVars
<1>2. ASSUME NEW m \in Address, JoinWithInvite(m) \/ RejectExit(m)
      PROVE  KeepsStanding
  BY <1>2 DEF JoinWithInvite, Join, RejectExit, KeepsStanding, defaultVars
<1>3. ASSUME NEW m \in Address, ApproveExit(m)
      PROVE  KeepsStanding
  BY <1>3 DEF ApproveExit, KeepsStanding, defaultVars
<1>4. ASSUME NEW m \in Leavers, RequestEmergencyExit(m)
      PROVE  KeepsStanding
  BY <1>4 DEF RequestEmergencyExit, KeepsStanding, defaultVars
<1>5. ASSUME NEW m \in Fallen, RemoveMember(m)
      PROVE  KeepsStanding
  BY <1>5 DEF RemoveMember, Leave, KeepsStanding, defaultVars
<1>6. ASSUME NEW n \in Cap, UpdateMaxMembers(n)
      PROVE  KeepsStanding
  BY <1>6 DEF UpdateMaxMembers, KeepsStanding, defaultVars
<1>7. QED
  BY <1>1, <1>2, <1>3, <1>4, <1>5, <1>6 DEF JoinOrLeaveStep

LEMMA GroupKeepsStanding ==
    ASSUME GroupStep
    PROVE  KeepsStanding
<1>1. CASE SettingsStep
  BY <1>1 DEF SettingsStep, PauseGroup, ResumeGroup, SetMemberTier,
       SetReinvestPreference, UpdateFee, AddApprovedToken, RemoveApprovedToken,
       SetExchangeRate, SetTokenLimit, SetRewardDistParams, KeepsStanding,
       memberVars, defaultVars
<1>2. CASE MoneyStep
  BY <1>2 DEF MoneyStep, ContributeToInsurance, DepositRewards, ClaimRewards,
       KeepsStanding, memberVars, defaultVars
<1>3. CASE Tick \/ ExitRequestsLapse \/ InvitesLapse
  BY <1>3 DEF Tick, ExitRequestsLapse, InvitesLapse, KeepsStanding, memberVars,
       defaultVars
<1>4. QED
  BY <1>1, <1>2, <1>3, RoundKeepsStanding, JoiningKeepsStanding DEF GroupStep

VotedStep ==
    /\ \A m \in suspended \ suspended' : \E p \in Props : Decides(p, "PenaltyAppeal", m)
    /\ \A m \in members \ members' :
          paid = {} \/ exitRequest[m] # -1 \/ \E p \in Props : Decides(p, "MemberRemoval", m)

LEMMA KeptIsVoted ==
    ASSUME KeepsStanding \/ UNCHANGED vars
    PROVE  VotedStep
<1>1. CASE KeepsStanding
  BY <1>1 DEF KeepsStanding, VotedStep
<1>2. CASE UNCHANGED vars
  BY <1>2 DEF VotedStep, vars, memberVars, defaultVars
<1>3. QED
  BY <1>1, <1>2

(* A proposal passes by more votes for it than against: somebody voted.     *)
LEMMA PassingNeedsVote ==
    ASSUME BallotInv, NEW p \in Props, Passed(p)
    PROVE  voted[p] # {}
BY BallotIsSound DEF Passed, Sound

LEMMA ExecutionIsVoted ==
    ASSUME BallotInv, NEW p \in Props, ExecuteProposal(p)
    PROVE  VotedStep
<1>1. CASE ~Passed(p)
  BY <1>1, KeptIsVoted DEF ExecuteProposal
<1>2. CASE Passed(p)
  <2>1. proposal[p].status = "Pending" /\ voted[p] # {}
    BY <1>2, PassingNeedsVote DEF ExecuteProposal
  <2>2. PICK U : proposal \in [Props -> BallotOf(U)]
    BY DEF BallotInv
  <2>3. proposal' = [proposal EXCEPT ![p].status = "Executed"]
    BY <1>2 DEF ExecuteProposal
  <2>4. proposal'[p].status = "Executed"
    BY <2>2, <2>3 DEF BallotOf
  <2>5. Effect(proposal[p])
    BY <1>2 DEF ExecuteProposal
  <2>6. CASE /\ proposal[p].kind = "PenaltyAppeal"
             /\ ExecutePenaltyAppeal(proposal[p].target)
    <3>1. suspended \ suspended' \subseteq {proposal[p].target} /\ members' = members
      BY <2>6 DEF ExecutePenaltyAppeal, memberVars
    <3>2. Decides(p, "PenaltyAppeal", proposal[p].target)
      BY <2>1, <2>4, <2>6 DEF Decides
    <3>3. QED
      BY <3>1, <3>2 DEF VotedStep
  <2>7. CASE /\ proposal[p].kind = "MemberRemoval"
             /\ ExecuteMemberRemoval(proposal[p].target)
    <3>1. members \ members' \subseteq {proposal[p].target} /\ suspended' = suspended
      BY <2>7 DEF ExecuteMemberRemoval, Leave, defaultVars
    <3>2. Decides(p, "MemberRemoval", proposal[p].target)
      BY <2>1, <2>4, <2>7 DEF Decides
    <3>3. QED
      BY <3>1, <3>2 DEF VotedStep
  <2>8. CASE UNCHANGED vars \/ UpdateMaxMembers(proposal[p].data)
    <3>1. UNCHANGED <<members, suspended>>
      BY <2>8 DEF UpdateMaxMembers, vars, memberVars, defaultVars
    <3>2. QED
      BY <3>1 DEF VotedStep
  <2>9. QED
    BY <2>5, <2>6, <2>7, <2>8 DEF Effect, UpdateMaxMembersIfFit
<1>3. QED
  BY <1>1, <1>2

LEMMA StepIsVoted ==
    ASSUME BallotInv, [GovernanceNext]_allVars
    PROVE  VotedStep
<1>1. CASE GroupStep
  BY <1>1, GroupKeepsStanding, KeptIsVoted
<1>2. ASSUME NEW c \in Creators, NEW x \in Motion, CreateProposal(c, x)
      PROVE  VotedStep
  BY <1>2, KeptIsVoted DEF CreateProposal
<1>3. ASSUME NEW v \in Address, NEW p \in Props, NEW yes \in BOOLEAN,
             VoteOnProposal(v, p, yes)
      PROVE  VotedStep
  BY <1>3, KeptIsVoted DEF VoteOnProposal
<1>4. ASSUME NEW p \in Props, ExecuteProposal(p)
      PROVE  VotedStep
  BY <1>4, ExecutionIsVoted
<1>5. CASE RulesStep \/ UNCHANGED allVars
  <2>1. UNCHANGED vars
    BY <1>5, RulesLeaveAlone DEF allVars
  <2>2. QED
    BY <2>1, KeptIsVoted
<1>6. QED
  BY <1>1, <1>2, <1>3, <1>4, <1>5 DEF GovernanceNext, BallotStep

(* For any members, quorums, delegations and number of proposals: no         *)
(* suspension ends and no member is put out in the middle of a round unless  *)
(* somebody voted on a proposal about him and it is decided in that step.    *)
THEOREM StandingIsVoted == GovernanceSpec => StandingNeedsVote
<1>1. GovernanceInit => BallotInv
  BY InitBallots
<1>2. BallotInv /\ [GovernanceNext]_allVars => BallotInv'
  BY BallotsStaySound
<1>3. BallotInv /\ [GovernanceNext]_allVars => [VotedStep]_allVars
  BY StepIsVoted
<1>4. QED
  BY <1>1, <1>2, <1>3, PTL DEF GovernanceSpec, StandingNeedsVote, VotedStep, allVars

-----------------------------------------------------------------------------
(* The counters are the voices *)

(* The counters of one ballot, and those who voted on it.                   *)
Counted(b, voters, w) ==
    /\ b.for + b.against = SumFunctionOnSet(w, voters)
    /\ \A a \in Address : w[a] # 0 => a \in voters

(* VoicesCountOnce is inductive once it is known that nobody votes on what  *)
(* has not been proposed, so that a new proposal starts from nothing.       *)
CountInv ==
    /\ proposal \in [Props -> BallotType]
    /\ voted \in [Props -> SUBSET Address]
    /\ voice \in [Props -> [Address -> Nat]]
    /\ nextProposal \in Nat
    /\ \A p \in Props : Counted(proposal[p], voted[p], voice[p])
    /\ \A p \in Props : p >= nextProposal => proposal[p].status = "None" /\ voted[p] = {}

RulesTyped ==
    /\ quorum \in 1 .. 100
    /\ quorumOf \in [ProposalType -> Nat]
    /\ \A k \in ProposalType : quorumOf[k] # 0 => quorumOf[k] >= 100 /\ quorumOf[k] <= 10000
    /\ weighted \in BOOLEAN

(* What a ballot is made of, with the values of two fields left unopened.   *)
BallotData == Int \cup {NoData}
BallotQuorum == 100 .. 10000

LEMMA BallotShape ==
    BallotType = [kind : ProposalType, target : Address, data : BallotData, for : Nat,
                  against : Nat, deadline : Nat, quorum : BallotQuorum,
                  status : ProposalStatus]
BY DEF BallotType, BallotData, BallotQuorum

(* A vote and a decision each change one field of a ballot.                 *)
LEMMA BallotChanged ==
    ASSUME NEW b \in BallotType, NEW n \in Nat, NEW st \in ProposalStatus
    PROVE  /\ b.for \in Nat /\ b.against \in Nat
           /\ [b EXCEPT !.for = n] \in BallotType
           /\ [b EXCEPT !.for = n].for = n /\ [b EXCEPT !.for = n].against = b.against
           /\ [b EXCEPT !.against = n] \in BallotType
           /\ [b EXCEPT !.against = n].for = b.for /\ [b EXCEPT !.against = n].against = n
           /\ [b EXCEPT !.status = st] \in BallotType
           /\ [b EXCEPT !.status = st].for = b.for
           /\ [b EXCEPT !.status = st].against = b.against
<1>2. b.for \in Nat /\ b.against \in Nat
  BY BallotShape
<1>3. /\ [b EXCEPT !.for = n] \in BallotType
      /\ [b EXCEPT !.for = n].for = n /\ [b EXCEPT !.for = n].against = b.against
  BY BallotShape
<1>4. /\ [b EXCEPT !.against = n] \in BallotType
      /\ [b EXCEPT !.against = n].for = b.for /\ [b EXCEPT !.against = n].against = n
  BY BallotShape
<1>5. /\ [b EXCEPT !.status = st] \in BallotType
      /\ [b EXCEPT !.status = st].for = b.for /\ [b EXCEPT !.status = st].against = b.against
  BY BallotShape
<1>6. QED
  BY <1>2, <1>3, <1>4, <1>5

LEMMA OneCount ==
    ASSUME CountInv, NEW p \in Props, NEW b \in BallotType, NEW voters \in SUBSET Address,
           NEW w \in [Address -> Nat], Counted(b, voters, w),
           proposal' = [proposal EXCEPT ![p] = b],
           voted' = [voted EXCEPT ![p] = voters],
           voice' = [voice EXCEPT ![p] = w],
           nextProposal' \in Nat, nextProposal' >= nextProposal, p < nextProposal'
    PROVE  CountInv'
<1>1. /\ proposal' \in [Props -> BallotType]
      /\ voted' \in [Props -> SUBSET Address]
      /\ voice' \in [Props -> [Address -> Nat]]
  BY DEF CountInv
<1>2. ASSUME NEW q \in Props, q # p
      PROVE  proposal'[q] = proposal[q] /\ voted'[q] = voted[q] /\ voice'[q] = voice[q]
  BY <1>2 DEF CountInv
<1>3. proposal'[p] = b /\ voted'[p] = voters /\ voice'[p] = w
  BY DEF CountInv
<1>4. \A q \in Props : Counted(proposal'[q], voted'[q], voice'[q])
  <2>1. TAKE q \in Props
  <2>2. CASE q = p
    BY <1>3, <2>2
  <2>3. CASE q # p
    BY <1>2, <2>3 DEF CountInv
  <2>4. QED
    BY <2>2, <2>3
<1>5. \A q \in Props : q >= nextProposal' =>
         proposal'[q].status = "None" /\ voted'[q] = {}
  <2>1. Props \subseteq Int /\ nextProposal \in Nat
    BY GovernanceConstants DEF Props, CountInv
  <2>2. SUFFICES ASSUME NEW q \in Props, q >= nextProposal'
                 PROVE  proposal'[q].status = "None" /\ voted'[q] = {}
    OBVIOUS
  <2>3. q # p /\ q >= nextProposal
    BY <2>1, <2>2
  <2>4. QED
    BY <1>2, <2>3 DEF CountInv
<1>6. QED
  BY <1>1, <1>4, <1>5 DEF CountInv, Counted

(* The quorum of a proposal is some hundredths of a percent, up to all.      *)
LEMMA QuorumInRange ==
    ASSUME RulesTyped, NEW k \in ProposalType
    PROVE  RequiredQuorum(k) \in BallotQuorum
<1>1. quorumOf[k] \in Nat
  BY DEF RulesTyped
<1>2. quorumOf[k] # 0 => quorumOf[k] \in BallotQuorum
  <2> DEFINE n == quorumOf[k]
  <2>1. n # 0 => n >= 100 /\ n <= 10000
    BY DEF RulesTyped
  <2>2. n \in Nat
    BY <1>1
  <2> HIDE DEF n
  <2>3. n # 0 => n \in BallotQuorum
    BY <2>1, <2>2, SMT DEF BallotQuorum
  <2>4. QED
    BY <2>3 DEF n
<1>3. quorum * 100 \in BallotQuorum
  <2>1. quorum \in Int /\ 1 <= quorum /\ quorum <= 100
    BY DEF RulesTyped
  <2>2. QED
    BY <2>1, SMT DEF BallotQuorum
<1>4. QED
  BY <1>2, <1>3 DEF RequiredQuorum

(* The fields of a motion are what a ballot is made of.                      *)
LEMMA MotionFields ==
    ASSUME NEW x \in MotionType
    PROVE  /\ x.kind \in ProposalType /\ x.target \in Address
           /\ x.data \in Int \cup {NoData} /\ x.duration \in Nat
BY DEF MotionType

(* The quorum a motion calls for is in range.                                *)
LEMMA MotionQuorum ==
    ASSUME RulesTyped, NEW x \in MotionType
    PROVE  RequiredQuorum(x.kind) \in BallotQuorum
<1>1. x.kind \in ProposalType
  BY MotionFields
<1>2. QED
  BY <1>1, QuorumInRange

LEMMA CreationCounts ==
    ASSUME CountInv, RulesTyped, Typed, NEW c, NEW x \in Motion, CreateProposal(c, x)
    PROVE  CountInv'
<1> DEFINE p == nextProposal
           d == now + x.duration
           q == RequiredQuorum(x.kind)
           b == [kind |-> x.kind, target |-> x.target, data |-> x.data, for |-> 0,
                 against |-> 0, deadline |-> d, quorum |-> q, status |-> "Pending"]
<1>1. p \in Props /\ p' = p + 1 /\ p \in Nat
  BY GovernanceConstants DEF CreateProposal, CountInv, Props
<1>2. x \in MotionType
  BY GovernanceConstants
<1>3. b \in BallotType
  <2>1. q \in BallotQuorum
    BY <1>2, MotionQuorum
  <2>2. d \in Nat
    <3>1. x.duration \in Nat
      BY <1>2, MotionFields
    <3>2. now \in Nat
      BY DEF Typed, ClockTyped
    <3>3. QED
      BY <3>1, <3>2
  <2>3. /\ x.kind \in ProposalType /\ x.target \in Address
        /\ x.data \in Int \cup {NoData}
    BY <1>2, MotionFields
  <2>4. "Pending" \in ProposalStatus
    BY DEF ProposalStatus
  <2>5. x.data \in BallotData
    BY <2>3 DEF BallotData
  <2> HIDE DEF d, q
  <2>6. QED
    BY <2>1, <2>2, <2>3, <2>4, <2>5, BallotShape
<1>4. \A a \in Address : voice[p][a] = 0
  <2>1. voted[p] = {}
    BY <1>1 DEF CountInv
  <2>2. QED
    BY <1>1, <2>1 DEF CountInv, Counted
<1>5. Counted(b, {}, voice[p])
  BY <1>4, SumEmpty DEF Counted
<1>6. /\ proposal' = [proposal EXCEPT ![p] = b]
      /\ voted' = [voted EXCEPT ![p] = {}]
      /\ voice' = voice
  BY DEF CreateProposal
<1>7. voice' = [voice EXCEPT ![p] = voice[p]] /\ voice[p] \in [Address -> Nat]
  BY <1>1, <1>6 DEF CountInv
<1> HIDE DEF b
<1>8. p' \in Nat /\ p' >= nextProposal /\ p < p'
  BY <1>1
<1>9. {} \in SUBSET Address
  OBVIOUS
<1>10. QED
  BY <1>1, <1>3, <1>5, <1>6, <1>7, <1>8, <1>9, OneCount

LEMMA VoteCounts ==
    ASSUME CountInv, Typed, NEW v \in Address, NEW p \in Props, NEW yes \in BOOLEAN,
           VoteOnProposal(v, p, yes)
    PROVE  CountInv'
<1> DEFINE voices == {v} \cup Behind(v, p)
           said == [a \in voices |-> Weight(a)]
           sum == SumFunctionOnSet(said, voices)
           voters == voted[p] \cup voices
           w == [a \in Address |-> IF a \in voices THEN Weight(a) ELSE voice[p][a]]
           old == proposal[p]
           b == IF yes THEN [old EXCEPT !.for = @ + sum]
                ELSE [old EXCEPT !.against = @ + sum]
<1>1. /\ v \notin voted[p]
      /\ old.status = "Pending"
      /\ proposal' = IF yes THEN [proposal EXCEPT ![p].for = @ + sum]
                     ELSE [proposal EXCEPT ![p].against = @ + sum]
      /\ voted' = [voted EXCEPT ![p] = @ \cup voices]
      /\ voice' = [voice EXCEPT ![p] = w]
      /\ nextProposal' = nextProposal
  BY DEF VoteOnProposal
<1>2. /\ old \in BallotType /\ voted[p] \in SUBSET Address
      /\ voice[p] \in [Address -> Nat] /\ Counted(old, voted[p], voice[p])
  BY DEF CountInv
<1>3. voices \subseteq Address /\ voted[p] \cap voices = {}
  BY <1>1 DEF Behind
<1>4. \A a \in Address : Weight(a) \in Nat
  BY DEF Weight, Typed, RoundTyped
<1>5. IsFiniteSet(voices) /\ IsFiniteSet(voted[p])
  BY <1>2, <1>3, AccountsFinite
<1> HIDE DEF voices
<1>6. \A a \in voices : said[a] = Weight(a) /\ w[a] = Weight(a) /\ said[a] \in Nat
  BY <1>3, <1>4
<1>7. \A a \in voted[p] : voice[p][a] \in Int /\ w[a] = voice[p][a]
  BY <1>2, <1>3
<1>8. w \in [Address -> Nat]
  BY <1>2, <1>4
<1>9. \A a \in Address : w[a] # 0 => a \in voters
  BY <1>2 DEF Counted
<1> HIDE DEF said, w
<1>10. sum \in Nat
  BY <1>5, <1>6, SumNat
<1>11. sum = SumFunctionOnSet(w, voices)
  BY <1>5, <1>6, SumEqual
<1>12. SumFunctionOnSet(w, voters) = SumFunctionOnSet(voice[p], voted[p]) + sum
  <2>1. \A a \in voices : w[a] \in Int
    BY <1>6
  <2>2. SumFunctionOnSet(w, voters)
           = SumFunctionOnSet(voice[p], voted[p]) + SumFunctionOnSet(w, voices)
    BY <1>3, <1>5, <1>7, <2>1, SumGrows
  <2>3. QED
    BY <1>11, <2>2
<1> HIDE DEF sum
<1>13. old.for \in Nat /\ old.against \in Nat
  BY <1>2, BallotChanged DEF ProposalStatus
<1>14. b \in BallotType /\ b.for + b.against = old.for + old.against + sum
  <2>1. CASE yes
    <3> DEFINE n == old.for + sum
    <3>0. n \in Nat
      BY <1>10, <1>13
    <3>1. b = [old EXCEPT !.for = n]
      BY <2>1
    <3> HIDE DEF n, b
    <3>2. b \in BallotType /\ b.for = n /\ b.against = old.against
      BY <1>2, <3>0, <3>1, BallotChanged DEF ProposalStatus
    <3> HIDE DEF old
    <3>3. QED
      BY <1>10, <1>13, <3>2 DEF n
  <2>2. CASE ~yes
    <3> DEFINE n == old.against + sum
    <3>0. n \in Nat
      BY <1>10, <1>13
    <3>1. b = [old EXCEPT !.against = n]
      BY <2>2
    <3> HIDE DEF n, b
    <3>2. b \in BallotType /\ b.for = old.for /\ b.against = n
      BY <1>2, <3>0, <3>1, BallotChanged DEF ProposalStatus
    <3> HIDE DEF old
    <3>3. QED
      BY <1>10, <1>13, <3>2 DEF n
  <2>3. QED
    BY <2>1, <2>2
<1>15. Counted(b, voters, w)
  <2>1. b.for + b.against = SumFunctionOnSet(w, voters)
    <3>1. old.for + old.against = SumFunctionOnSet(voice[p], voted[p])
      BY <1>2 DEF Counted
    <3> HIDE DEF b, old, voters
    <3>2. QED
      BY <1>12, <1>14, <3>1
  <2>2. QED
    BY <1>9, <2>1 DEF Counted
<1>16. proposal' = [proposal EXCEPT ![p] = b]
  <2>1. CASE yes
    BY <1>1, <2>1 DEF CountInv
  <2>2. CASE ~yes
    BY <1>1, <2>2 DEF CountInv
  <2>3. QED
    BY <2>1, <2>2
<1>17. voted' = [voted EXCEPT ![p] = voters] /\ voters \in SUBSET Address
  BY <1>1, <1>2, <1>3 DEF CountInv
<1>18. p < nextProposal
  <2>1. p \in Int /\ nextProposal \in Nat
    BY GovernanceConstants DEF Props, CountInv
  <2>2. ~ (p >= nextProposal)
    BY <1>1 DEF CountInv
  <2>3. QED
    BY <2>1, <2>2
<1>19. nextProposal' \in Nat /\ nextProposal' >= nextProposal /\ p < nextProposal'
  BY <1>1, <1>18 DEF CountInv
<1> HIDE DEF b, old, voters
<1>20. QED
  BY <1>1, <1>8, <1>14, <1>15, <1>16, <1>17, <1>19, OneCount

LEMMA DecisionCounts ==
    ASSUME CountInv, NEW p \in Props, ExecuteProposal(p)
    PROVE  CountInv'
<1> DEFINE old == proposal[p]
<1>1. PICK st \in {"Executed", "Rejected"} : proposal' = [proposal EXCEPT ![p].status = st]
  BY DEF ExecuteProposal
<1>2. UNCHANGED <<voted, voice, nextProposal>> /\ old.status = "Pending"
  BY DEF ExecuteProposal
<1> DEFINE b == [old EXCEPT !.status = st]
<1>3. /\ old \in BallotType /\ voted[p] \in SUBSET Address
      /\ voice[p] \in [Address -> Nat] /\ Counted(old, voted[p], voice[p])
  BY DEF CountInv
<1>4. b \in BallotType /\ b.for = old.for /\ b.against = old.against
  BY <1>3, BallotChanged DEF ProposalStatus
<1>5. Counted(b, voted[p], voice[p])
  BY <1>3, <1>4 DEF Counted
<1>6. /\ proposal' = [proposal EXCEPT ![p] = b]
      /\ voted' = [voted EXCEPT ![p] = voted[p]]
      /\ voice' = [voice EXCEPT ![p] = voice[p]]
  BY <1>1, <1>2 DEF CountInv
<1>7. p < nextProposal
  <2>1. p \in Int /\ nextProposal \in Nat
    BY GovernanceConstants DEF Props, CountInv
  <2>2. ~ (p >= nextProposal)
    BY <1>2 DEF CountInv
  <2>3. QED
    BY <2>1, <2>2
<1>8. nextProposal' \in Nat /\ nextProposal' >= nextProposal /\ p < nextProposal'
  BY <1>2, <1>7 DEF CountInv
<1> HIDE DEF b, old
<1>9. QED
  BY <1>3, <1>4, <1>5, <1>6, <1>8, OneCount

LEMMA StepCounts ==
    ASSUME CountInv, RulesTyped, Typed, [GovernanceNext]_allVars
    PROVE  CountInv'
<1>1. ASSUME UNCHANGED <<proposal, voted, voice, nextProposal>>
      PROVE  CountInv'
  BY <1>1 DEF CountInv, Counted
<1>2. CASE GroupStep \/ RulesStep \/ UNCHANGED allVars
  <2>1. CASE GroupStep \/ UNCHANGED allVars
    BY <1>1, <2>1 DEF GroupStep, allVars, govVars, ballotVars
  <2>2. CASE RulesStep
    BY <1>1, <2>2, RulesLeaveAlone DEF ballotVars
  <2>3. QED
    BY <1>2, <2>1, <2>2
<1>3. CASE BallotStep
  BY <1>3, CreationCounts, VoteCounts, DecisionCounts DEF BallotStep
<1>4. QED
  BY <1>2, <1>3 DEF GovernanceNext

LEMMA StepKeepsRules ==
    ASSUME RulesTyped, [GovernanceNext]_allVars
    PROVE  RulesTyped'
<1>1. ASSUME UNCHANGED rulesVars
      PROVE  RulesTyped'
  BY <1>1 DEF RulesTyped, rulesVars
<1>2. CASE GroupStep \/ UNCHANGED allVars
  BY <1>1, <1>2 DEF GroupStep, allVars, govVars
<1>3. ASSUME NEW p \in Props, ExecuteProposal(p)
      PROVE  RulesTyped'
  <2>1. quorum' \in {quorum, NewQuorum(proposal[p].data)} /\ UNCHANGED <<quorumOf, weighted>>
    BY <1>3 DEF ExecuteProposal, Effect
  <2>2. quorum' \in 1 .. 100
    BY <2>1 DEF RulesTyped, NewQuorum
  <2>3. QED
    BY <2>1, <2>2 DEF RulesTyped
<1>4. CASE BallotStep
  BY <1>1, <1>3, <1>4 DEF BallotStep, CreateProposal, VoteOnProposal
<1>5. CASE RulesStep
  <2>1. ASSUME NEW k \in QuorumFor, NEW bps \in TypeQuorum, SetQuorumPerType(k, bps)
        PROVE  RulesTyped'
    <3>1. /\ quorumOf' = [quorumOf EXCEPT ![k] = bps]
          /\ UNCHANGED <<quorum, weighted>>
      BY <2>1 DEF SetQuorumPerType
    <3>2. bps \in Nat /\ bps >= 100 /\ bps <= 10000
      BY <2>1 DEF SetQuorumPerType
    <3>3. quorumOf' \in [ProposalType -> Nat]
      <4>1. k \in ProposalType /\ quorumOf \in [ProposalType -> Nat]
        BY GovernanceConstants DEF RulesTyped
      <4>2. QED
        BY <3>1, <3>2, <4>1
    <3>4. ASSUME NEW j \in ProposalType, quorumOf'[j] # 0
          PROVE  quorumOf'[j] >= 100 /\ quorumOf'[j] <= 10000
      BY <3>1, <3>2, <3>4 DEF RulesTyped
    <3>5. QED
      BY <3>1, <3>3, <3>4 DEF RulesTyped
  <2>2. QED
    BY <1>1, <1>5, <2>1 DEF RulesStep, DelegateVote, RevokeDelegation, DelegationsLapse
<1>6. QED
  BY <1>2, <1>4, <1>5 DEF GovernanceNext

LEMMA InitCounts == GovernanceInit => CountInv /\ RulesTyped
<1>1. SUFFICES ASSUME GovernanceInit
               PROVE  CountInv /\ RulesTyped
  OBVIOUS
<1>2. /\ proposal = [p \in Props |-> NoProposal] /\ voted = [p \in Props |-> {}]
      /\ voice = [p \in Props |-> [a \in Address |-> 0]]
      /\ nextProposal = 0
  BY <1>1 DEF GovernanceInit
<1>3. /\ NoProposal \in BallotType /\ NoProposal.status = "None"
      /\ NoProposal.for = 0 /\ NoProposal.against = 0
  <2>1. (CHOOSE a \in Address : TRUE) \in Address
    BY GovernanceConstants
  <2>2. QED
    BY <2>1 DEF NoProposal, BallotType, ProposalType, ProposalStatus
<1>4. Counted(NoProposal, {}, [a \in Address |-> 0])
  BY <1>3, SumEmpty DEF Counted
<1>5. CountInv
  BY <1>2, <1>3, <1>4 DEF CountInv
<1>6. RulesTyped
  BY <1>1, GovernanceConstants DEF GovernanceInit, RulesTyped
<1>7. QED
  BY <1>5, <1>6

(* Every account's voice is counted once in every ballot, with the weight   *)
(* it had, for any number of members, proposals, delegations and changes    *)
(* of the group during a vote; and quorums stay within 1% and 100%.         *)
THEOREM VoicesAreCounted == GovernanceSpec => []VoicesCountOnce
<1> DEFINE Inv == BallotInv /\ CountInv /\ RulesTyped /\ Typed
<1>1. GovernanceInit => Inv
  BY InitBallots, InitCounts, InitTyped DEF GovernanceInit
<1>2. Inv /\ [GovernanceNext]_allVars => Inv'
  BY BallotsStaySound, StepCounts, StepKeepsRules, GovernedStep, StepTyped
<1>3. Inv => VoicesCountOnce
  BY DEF CountInv, Counted, RulesTyped, VoicesCountOnce
<1> HIDE DEF Inv
<1>4. QED
  BY <1>1, <1>2, <1>3, PTL DEF GovernanceSpec, allVars

=============================================================================
