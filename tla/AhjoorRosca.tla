---------------------------- MODULE AhjoorRosca ----------------------------
(***************************************************************************)
(* The rotating savings group (contracts/ahjoor-rosca): in every round     *)
(* each member pays a contribution and one member, in a fixed rotation,    *)
(* receives the pot.  Members join, skip, default, are suspended, leave    *)
(* with a refund; the admin closes and finalises rounds and pauses all of  *)
(* it; insurance and reward money lies in the same account as the pot.     *)
(*                                                                         *)
(* A call runs to its end or panics without effect, so each entry point is *)
(* one action.  Calls that require the admin's signature have no caller    *)
(* parameter.  The effects of a passed proposal are actions of their own:  *)
(* which proposals pass is not decided here.                               *)
(***************************************************************************)
EXTENDS Integers, Sequences, FiniteSets, FiniteSetsExt

CONSTANTS
    Address,                \* accounts
    Founders,               \* members given to init
    FirstOrder,             \* payout order init resolves
    Joiners,                \* those the admin may add or invite
    Token,                  \* token contracts
    Base,                   \* the group's own token
    Contribution,           \* contribution_amount
    RoundDuration,          \* round_duration or round_duration_seconds
    MaxDefaults,            \* max_defaults
    Penalty,                \* penalty_amount
    SkipFee,                \* skip_fee
    MaxSkips,               \* max_skips_per_cycle
    ExitPenaltyBps,         \* exit_penalty_bps
    HasFeeRecipient,        \* whether a fee recipient was configured
    FirstFee,               \* fee_bps
    FirstCap,               \* max_members
    Unlimited,              \* no TokenLimits entry
    Amount,                 \* amounts a member may contribute
    Premium,                \* amounts a member may pay into the insurance
    Reward,                 \* amounts somebody may deposit as rewards
    Tier,                   \* tiers the admin may set, in basis points
    Rate,                   \* exchange rates the admin may set, times 10^7
    Limit,                  \* token limits the admin may set
    FeeRate,                \* fees the admin may set
    Cap,                    \* member limits the admin may set
    Weighting,              \* reward weights the admin may set
    Sharing,                \* bound: ways of sharing rewards that are tried
    Listed,                 \* bound: tokens the admin manages
    Skippers, Leavers, Investors, Fallen,
                            \* bounds: who may ask to skip, to exit, to
                            \* reinvest, and whom the admin or a vote removes
    Outages,                \* bound: times at which the group may be paused
    MaxHeld,                \* bound: base token held after a penalty
    MaxPool,                \* bound: most that insurance or rewards may hold
    MaxRound,               \* bound: last round that can be reached
    MaxTime                 \* bound: last timestamp

BasisPoints == 10000
RatePrecision == 10000000
MaxFeeBps == 500

Rounds == 0 .. MaxRound

Distribution == {"Equal", "Proportional", "Weighted"}

ASSUME RoscaConstants ==
    /\ Founders \subseteq Address /\ Joiners \subseteq Address
    /\ IsFiniteSet(Address)            \* an address has 32 bytes
    /\ FirstOrder \in Seq(Founders)
    /\ Len(FirstOrder) = Cardinality(Founders)
    /\ Base \in Token
    /\ Contribution \in Nat /\ RoundDuration \in Nat
    /\ MaxDefaults \in Nat \ {0}
    /\ Penalty \in Nat /\ SkipFee \in Nat /\ MaxSkips \in Nat
    /\ ExitPenaltyBps \in Nat
    /\ HasFeeRecipient \in BOOLEAN
    /\ FirstFee \in 0 .. MaxFeeBps
    /\ FirstCap \in 1 .. 100
    /\ Unlimited \notin Int
    /\ Amount \subseteq Int /\ Premium \subseteq Int /\ Reward \subseteq Nat
    /\ Tier \subseteq Nat /\ Rate \subseteq Int /\ Limit \subseteq Int
    /\ FeeRate \subseteq Nat /\ Cap \subseteq Nat
    /\ Weighting \subseteq [Address -> Nat]
    /\ Sharing \subseteq Distribution /\ Listed \subseteq Token
    /\ UNION {Skippers, Leavers, Investors, Fallen} \subseteq Address
    /\ MaxHeld \in Nat /\ MaxPool \in Nat /\ MaxRound \in Nat /\ MaxTime \in Nat

VARIABLES
    now,                    \* ledger timestamp
    paused,                 \* DataKey::Paused and IsPaused
    pausedAt,               \* DataKey::PauseTimestamp
    members,                \* DataKey::Members
    order,                  \* DataKey::PayoutOrder
    exited,                 \* DataKey::ExitedMembers
    exitRequest,            \* rounds_contributed of a pending ExitRequest, or -1
    invited,                \* approved_invitees
    maxMembers,             \* DataKey::MaxMembers
    round,                  \* DataKey::CurrentRound
    deadline,               \* DataKey::RoundDeadline (or its timestamp twin)
    paid,                   \* DataKey::PaidMembers
    contributed,            \* DataKey::MemberContributions
    skips,                  \* DataKey::SkipRequests, as pairs
    skipCount,              \* DataKey::MemberSkips
    defaulters,             \* DataKey::Defaulters
    defaultCount,           \* DataKey::DefaultCount
    suspended,              \* DataKey::SuspendedMembers
    tier,                   \* DataKey::MemberTiers
    reinvests,              \* members with DataKey::ReinvestPreference
    feeBps,                 \* DataKey::FeeBps
    approved,               \* DataKey::ApprovedTokens
    rate,                   \* DataKey::ExchangeRates, 0 when not set
    limit,                  \* DataKey::TokenLimits
    insurance,              \* DataKey::InsurancePool
    rewardPool,             \* DataKey::RewardPool
    dist,                   \* DataKey::RewardDistType
    weight,                 \* DataKey::RewardWeights, 0 when not set
    claimed,                \* DataKey::ClaimedRewards
    participation,          \* DataKey::MemberParticipation
    participations,         \* DataKey::TotalParticipations
    history,                \* DataKey::RoundHistory
    balance,                \* external: the contract's balance of each token
    pot,                    \* history: paid in for the running round
    claims,                 \* history: rewards claimed so far, by all
    refunded,               \* history: exit refunds so far
    openTime                \* history: unpaused time since the round began

pauseVars == <<paused, pausedAt>>
memberVars == <<members, order, exited, exitRequest, invited, maxMembers>>
roundVars == <<round, deadline, paid, contributed, openTime>>
skipVars == <<skips, skipCount>>
defaultVars == <<defaulters, defaultCount, suspended>>
configVars == <<tier, reinvests, feeBps, approved, rate, limit>>
rewardVars == <<rewardPool, dist, weight, claimed, claims>>
shareVars == <<participation, participations>>
fundVars == <<insurance, history, balance, pot, refunded>>
vars == <<now, pauseVars, memberVars, roundVars, skipVars, defaultVars,
          configVars, rewardVars, shareVars, fundVars>>

-----------------------------------------------------------------------------
(* Who owes what, and whose turn it is *)

Required(m) == (Contribution * tier[m]) \div BasisPoints

Skipped(m, r) == <<m, r>> \in skips

EligibleUnlessExited(m) ==                  \* mutant: suspension is not looked at
    m \notin exited /\ ~Skipped(m, round)

Eligible(m) ==
    /\ m \notin suspended
    /\ m \notin exited
    /\ ~Skipped(m, round)

(* The search begins at the seat of the round and goes once around. *)
Seat(i) == order[((round + i) % Len(order)) + 1]
Turns == {i \in 0 .. Len(order) - 1 : Eligible(Seat(i))}
Recipient == Seat(Min(Turns))

(* Members who let the round pass: they neither paid nor skipped nor left. *)
Missing == {m \in members : m \notin paid /\ m \notin exited /\ ~Skipped(m, round)}

(* The order is copied seat by seat, without those of m. *)
WithoutSeat(m) ==
    LET kept[i \in 0 .. Len(order)] ==
          IF i = 0 THEN <<>>
          ELSE IF order[i] = m THEN kept[i - 1] ELSE Append(kept[i - 1], order[i])
    IN  kept[Len(order)]

-----------------------------------------------------------------------------
(* complete_round_payout and reset_round_state *)

PotIgnoringRewards(bal, t) == bal[t]        \* mutant: rewards go out too

(* What of a balance is paid out: all of it, less the base token's rewards. *)
PotOf(bal, t) == IF t = Base THEN bal[t] - rewardPool ELSE bal[t]

FeeOn(x) == IF HasFeeRecipient THEN (x * feeBps) \div BasisPoints ELSE 0

PaysOut(bal, t) == t \in approved /\ PotOf(bal, t) > 0

Reinvested(bal) ==
    IF Recipient \in reinvests /\ PaysOut(bal, Base)
    THEN PotOf(bal, Base) - FeeOn(PotOf(bal, Base)) ELSE 0

(* What leaves the contract: a reinvested pot stays, all but its fee. *)
Leaves(bal, t) ==
    IF ~PaysOut(bal, t) THEN 0
    ELSE IF t = Base /\ Recipient \in reinvests THEN FeeOn(PotOf(bal, t))
    ELSE PotOf(bal, t)

(* The insurance pool shrinks by what the pot falls short of the members'   *)
(* contributions; no token moves on its account.                            *)
Shortfall(payers, bal) ==
    SumFunctionOnSet([m \in payers |-> Required(m)], payers)
      - (IF Base \in approved THEN PotOf(bal, Base) ELSE 0)

InsuranceLeft(payers, bal) ==
    IF Shortfall(payers, bal) > 0 /\ insurance > 0
    THEN IF insurance >= Shortfall(payers, bal)
         THEN insurance - Shortfall(payers, bal) ELSE 0
    ELSE insurance

CarriesMore(m, kept) ==                     \* mutant: the exact amount will not do
    kept > Required(m)

(* Whether what the recipient left in pays the next round for him.          *)
CarriesFull(m, kept) == kept > 0 /\ kept >= Required(m)

(* bal, part and parts are the balances and participations as the caller    *)
(* has already updated them.                                                *)
CompleteRound(payers, bal, part, parts) ==
    LET r == Recipient
        kept == Reinvested(bal)
        full == CarriesFull(r, kept)
    IN  /\ Turns # {}
        /\ round < MaxRound
        /\ insurance' = InsuranceLeft(payers, bal)
        /\ balance' = [t \in Token |-> bal[t] - Leaves(bal, t)]
        /\ history' = Append(history,
             [recipient |-> r,
              amount |-> IF Base \in approved THEN PotOf(bal, Base) ELSE 0])
        /\ pot' = [t \in Token |-> IF t = Base THEN kept ELSE 0]
        /\ round' = round + 1
        /\ deadline' = now + RoundDuration
        /\ openTime' = 0
        /\ contributed' = [m \in Address |-> IF m = r THEN kept ELSE 0]
        /\ paid' = IF full THEN {r} ELSE {}
        /\ participation' = IF full THEN [part EXCEPT ![r] = @ + 1] ELSE part
        /\ participations' = IF full THEN parts + 1 ELSE parts
        /\ UNCHANGED refunded

-----------------------------------------------------------------------------
(* Contributing *)

Cost(t, a) == IF t = Base THEN a ELSE (a * RatePrecision) \div rate[t]

(* The last member to pay completes the round. *)
Contribute(c, t, a) ==
    LET bal == [balance EXCEPT ![t] = @ + Cost(t, a)]
        total == contributed[c] + a
        part == [participation EXCEPT ![c] = @ + 1]
    IN  /\ ~paused
        /\ a > 0
        /\ now <= deadline
        /\ c \in members \ exited
        /\ c \notin paid
        /\ t \in approved
        /\ t # Base => rate[t] > 0
        /\ limit[t] # Unlimited => Cost(t, a) <= limit[t]
        /\ total <= Required(c)
        /\ IF total = Required(c) /\ Cardinality(paid \cup {c}) = Cardinality(members)
           THEN CompleteRound(paid \cup {c}, bal, part, participations + 1)
           ELSE /\ contributed' = [contributed EXCEPT ![c] = total]
                /\ balance' = bal
                /\ pot' = [pot EXCEPT ![t] = @ + Cost(t, a)]
                /\ IF total = Required(c)
                   THEN /\ paid' = paid \cup {c}
                        /\ participation' = part
                        /\ participations' = participations + 1
                   ELSE UNCHANGED <<paid, participation, participations>>
                /\ UNCHANGED <<round, deadline, openTime, insurance,
                                history, refunded>>
        /\ UNCHANGED <<now, pauseVars, memberVars, skipVars, defaulters,
                       defaultCount, suspended, configVars, rewardVars>>

(* A skip is asked for the running round, while it is open, or a later one. *)
RequestSkip(m, r) ==
    LET cycle == r \div Len(order)
    IN  /\ ~paused
        /\ r >= round
        /\ r = round => now <= deadline /\ m \notin paid
        /\ m \in members
        /\ ~Skipped(m, r)
        /\ order # <<>>
        /\ skipCount[m][cycle] < MaxSkips
        /\ balance' = [balance EXCEPT ![Base] = @ + SkipFee]
        /\ skips' = skips \cup {<<m, r>>}
        /\ skipCount' = [skipCount EXCEPT ![m][cycle] = @ + 1]
        /\ UNCHANGED <<now, pauseVars, memberVars, roundVars, defaultVars,
                       configVars, rewardVars, shareVars, insurance, history,
                       pot, refunded>>

-----------------------------------------------------------------------------
(* Ending a round by the clock *)

CloseRoundWhilePaused ==                    \* mutant: paused groups close too
    /\ now > deadline
    /\ round < MaxRound
    /\ defaulters' = Missing
    /\ round' = round + 1
    /\ paid' = {}
    /\ contributed' = [m \in Address |-> 0]
    /\ deadline' = now + RoundDuration
    /\ openTime' = 0
    /\ pot' = [t \in Token |-> 0]
    /\ UNCHANGED <<now, pauseVars, memberVars, skipVars, defaultCount,
                   suspended, configVars, rewardVars, shareVars, insurance,
                   history, balance, refunded>>

(* close_round pays nobody: what was contributed stays for a later payout.  *)
CloseRound ==
    /\ ~paused
    /\ now > deadline
    /\ round < MaxRound
    /\ defaulters' = Missing
    /\ round' = round + 1
    /\ paid' = {}
    /\ contributed' = [m \in Address |-> 0]
    /\ deadline' = now + RoundDuration
    /\ openTime' = 0
    /\ pot' = [t \in Token |-> 0]
    /\ UNCHANGED <<now, pauseVars, memberVars, skipVars, defaultCount,
                   suspended, configVars, rewardVars, shareVars, insurance,
                   history, balance, refunded>>

(* The recipient is chosen before the defaults of this round count. *)
FinalizeRound ==
    LET count == [m \in Address |->
                    defaultCount[m] + (IF m \in Missing THEN 1 ELSE 0)]
    IN  /\ ~paused
        /\ now > deadline
        /\ CompleteRound(paid, balance, participation, participations)
        /\ defaulters' = Missing
        /\ defaultCount' = count
        /\ suspended' = suspended \cup {m \in Missing : count[m] >= MaxDefaults}
        /\ UNCHANGED <<now, pauseVars, memberVars, skipVars, configVars,
                       rewardVars>>

(* The defaulter signs too, and may be penalised again for the same round. *)
PenaliseDefaulter(m) ==
    /\ ~paused
    /\ Penalty # 0
    /\ m \in defaulters
    /\ balance[Base] + Penalty <= MaxHeld
    /\ balance' = [balance EXCEPT ![Base] = @ + Penalty]
    /\ defaultCount' = [defaultCount EXCEPT ![m] = @ + 1]
    /\ suspended' = IF defaultCount[m] + 1 >= MaxDefaults
                    THEN suspended \cup {m} ELSE suspended
    /\ UNCHANGED <<now, pauseVars, memberVars, roundVars, skipVars, defaulters,
                   configVars, rewardVars, shareVars, insurance,
                   history, pot, refunded>>

-----------------------------------------------------------------------------
(* Membership *)

(* Shared by add_member and join_with_invite. *)
Join(m) ==
    /\ ~paused
    /\ paid = {}
    /\ Cardinality(members) < maxMembers
    /\ m \notin members
    /\ members' = members \cup {m}
    /\ order' = Append(order, m)

AddMember(m) ==
    /\ Join(m)
    /\ UNCHANGED <<now, pauseVars, exited, exitRequest, invited, maxMembers,
                   roundVars, skipVars, defaultVars, configVars, rewardVars,
                   shareVars, fundVars>>

GenerateInvite(m) ==
    /\ ~paused
    /\ m \notin members
    /\ invited' = invited \cup {m}
    /\ UNCHANGED <<now, pauseVars, members, order, exited, exitRequest,
                   maxMembers, roundVars, skipVars, defaultVars, configVars,
                   rewardVars, shareVars, fundVars>>

JoinWithInvite(m) ==
    /\ m \in invited
    /\ invited' = invited \ {m}
    /\ Join(m)
    /\ UNCHANGED <<now, pauseVars, exited, exitRequest, maxMembers, roundVars,
                   skipVars, defaultVars, configVars, rewardVars, shareVars,
                   fundVars>>

(* Out of the member list and out of every seat of the payout order. *)
Leave(m) ==
    /\ members' = members \ {m}
    /\ order' = WithoutSeat(m)
    /\ UNCHANGED <<now, pauseVars, exited, exitRequest, invited, maxMembers,
                   roundVars, skipVars, defaultVars, configVars, rewardVars,
                   shareVars, fundVars>>

RemoveKeepingSeat(m) ==                     \* mutant: the seat is forgotten
    /\ ~paused
    /\ paid = {}
    /\ m \in members
    /\ members' = members \ {m}
    /\ UNCHANGED <<now, pauseVars, order, exited, exitRequest, invited,
                   maxMembers, roundVars, skipVars, defaultVars, configVars,
                   rewardVars, shareVars, fundVars>>

RemoveMember(m) ==
    /\ ~paused
    /\ paid = {}
    /\ m \in members
    /\ Leave(m)

(* Admin call or passed proposal; only the proposal waits for a resume. *)
UpdateMaxMembers(n) ==
    /\ n \in 1 .. 100
    /\ n >= Cardinality(members)
    /\ maxMembers' = n
    /\ UNCHANGED <<now, pauseVars, members, order, exited, exitRequest, invited,
                   roundVars, skipVars, defaultVars, configVars, rewardVars,
                   shareVars, fundVars>>

RequestEmergencyExit(m) ==
    /\ ~paused
    /\ m \in members \ exited
    /\ paid = {}
    /\ exitRequest[m] = -1
    /\ exitRequest' = [exitRequest EXCEPT ![m] = round]
    /\ UNCHANGED <<now, pauseVars, members, order, exited, invited, maxMembers,
                   roundVars, skipVars, defaultVars, configVars, rewardVars,
                   shareVars, fundVars>>

ReceivedBy(m) ==
    LET rounds == {i \in DOMAIN history : history[i].recipient = m}
    IN  SumFunctionOnSet([i \in rounds |-> history[i].amount], rounds)

(* Contributions by the round counter, less payouts, less the penalty. *)
ExitRefund(m) ==
    LET total == Contribution * exitRequest[m]
        net == total - ReceivedBy(m) - (total * ExitPenaltyBps) \div BasisPoints
    IN  IF net > 0 THEN net ELSE 0

(* Approval may come in the middle of a round, when the member may have     *)
(* paid; it leaves the member's seat and mark of payment where they are.    *)
ApproveExit(m) ==
    /\ ~paused
    /\ exitRequest[m] # -1
    /\ ExitRefund(m) <= balance[Base]
    /\ balance' = [balance EXCEPT ![Base] = @ - ExitRefund(m)]
    /\ refunded' = refunded + ExitRefund(m)
    /\ members' = members \ {m}
    /\ exited' = exited \cup {m}
    /\ exitRequest' = [exitRequest EXCEPT ![m] = -1]
    /\ UNCHANGED <<now, pauseVars, order, invited, maxMembers, roundVars,
                   skipVars, defaultVars, configVars, rewardVars, shareVars,
                   insurance, history, pot>>

RejectExit(m) ==
    /\ ~paused
    /\ exitRequest[m] # -1
    /\ exitRequest' = [exitRequest EXCEPT ![m] = -1]
    /\ UNCHANGED <<now, pauseVars, members, order, exited, invited, maxMembers,
                   roundVars, skipVars, defaultVars, configVars, rewardVars,
                   shareVars, fundVars>>

-----------------------------------------------------------------------------
(* What a passed proposal does; it may be executed at any time *)

AppealKeepingCount(m) ==                    \* mutant: the count is not reset
    /\ ~paused
    /\ suspended' = suspended \ {m}
    /\ UNCHANGED <<now, pauseVars, memberVars, roundVars, skipVars, defaulters,
                   defaultCount, configVars, rewardVars, shareVars,
                   fundVars>>

ExecutePenaltyAppeal(m) ==
    /\ ~paused
    /\ defaultCount' = [defaultCount EXCEPT ![m] = 0]
    /\ suspended' = suspended \ {m}
    /\ UNCHANGED <<now, pauseVars, memberVars, roundVars, skipVars, defaulters,
                   configVars, rewardVars, shareVars, fundVars>>

ExecuteMemberRemoval(m) ==
    /\ ~paused
    /\ Leave(m)

-----------------------------------------------------------------------------
(* Pausing *)

PauseGroup ==
    /\ ~paused
    /\ paused' = TRUE
    /\ pausedAt' = now
    /\ UNCHANGED <<now, memberVars, roundVars, skipVars, defaultVars,
                   configVars, rewardVars, shareVars, fundVars>>

ResumeWithoutExtension ==                   \* mutant: the pause counts as time
    /\ paused
    /\ paused' = FALSE
    /\ pausedAt' = 0
    /\ UNCHANGED <<now, memberVars, roundVars, skipVars, defaultVars,
                   configVars, rewardVars, shareVars, fundVars>>

(* A deadline of zero is taken for none and is not extended. *)
ResumeGroup ==
    /\ paused
    /\ paused' = FALSE
    /\ pausedAt' = 0
    /\ deadline' = IF deadline > 0 THEN deadline + (now - pausedAt) ELSE deadline
    /\ UNCHANGED <<now, memberVars, round, paid, contributed, openTime,
                   skipVars, defaultVars, configVars, rewardVars, shareVars,
                   fundVars>>

-----------------------------------------------------------------------------
(* Settings *)

(* Not held back by a pause, and at once in force. *)
SetMemberTier(m, x) ==
    /\ x # 0
    /\ m \in members
    /\ tier' = [tier EXCEPT ![m] = x]
    /\ UNCHANGED <<now, pauseVars, memberVars, roundVars, skipVars,
                   defaultVars, reinvests, feeBps, approved, rate, limit,
                   rewardVars, shareVars, fundVars>>

SetReinvestPreference(m, yes) ==
    /\ ~paused
    /\ m \in members
    /\ now <= deadline
    /\ reinvests' = IF yes THEN reinvests \cup {m} ELSE reinvests \ {m}
    /\ UNCHANGED <<now, pauseVars, memberVars, roundVars, skipVars,
                   defaultVars, tier, feeBps, approved, rate, limit,
                   rewardVars, shareVars, fundVars>>

UpdateFeeUncapped(f) ==                     \* mutant: no limit on the fee
    /\ ~paused
    /\ feeBps' = f
    /\ UNCHANGED <<now, pauseVars, memberVars, roundVars, skipVars,
                   defaultVars, tier, reinvests, approved, rate, limit,
                   rewardVars, shareVars, fundVars>>

UpdateFee(f) ==
    /\ ~paused
    /\ f <= MaxFeeBps
    /\ feeBps' = f
    /\ UNCHANGED <<now, pauseVars, memberVars, roundVars, skipVars,
                   defaultVars, tier, reinvests, approved, rate, limit,
                   rewardVars, shareVars, fundVars>>

AddApprovedToken(t) ==
    /\ ~paused
    /\ approved' = approved \cup {t}
    /\ UNCHANGED <<now, pauseVars, memberVars, roundVars, skipVars,
                   defaultVars, tier, reinvests, feeBps, rate, limit,
                   rewardVars, shareVars, fundVars>>

(* The base token may go too; what the contract holds of it stays. *)
RemoveApprovedToken(t) ==
    /\ ~paused
    /\ approved' = approved \ {t}
    /\ UNCHANGED <<now, pauseVars, memberVars, roundVars, skipVars,
                   defaultVars, tier, reinvests, feeBps, rate, limit,
                   rewardVars, shareVars, fundVars>>

SetExchangeRate(t, x) ==
    /\ ~paused
    /\ rate' = [rate EXCEPT ![t] = x]
    /\ UNCHANGED <<now, pauseVars, memberVars, roundVars, skipVars,
                   defaultVars, tier, reinvests, feeBps, approved, limit,
                   rewardVars, shareVars, fundVars>>

SetTokenLimit(t, x) ==
    /\ ~paused
    /\ limit' = [limit EXCEPT ![t] = x]
    /\ UNCHANGED <<now, pauseVars, memberVars, roundVars, skipVars,
                   defaultVars, tier, reinvests, feeBps, approved, rate,
                   rewardVars, shareVars, fundVars>>

-----------------------------------------------------------------------------
(* Insurance and rewards *)

(* Premiums in any approved token count one for one in the pool. *)
ContributeToInsurance(m, t, a) ==
    /\ ~paused
    /\ a > 0
    /\ m \in members \ exited
    /\ t \in approved
    /\ insurance + a <= MaxPool
    /\ balance' = [balance EXCEPT ![t] = @ + a]
    /\ insurance' = insurance + a
    /\ UNCHANGED <<now, pauseVars, memberVars, roundVars, skipVars,
                   defaultVars, configVars, rewardVars, shareVars, history,
                   pot, refunded>>

DepositRewards(a) ==
    /\ ~paused
    /\ rewardPool + a <= MaxPool
    /\ balance' = [balance EXCEPT ![Base] = @ + a]
    /\ rewardPool' = rewardPool + a
    /\ UNCHANGED <<now, pauseVars, memberVars, roundVars, skipVars,
                   defaultVars, configVars, dist, weight, claimed, claims, shareVars,
                   insurance, history, pot, refunded>>

(* The parameter weights may be left out: w is then the weights in force. *)
SetRewardDistParams(d, w) ==
    /\ ~paused
    /\ dist' = d
    /\ weight' = w
    /\ UNCHANGED <<now, pauseVars, memberVars, roundVars, skipVars,
                   defaultVars, configVars, rewardPool, claimed, claims,
                   shareVars, fundVars>>

(* How the pool is shared: equally, by participations, or by weights. *)
RewardShare(m) ==
    LET equal == rewardPool \div Cardinality(members)
        part(x, all) == (rewardPool * x) \div all
        weights == SumFunctionOnSet(weight, Address)
    IN  CASE dist = "Equal" -> equal
          [] dist = "Proportional" ->
               IF participations = 0 THEN 0 ELSE part(participation[m], participations)
          [] dist = "Weighted" ->
               IF weights = 0 THEN equal ELSE part(weight[m], weights)

Claimable(m) ==
    IF m \in members /\ rewardPool # 0 THEN RewardShare(m) - claimed[m] ELSE 0

(* A claim leaves the pool figure as it is: it counts what was ever put in. *)
ClaimRewards(m) ==
    /\ ~paused
    /\ Claimable(m) > 0
    /\ Claimable(m) <= balance[Base]
    /\ claimed' = [claimed EXCEPT ![m] = @ + Claimable(m)]
    /\ claims' = claims + Claimable(m)
    /\ balance' = [balance EXCEPT ![Base] = @ - Claimable(m)]
    /\ UNCHANGED <<now, pauseVars, memberVars, roundVars, skipVars,
                   defaultVars, configVars, rewardPool, dist, weight, shareVars,
                   insurance, history, pot, refunded>>

-----------------------------------------------------------------------------
(* The ledger: its clock, and entries of temporary storage that expire *)

Tick ==
    /\ now < MaxTime
    /\ now' = now + 1
    /\ openTime' = IF paused THEN openTime ELSE openTime + 1
    /\ UNCHANGED <<pauseVars, memberVars, round, deadline, paid, contributed,
                   skipVars, defaultVars, configVars, rewardVars, shareVars,
                   fundVars>>

ExitRequestsLapse ==
    /\ exitRequest' = [m \in Address |-> -1]
    /\ UNCHANGED <<now, pauseVars, members, order, exited, invited, maxMembers,
                   roundVars, skipVars, defaultVars, configVars, rewardVars,
                   shareVars, fundVars>>

InvitesLapse ==
    /\ invited' = {}
    /\ UNCHANGED <<now, pauseVars, members, order, exited, exitRequest,
                   maxMembers, roundVars, skipVars, defaultVars, configVars,
                   rewardVars, shareVars, fundVars>>

-----------------------------------------------------------------------------

(* Only the base token is approved, at no rate and without a limit. *)
Init ==
    /\ now = 0
    /\ paused = FALSE /\ pausedAt = 0
    /\ Cardinality(Founders) <= FirstCap
    /\ members = Founders /\ order = FirstOrder
    /\ exited = {} /\ invited = {} /\ maxMembers = FirstCap
    /\ exitRequest = [m \in Address |-> -1]
    /\ round = 0 /\ deadline = RoundDuration /\ openTime = 0
    /\ paid = {} /\ contributed = [m \in Address |-> 0]
    /\ skips = {}
    /\ skipCount = [m \in Address |-> [c \in Rounds |-> 0]]
    /\ defaulters = {} /\ suspended = {}
    /\ defaultCount = [m \in Address |-> 0]
    /\ tier = [m \in Address |-> BasisPoints]
    /\ reinvests = {}
    /\ feeBps = FirstFee
    /\ approved = {Base}
    /\ rate = [t \in Token |-> 0]
    /\ limit = [t \in Token |-> Unlimited]
    /\ rewardPool = 0 /\ claims = 0
    /\ dist = "Equal" /\ weight = [m \in Address |-> 0]
    /\ claimed = [m \in Address |-> 0]
    /\ participation = [m \in Address |-> 0] /\ participations = 0
    /\ insurance = 0 /\ history = <<>> /\ refunded = 0
    /\ balance = [t \in Token |-> 0]
    /\ pot = [t \in Token |-> 0]

RoundStep ==
    \/ \E c \in Address, t \in Token, a \in Amount : Contribute(c, t, a)
    \/ \E m \in Skippers, r \in Rounds : RequestSkip(m, r)
    \/ CloseRound
    \/ FinalizeRound
    \/ \E m \in Address : PenaliseDefaulter(m)

JoinOrLeaveStep ==
    \/ \E m \in Joiners : AddMember(m) \/ GenerateInvite(m)
    \/ \E m \in Address : JoinWithInvite(m) \/ ApproveExit(m) \/ RejectExit(m)
    \/ \E m \in Leavers : RequestEmergencyExit(m)
    \/ \E m \in Fallen : RemoveMember(m)
    \/ \E n \in Cap : UpdateMaxMembers(n)

(* Which proposals pass, and when, is decided in AhjoorRoscaGovernance. *)
ProposalStep ==
    \/ \E m \in Fallen : ExecuteMemberRemoval(m)
    \/ \E m \in Address : ExecutePenaltyAppeal(m)

MembershipStep == JoinOrLeaveStep \/ ProposalStep

SettingsStep ==
    \/ (now \in Outages /\ PauseGroup) \/ ResumeGroup
    \/ \E m \in Address, x \in Tier : SetMemberTier(m, x)
    \/ \E m \in Investors, yes \in BOOLEAN : SetReinvestPreference(m, yes)
    \/ \E f \in FeeRate : UpdateFee(f)
    \/ \E t \in Listed : AddApprovedToken(t) \/ RemoveApprovedToken(t)
    \/ \E t \in Listed, x \in Rate : SetExchangeRate(t, x)
    \/ \E t \in Listed, x \in Limit : SetTokenLimit(t, x)
    \/ \E d \in Sharing, w \in Weighting \cup {weight} : SetRewardDistParams(d, w)

MoneyStep ==
    \/ \E m \in Address, t \in Token, a \in Premium : ContributeToInsurance(m, t, a)
    \/ \E a \in Reward : DepositRewards(a)
    \/ \E m \in Address : ClaimRewards(m)

Next ==
    \/ RoundStep \/ MembershipStep \/ SettingsStep \/ MoneyStep
    \/ Tick \/ ExitRequestsLapse \/ InvitesLapse

Spec == Init /\ [][Next]_vars

-----------------------------------------------------------------------------
(* What holds *)

(* Every variable keeps its type; in particular no call overdraws a token   *)
(* the contract holds.                                                      *)
TypeOK ==
    /\ now \in Nat /\ paused \in BOOLEAN /\ pausedAt \in Nat
    /\ members \subseteq Address /\ exited \subseteq Address /\ invited \subseteq Address
    /\ order \in Seq(Address)
    /\ exitRequest \in [Address -> Int]
    /\ maxMembers \in 1 .. 100
    /\ round \in Rounds /\ deadline \in Nat /\ openTime \in Nat
    /\ paid \subseteq Address /\ contributed \in [Address -> Nat]
    /\ skips \subseteq Address \X Rounds
    /\ skipCount \in [Address -> [Rounds -> Nat]]
    /\ defaulters \subseteq Address /\ suspended \subseteq Address
    /\ defaultCount \in [Address -> Nat]
    /\ tier \in [Address -> Nat] /\ reinvests \subseteq Address
    /\ feeBps \in 0 .. MaxFeeBps
    /\ approved \subseteq Token /\ rate \in [Token -> Int]
    /\ DOMAIN limit = Token
    /\ rewardPool \in Nat /\ claims \in Nat /\ claimed \in [Address -> Nat]
    /\ dist \in Distribution /\ weight \in [Address -> Nat]
    /\ participation \in [Address -> Nat] /\ participations \in Nat
    /\ insurance \in Nat /\ refunded \in Nat
    /\ history \in Seq([recipient : Address, amount : Int])
    /\ balance \in [Token -> Nat] /\ pot \in [Token -> Nat]

(* A member is suspended exactly when the default count says so, whichever  *)
(* of finalize_round, penalise_defaulter and a penalty appeal came last.    *)
SuspensionAgrees ==
    \A m \in Address : m \in suspended <=> defaultCount[m] >= MaxDefaults

(* Joining, leaving, exiting and removal keep the payout order in step with *)
(* the member list: only an exited member may keep a seat, and everybody    *)
(* who is a member has one if the founders had.                             *)
Seats == {order[i] : i \in DOMAIN order}
SeatsMatchMembers ==
    /\ Seats \subseteq members \cup exited
    /\ Founders \subseteq {FirstOrder[i] : i \in DOMAIN FirstOrder} => members \subseteq Seats

(* Whoever complete_round_payout pays is a member who is not suspended, has *)
(* not left and has not asked to skip the round, though seats of members    *)
(* who left stay in the payout order.                                       *)
PayeeInGoodStanding ==
    [][history' # history =>
         LET r == history'[Len(history')].recipient
         IN  r \in members \ (suspended \cup exited) /\ <<r, round>> \notin skips]_vars

(* The time at which the round's clock stands. *)
Stopped == IF paused THEN pausedAt ELSE now

(* Pauses do not cost the members time: a round is open for the same        *)
(* unpaused time whenever and however often the group is paused.            *)
WindowKept == RoundDuration > 0 => deadline + openTime = Stopped + RoundDuration

(* A member is marked as paid if there is something of his in the round and *)
(* it is what the round asks of him.                                         *)
MarkedRight(m) == m \in paid <=> contributed[m] > 0 /\ contributed[m] >= Required(m)

(* Every round begins with everybody marked right, the recipient whose pot  *)
(* was carried over included, so that the round can close and nobody is     *)
(* taken for a defaulter who has paid; and within a round contributions,    *)
(* exits, skips, removals and tiers given to others leave a right mark      *)
(* right: only a change of the member's own tier can put it wrong.          *)
(* (The doc of set_member_tier has a tier take effect in the next round; the *)
(* code reads it whenever it is needed, so it changes the running one.)      *)
MarksHold ==
    [][\A m \in Address :
         round' # round \/ (MarkedRight(m) /\ tier'[m] = tier[m]) => MarkedRight(m)']_vars

(* Rewards claimed beyond the pool, and those in it that nobody has claimed. *)
(* A share is computed from the members, participations and weights of the   *)
(* moment, less what the member has had himself: as these change, claims may *)
(* come to more than was deposited.                                          *)
Overclaimed == IF claims > rewardPool THEN claims - rewardPool ELSE 0
Unclaimed == IF rewardPool > claims THEN rewardPool - claims ELSE 0

(* What was paid in for the running round is still held, beside the rewards *)
(* nobody has claimed.  Two things take from it, and no more than this:     *)
(* exit refunds, and claims beyond the reward pool, which come out of the   *)
(* contributions of the round.                                              *)
PotHeld ==
    /\ balance[Base] + refunded + Overclaimed >= Unclaimed + pot[Base]
    /\ \A t \in Token \ {Base} : balance[t] >= pot[t]

(* Nothing moves and nobody comes or goes while the group is paused.        *)
PauseFreezesGroup ==
    [][paused /\ paused' =>
         UNCHANGED <<members, order, exited, paid, contributed, round, deadline, balance,
                     defaultVars, insurance, rewardVars>>]_vars

=============================================================================
