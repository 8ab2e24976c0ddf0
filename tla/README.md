# A TLA+ model of the Ahjoor contracts

The repository holds four Soroban (Stellar) contracts: an escrow
(`contracts/ahjoor-escrow`), a rotating savings group or ROSCA
(`contracts/ahjoor-rosca`), merchant payments (`contracts/ahjoor-payments`) and
refunds (`contracts/ahjoor-refund`). This directory models them as state
machines, checks the models with TLC and proves theorems about them with TLAPS.
All four contracts are modelled, with what is left out named in section 6.
`PROJECT.json` lists components, runs, the source lines behind every definition,
hazards and theorems.

## 1. Inventory

All four contracts run on a ledger that executes one call at a time. A call that
panics leaves no trace. So there are no data races, lost messages or half-done
calls: what makes these contracts hard is the **order of calls by people who do
not trust each other**, deadlines and pauses against the ledger clock, facts kept
in two places by different calls, and **money of several owners in one balance**.
Every operation is guarded by `require_auth`; a model quantifies over the
addresses that may have signed.

| Component | State it keeps | Operations | What makes it correct |
|---|---|---|---|
| Escrow | escrows with status, deadline, seller shares; disputes, deadline proposals, evidence, renewal allowances; admin, pause, fee, token list | create (also in batches), release, partial release, dispute, resolve, refund after the deadline, inactivity claim, extend, hand over the buyer role, renew | an escrow pays out exactly what it took in, once; a settled escrow is final; the balance covers every unsettled escrow; a pause stops all money; every escrow can be ended |
| Escrow desk | templates, arbiter pool with a round-robin index, escalation time-outs | create and use templates, add, remove and assign arbiters, check escalation | arbiters are assigned in turn; an escrow from a template is one `create_escrow` would open |
| ROSCA rounds | members, payout order, round, deadline, contributions, skips, defaults, suspensions, exits, insurance and reward pools, tiers, settings | contribute, skip, close and finalize a round, penalise, add, invite, remove, exit, pause and resume, claim rewards | each round pays one member in good standing; the order follows the members; suspension follows the defaults; the pot is there when it is due; a pause costs no time |
| ROSCA governance | proposals, votes, delegations, quorum, savings goals | propose, vote, delegate, execute, set goals and record progress | no voice counts twice; standing and membership change by votes only; a passed proposal is executed once |
| ROSCA administration | co-admins, pending admin actions, proposed admin | approve admin actions, hand over the role | a pending action is executed once and by enough approvals |
| Payments | payments with status and split, schedules, subscriptions, merchants, volume buckets, rate limits, disputes | create (also in batches, scheduled, in several tokens), complete, expire, settle, refund in part, dispute, resolve, charge a subscription | a payment pays out what it took in, once; a closed payment stays; limits, keys, tiers and charges keep to their windows |
| Refunds | refund requests with status, appeals, delegates, whitelist, pending queue, statistics | request, approve, reject, process, cancel, automatic approval and rejection, extend, appeal, resolve the appeal | refunds of a payment stay within it; a refund is paid once; a final rejection is final |
| Lifecycle | version, migration flag | upgrade, migrate | a migration runs once per version |

**How they interact.** Every contract calls token contracts. The refund contract
also reads payments from the payment contract (`get_payment`); it changes nothing
there, and the payment contract knows nothing of it. Escrows and refunds refer to
each other by numbers that no contract looks up.
Inside a contract the operations share storage: the escrow's dispute, status and
proposal records; the ROSCA's one token balance for pot, premiums, rewards,
penalties and skip fees; the member list, the payout order, the list of exited
members and the list of suspended ones. Governance acts on the ROSCA's rounds
through three effects (`internals.rs`: clear a default count, remove a member,
change the member limit).

**Hard behaviours**, with their places, are the `hazards` of `PROJECT.json`. Those
that shaped the models: shares that do not divide evenly; a chain of partial
releases, partial disputes and a fee that rewrite the same amount; renewal
inside a release; proposals that outlive the person who made them; a round that
is completed by the last contribution, by the admin, or closed without a payout;
a pot that is carried over into the next round; members who leave in the middle
of a round; pauses before and after a deadline; votes whose weights and voters
change between casting and counting; a list that names a payment twice; windows,
buckets and keys that run out between two calls.

## 2. Modules

| Module | Role | Code |
|---|---|---|
| `Custody` | abstract: what a contract that holds deposits promises | none, a specification |
| `AhjoorEscrow` | the escrow contract | `ahjoor-escrow/src/lib.rs` |
| `AhjoorEscrowDesk` | templates and arbiter pool; extends the escrow contract | `ahjoor-escrow/src/lib.rs` |
| `AhjoorRosca` | rounds, members and money of the ROSCA | `ahjoor-rosca/src/lib.rs`, `internals.rs`, `types.rs` |
| `AhjoorRoscaGovernance` | proposals, votes and delegation; extends the ROSCA | `ahjoor-rosca/src/lib.rs`, `internals.rs`, `types.rs` |
| `AhjoorRefund` | the refund contract | `ahjoor-refund/src/lib.rs` |
| `AhjoorPayments` | the payment contract | `ahjoor-payments/src/lib.rs` |
| `MCAhjoorEscrow`, `MCAhjoorEscrowDesk`, `MCAhjoorRosca`, `MCAhjoorRoscaGovernance`, `MCAhjoorRefund`, `MCAhjoorPayments` | people, terms and fairness for TLC | |
| `Sums` | sums over finite sets, for every proof module | |
| `AhjoorEscrowProofs` | types, conservation, finality, pause, implementation of `Custody` | |
| `AhjoorEscrowRecordsProofs` | dispute records, renewal plans, splits of a settlement, solvency | |
| `AhjoorEscrowDeskProofs` | deadlines, turns, the books of the escrow contract and `Custody` with the desk | |
| `AhjoorRoscaProofs` | types, round clock, suspension, pause, pot, seats, recipients, marks of payment | |
| `AhjoorRoscaGovernanceProofs` | implementation of `AhjoorRosca`, standing by vote, voices | |
| `AhjoorRefundProofs` | types, pending queue, statistics, refunded amounts, money, finality, pause | |
| `AhjoorPaymentsProofs` | types, finality, pause, pace of subscriptions, idempotency keys, money, volume, statistics, rate limits, balances, missed schedules | |

**Custody.** Deposits are opened, paid out in parts and closed. `Close` demands
that everything deposited has been paid; nothing happens to a closed deposit.
`AhjoorEscrow` implements it: `deposited` is what an escrow took in, `paid` the
sum of what left on its account, `closed` a terminal status. A release that
renews is one step of two deposits, one closing and one opening, which is why a
step of `Custody` is a step of every deposit.

**AhjoorEscrow.** Variables are the contract's storage keys (each declaration
names its `DataKey`), the contract's balance of each token and the allowance
buyers granted (both kept by token contracts, external), and three history
variables: what was taken in for an escrow, who was paid out of it, and how many
renewals lie behind it. Each public
function is the action of the same name. `create_escrow_w_timeout` is `CreateEscrow`
with a dispute time-out that only `check_escalation` reads. `release_escrow`
is `ReleaseEscrow`, whose two disjuncts are the two outcomes of `try_auto_renew`.
`auto_release_expired` loads the buyer of the escrow and demands its signature, so
its action has no caller.

**AhjoorEscrowDesk.** The other two ways into an escrow. Templates are written,
rewritten and deactivated by their author and used by any buyer; the pool holds
arbiters and the position of the next one. Both open an escrow through
`OpenEscrow`, the part of `create_escrow` after its checks, so a desk's escrow is
disputed, extended, renewed and settled by the actions of `AhjoorEscrow`, whose
whole `Next` is a disjunct of `DeskNext`. `turns` is history: how often each
arbiter was assigned since the pool last changed.

**AhjoorRosca.** Variables again follow the storage keys. `CompleteRound` is
`complete_round_payout` with the `reset_round_state` it ends in; it is part of
`Contribute` (last contribution) and of `FinalizeRound`, never a step of its own.
It takes balances and participations as the caller has already changed them.
`AddMember` and `JoinWithInvite` share `Join`; `RemoveMember` and
`ExecuteMemberRemoval` share `Leave`. The effects of passed proposals may happen at
any time: that over-approximates governance, so what holds here holds with it.

**AhjoorRoscaGovernance.** The same group with the votes that pass proposals.
Every call of `AhjoorRosca` is a step (`GroupStep`) except the three effects,
which happen only inside `ExecuteProposal` of a passed proposal. A vote adds the
weights of the voter and of those who delegated to him and have no vote yet
(`Behind`); the quorum is that of the moment of execution. `voice` is history: the
weight each account's voice was counted with. `KeepsGroup` says that the composed
system implements `AhjoorRosca`: that is the refinement which carries the
ROSCA's properties over to it.

**AhjoorRefund.** Variables follow the storage keys once more; what the payment
contract answers is the constant `Terms` and the variable `completed` (a completed
payment stays so, which `ClosedStays` of `AhjoorPayments` confirms). The history is what was placed in the contract for a refund, what
left on its account, and whether it was ever appealed. One action per call, with
three pairs that share one: `Cancel` under `cancel_refund_request` and
`auto_cancel_expired_request`, `ChangeAutoApprove` for the two whitelist calls and
`SetPaused` for the two of the pause. `ProcessInternal` is `process_refund_internal`
for one refund or a batch. The statistics per merchant are written by the same
helpers as the global ones and are left out, like the indexes only views read.
`register_escrow_refund` asks that the refund contract's own address be that of the
escrow contract, so nobody gets through and it has no action.

**AhjoorPayments.** One action per call. `CompleteInternal` is
`complete_payment_internal`, shared by the admin's completion and by anybody's
execution of a scheduled payment: the fee from tier and rolling volume, the split
with its remainder, the volume bucket, the receipt and the statistics belong to one
step. `GiveBack` is the transfer of the whole amount in which cancellation, expiry
and a decision for the customer end. A settlement takes a list; `Selection` holds
lists that name one payment, two, or one twice. `KeyLapses` is the end of the
temporary entry of an idempotency key. History: what was taken in for a payment
and in which token, what left on its account, whether a settlement named it twice,
the key it was made under, the first charge of a subscription.

**Mutation operators.** Operators marked "mutant" (`OutflowWithoutDust`,
`RefundWhilePaused`, `CloseRoundWhilePaused` and so on) are not used by the
specifications. Each is a plausible slip in one definition; `PROJECT.json` pairs
each with the property that fails when it takes the place of the original, so no
property passes merely because nothing in the model can break it.

### Abstractions

* One call is one action; its panics are conjuncts of its guard. The models do
  not say what a failed call reports.
* Token contracts are honest: a transfer moves the amount or fails. A depositor
  or member can always pay what he offers.
* Text, hashes, events, storage rent and archival are left out. Entries of
  temporary storage that may expire during a round are the exception
  (`ExitRequestsLapse`, `InvitesLapse`, `DelegationsLapse`, `KeyLapses`, and
  `AllowanceLapses` for a token allowance), because a later call behaves
  differently without them.
* Amounts are unbounded integers. The code uses `i128` with overflow checks on in
  its release profile, so an overflow is a panic, that is, no step.
* The source as it stands has slips a compiler reports: `complete_round_payout`
  names its parameter `_paid_members` and reads `paid_members`. The model takes the
  parameter for what is read. `merchant_refund` builds its record without
  `reason_code` and `rejected_at`; the model takes the record to have none.
* A batch of up to ten escrows, or of up to twenty payments, is a batch of two.
  Seller lists keep their limit of five.
* ROSCA: the member list is a set, so a group given a duplicated founder is not a
  state of the model; the insurance share of a contribution has no setter in the
  code and is zero. Its deadlines, whether made from `round_duration` or from
  `round_duration_seconds`, and its pauses are all compared with the ledger
  timestamp, which is the model's clock.
* Governance: `execution_data` stays below 2^32, so reading it as `u32` is exact;
  the list of those who voted on a proposal is a set.
* Desk: removing an arbiter filters the pool, which is removing one place because
  nobody is in the pool twice (`TakeTurns` says so and `PoolTakesTurns` proves it).
* Payments: schedules, expiries and intervals are ledger timestamps; volume buckets,
  rate windows and the life of an idempotency key are counted in ledgers. The model's
  clock is both. The oracle's answer is a
  price or none (an old price counts as none); `set_oracle` may name another
  quote token later, and payments keep the one they were recorded in. The dispute record, which only a
  view reads, is kept without its reason. A receipt is the time of completion. The
  fee tier last used for a merchant, the volume per token and the indexes by
  reference and customer are written for views and left out.

## 3. Runs

| Run | Instance and bounds | Shows |
|---|---|---|
| `EscrowSettlement` | two escrows, alone or in a batch, two tokens, one or two sellers (3333 and 6667 basis points of 50, which leaves a remainder; a list that does not add up is refused), portions 0, 50, 100 of escrows of 100 and 50, fees 200 and 201 | types, conservation, solvency, dispute records, split of a settlement, finality, pause, `Custody` |
| `EscrowDesk` | three escrows; a plan of one renewal; one template rewritten between two configurations, of which one has no duration; two arbiters coming and going | renewal plans are kept, deadlines lie ahead, arbiters take turns |
| `EscrowSettles` | one escrow that wants to renew itself, deadlines one to four ticks ahead that may be moved any number of times (the clock slides, see below), partial release and dispute, hand-over, pauses; approvals of one renewal that lapse or are given up (with room for one escrow a release needs that) | every escrow is settled, under fairness, unless its deadline is moved for ever |
| `RoscaTurns` | two members, two rounds, instalments of 1 and 2 for a contribution of 2, three ticks, pauses at times 0 and 1, suspension after 2 defaults, penalty, reinvestment, a tier of half set at any time | suspension, round clock, marks of payment, pause |
| `RoscaMembers` | two founders and a joiner, two rounds, suspension after one default, a skip, exits, removal, member limit | types, seats, payee in good standing |
| `RoscaMoney` | two tokens with rate and limit, tier, premium, rewards shared by weight, claims, fee, exit, reinvestment | the running pot and unclaimed rewards are held, up to exit refunds and claims beyond the pool |
| `RoscaVotes` | three founders, one round, one proposal of any of the four kinds, equal and weighted votes, a quorum of its own for appeals, delegation by the member who may be removed, suspension after one default | voices count once, standing and membership follow votes, the group is implemented |
| `RefundLedger` | two refunds of two payments (100 and 50) of one merchant, requests of 60, windows of 1 and 2, three points of time, cooldown, tiers that halve and end the right to a refund, an unsorted and an excessive table, fees of 200, 0 and one above the cap | types, queue, statistics, refunded amounts, payment once, money held, finality, pause |
| `PaymentsLedger` | two payments of 100 (or 50 in another token at two for one), split 3333 to 6667 or not at all, for now or for later, expiry after 2 or 1, refunds of 50, settlements of one, two, or one twice, tiers reached by the second payment, a fee above the cap, a pause, a quote token that changes | types, money, statistics, finality, pause |
| `PaymentsSettleDoc` | the same | a comment is wrong (below) |
| `PaymentsTerms` | three payments and one subscription of one customer over five points of time, three plans (one of which has no interval and is refused), buckets of one, limits of one in two and in three, one key kept for three | volume, rate, keys, pace of charges |
| `RefundFinalDoc` | as `RefundLedger`, without tiers and changes of the fee | the doc of a final rejection is wrong (below) |

The instances are small because the interesting cases are: one other escrow is
enough for money to be taken from, two sellers for a remainder, two rounds for a
pot carried over and a seat reused, a threshold of two for a default that does not
suspend and one that does. Two rounds of two members are a whole cycle. Three
members are enough for a delegate, a delegator and somebody who outvotes them, and
three escrows for a pool of two to come round. Two payments suffice for one to be paid with the other's
money, and for a tier only the second reaches; three payments, and a clock that
starts in the fourth bucket, for a window that has passed. `PaymentsTerms` begins at 3
so that the rolling volume has four buckets; what it is before is described below.
Keys are looked up without their owner, so one customer reaches every case of a key
but that of another's; two customers with keys, rates and a subscription are beyond what TLC
enumerates in minutes, and the theorem `KeysMakeOne` is about any number of them.
What depends on more, such as an arbitrary number of escrows, is what the theorems are
for.

These constants only say who tries a call, with what, or when, in a run: `Buyers`,
`Heirs`, `Authors`, `Pooled`, `Sellers`, `Named`, `Sharing`, `Listed`, `Skippers`,
`Leavers`, `Investors`, `Fallen`, `Creators`, `Delegators`, `QuorumFor`,
`Weighing`, `Outages`, `Customers`, `Merchants`, `Deputies`, `Mode`, `Vetted`. These cap counters:
`MaxEscrows`, `MaxTemplates`, `MaxTime`, `MaxEvidence`, `MaxRound`, `MaxHeld`, `MaxPool`, `MaxProposals`,
`MaxRefunds`, `MaxExtension`, `MaxPayments`, `MaxSubscriptions`.
Deadlock is not checked: with the clock at
its bound and everything settled there may be nothing left to do.

**Fairness** (`Persistence` in `MCAhjoorEscrow`). The contracts do nothing by
themselves, so nothing is fair but the clock and three people: the buyer asks for
the refund of an expired escrow, the arbiter decides a dispute, the admin ends a
pause. The first two are strong, because pauses and disputes switch these calls on
and off: the assumption is that a person who may act again and again does so in
the end. Under it `EveryEscrowSettles`: no combination of partial releases,
extensions, hand-overs and pauses closes both ways out. The code caps neither how
far nor how often a deadline is moved, and an escrow whose deadline is moved for ever
may stay open for ever: the property excepts exactly that (`Extended` infinitely
often), and nothing less, since any finite number of extensions is over at some
time. A clock with a last tick would cut such behaviours off, since the time left
bounds the extensions. So in this run the clock slides: at its bound `Elapse` moves every
time on record one tick into the past instead of `now` one forth. All
comparisons of the code are between such times, or with windows no longer than the bound,
so time goes on for ever in finitely many states. Without the arbiter's
fairness it is false, by design of the contract: a disputed escrow has no time-out
(`check_escalation` only publishes an event). The other contracts get no
liveness property: what ends a round or a proposal depends on an admin or a
member whom nothing binds, and a payment may be stuck for good (below).

### Where code and documentation part

Two runs state what a comment or a doc says, and TLC refutes it:

| Run | Statement | What happens |
|---|---|---|
| `RefundFinalDoc` | "final rejection, funds returned to customer, no further appeal" (refund `lib.rs:1415`) | the refund is again `Rejected` with a fresh time, so it is appealed and paid again |
| `PaymentsSettleDoc` | "Settlement marker to prevent double merchant settlement" (payments `lib.rs:260`) | all entries of the list are checked before one is marked, so a payment named twice is paid twice |

Others are visible in the models but not stated as runs.

*Escrow.* A deadline proposal "requires counterparty acceptance" (`lib.rs:1054`), but only
the address that proposed is refused (`lib.rs:1135`) and a proposal survives the hand-over of
the buyer role: a buyer proposes, hands over, and the new buyer accepts without the seller.
After a dispute about a part the status is `PartiallyDisputed`, and the
extension calls refuse only `Disputed` (`lib.rs:1074`). The seller's inactivity claim is documented for a window
"without any buyer action" (`lib.rs:1835`), but partial release, extension,
hand-over and renewal calls do not count as action. The token of a template is not
checked again when the template is used. `remove_arbiter` flags only those open
escrows the admin names, and no call reads the flag.

*ROSCA.* "Tier changes take effect in the next round" (`lib.rs:413`), but the tier is read
whenever it is needed (`set_member_tier` writes it at once, `lib.rs:414`), so a tier set
within a round changes what that round asks: a member who has paid a part may then owe less
than he paid, be unable to pay more and yet not count as paid. `MarksHold` excepts exactly the
step that changes the member's own tier. A test says of a payout "Pot should be exactly 200 (100 * 2), NOT including rewards"
(`test.rs:1777`); a claim leaves the reward figure as it is and the whole figure is taken off
the next payout (`internals.rs:164`), so what was claimed before is missing from it.
Suspension is documented for "consecutive missed rounds" (`types.rs:194`),
but paying a round does not reset the count, as `FEATURE_IMPLEMENTATION.md:320`
says. Insurance premiums go out with the next payout while the pool figure, "pool
balance for defaulter coverage" (`types.rs:200`), stays (`internals.rs:159`). A
reward share is computed from the members, participations and weights of the
moment, less what the member has had himself (`lib.rs:1500`): as these change, claims may come to more
than was deposited, and the rest comes out of the contributions of the running
round. `PotHeld` says so (`Overclaimed`). `errors.rs:54` says a delegate cannot delegate
further, but only a delegate who has delegated before is refused; chains and
circles formed the other way round silence those in them. A vote cast before a
delegation does not carry it. In equal voting a member who left still
counts through a delegate; the weighted quorum counts the contributions of the
current round only.

*Refunds.* "Refund amount does not exceed the original payment amount" (`lib.rs:274`, and
of the total `test.rs:782`): a request is compared with what was processed by then
(`lib.rs:381`), so two that are open together may pass the payment. A refused appeal is to
"return escrowed funds to customer" (`lib.rs:1493`), but that a rejection, also one for
staleness, has returned them already is recorded nowhere, and `appeal_refund`
(`lib.rs:1374`) accepts it: the same amount is paid again out of what is held for others. The pending queue is documented to list requests (`lib.rs:1534`), but
keeps those `auto_approve_refund` processed, which do not enter the refunded amount
of their payment either: `QueueAgrees` and `RefundedAmountAgrees` say so. Of approvals
and rejections `StatsAgree` gives bounds only: whitelisted merchants, merchant
refunds and granted appeals count no approval, and a refused appeal counts a second
rejection of one refund.

*Payments.* "Refund amount exceeds remaining balance" (`lib.rs:1736`), but partial refunds
count against each other only: completion, expiry (`lib.rs:1674`) and a decision
(`lib.rs:858`) pay the whole amount besides. `PaysWhatItTook` states what leaves in each case:
the partial refunds and, unless they came to the whole, all that was taken in. A scheduled payment
whose expiry has passed can neither run, expire nor be cancelled, and may be
scheduled for after it. A payment in another token skips the approval of the
merchant and is recorded in USDC the contract may not hold. A payment a
decision releases gets no fee, receipt or place in the statistics. Refunding all of
a disputed payment leaves its dispute unresolved. Before the fourth bucket the
rolling volume counts the first one several times, which is why `VolumeIsRecent` speaks of
later times. Charges go on after a merchant is revoked. A key known to one customer
returns his payment to any other.

## 4. Proofs

All theorems hold for every value of the constants that the `ASSUME`s of the
modules allow (`EscrowConstants`, `DeskConstants`, `RoscaConstants`,
`GovernanceConstants`, `RefundConstants`, `PaymentConstants`): any accounts, tokens, terms,
fees, thresholds and durations. Three assumptions are there for the sums and are
true of the platform: the ROSCA's addresses are finitely many (an address has 32
bytes), so are the rate limits of the payments (two fields of 32 bits), and the
clock of the payments does not begin after its bound.

**Sums** (`Sums`). Most of what these contracts promise is a sum or a count: over
escrows, members, voters, refunds, payments. The sum of the community modules is a
recursive function over subsets, and no induction theorem of the library can be
instantiated here. The induction is made by hand: strict inclusion among the
subsets of a finite set is well-founded, so of the subsets that refute a claim one
is smallest, and taking one element from it gives the contradiction. From this come
the equation of the fold (`IteratesExists`, `IteratesUnique`, `SumOf`), and from
that what the other modules cite: a sum with one element more or less, unions,
functions that differ on a part, monotonicity, least and greatest numbers, shares
rounded down (`SharesOfAmount`: they add up to no more than the amount). Over
numbers the same is done with a smallest counterexample (`SmallestNumber`), which
gives what `SelectSeq` keeps of the payout order.

* **Types of the escrow** (`AhjoorEscrowProofs`): `TypeCorrect`. `TypeOK` alone is
  not inductive: that the amount an escrow keeps after a partial release is a
  natural number needs the guard of the call, and that the shares of a release are
  natural numbers that add up to no more than the amount needs that the seller list
  was valid when it was stored (`SellersValid`). `TypeInv` is `TypeOK` with that. One
  lemma per action, then one case per disjunct of `Next`.
* **Money** (the same module). `MoneyInv` is `TypeInv` with `Allocated`
  and `Conservation`. The lemma `Motion` says what a step may do to one escrow:
  nothing to its money, open it, pay a part, or settle it with everything it holds. Each action is shown to be
  such a motion; from it follow `IdsNeverReused`, `MoneyIsConserved`,
  `SettlementIsFinal` and, as motions are the disjuncts of `Custody`'s step,
  `ImplementsCustody`: the initial states map to initial states and every step to
  a step or a stutter. `PauseHoldsFunds` goes through the guards.
* **Records** (`AhjoorEscrowRecordsProofs`). A dispute record moves only together with
  the status, so `DisputesAreRecorded` needs beside itself only that identifiers
  ahead are unused. For `PlansAreKept`, `PlanInv` adds that an unused identifier has
  no generation, and that the escrow before a renewal was released and is as large:
  released escrows never change, so the relation stays. For `SplitsAreFair`,
  `SplitInv` adds that an escrow which is not settled has paid neither its buyer nor
  a fee; with `Conservation` the sellers of a released escrow then have the rest.
  `ContractIsSolvent`: the balance of a token is the sum of the escrows' stakes in
  it. A motion says what one escrow does; here one also needs that the others stay
  and that the balance moves by as much, so every step is reduced to one of five
  flows (`Flows`: nothing, a payment, an opening, two openings, a renewal, which
  closes one escrow and opens another in one step).
* **Desk** (`AhjoorEscrowDeskProofs`). `DeskInv` is `MoneyInv` with what a template
  must be (`TemplatesSound`: its duration is positive once it is written), `PoolInv` and
  `OpenForAWhile`. Deadlines only move forward and creation times never, and a
  renewal takes the window of the escrow before it, which is positive by
  `OpenForAWhile` itself: that is `DeadlinesLieAhead`. `PoolTakesTurns` needs to know
  where the current round of turns began: `PoolInv` says that for some position and some count, those between
  that position and the next one were served once more than the others.
  `DeskImplementsCustody` reuses the motions of the escrow contract. The invariants of
  the escrow contract are not inherited: `DeskNext` has more steps than `Next`. What a
  desk call adds is always an opening of one escrow by `OpenEscrow`, so `BooksInv` (dispute records,
  plans, splits and stakes together) is kept by the lemmas of the two other modules and
  `OpeningBooks`: hence `DeskKeepsTheBooks` and `DeskRespectsSettlementAndPause`.
* **Types of the group** (`AhjoorRoscaProofs`): `GroupTypeCorrect`, by groups of
  variables (`Typed`). It is inductive only with the arithmetic of a payout (the fee
  and the share of a reward are parts of what they are taken from) and with what
  copying the payout order keeps.
* **Round clock**: `PausesCostNoTime`. `WindowKept` needs that
  the deadline is positive when the duration is, since `resume_group` takes a
  deadline of zero for none, and that a pause began no later than now and the time
  a round has been open fits before it (`ClockInv`).
* **Suspension**: `SuspensionFollowsCount`, by `DefaultInv`: counts are natural
  numbers, and every action that moves a count moves the suspension list with it.
* **Pause**: `PauseHoldsGroup`, action by action: while the group stays paused only the
  tier of a member, the member limit and the clock move.
* **Pot**: `PotIsHeld`. What the balance covers at all times is the running pot and
  the whole reward figure less all claims, a number that goes below zero when claims pass the pool
  (`PotCovered`). That is inductive relative to the types, and `PotHeld` is what it
  says for the unclaimed rewards and the claims beyond the pool; the work is in
  the calls that move balance and pot by different amounts (a contribution in a
  foreign token, a payout with fee, insurance and reinvestment, an exit).
  That claims may pass the pool is the code's doing and not a weakness of the
  proof; `EqualSharesSparePot` shows where it comes from: while nobody joins or leaves and the way to
  share stays as it is at first, equal, the shares are one number for all members, the members' claims add up to
  no more than the pool (`SumConstant`, `EqualParts`), and the pot is whole.
* **Seats**: `SeatsFollowMembers`. Leaving copies the payout order without the
  member, and nobody else may lose a seat by it. `PayeesInGoodStanding` rests on
  it: the search for a recipient skips seats whose holder left, exited, is suspended
  or skips, and where it ends sits a member because seats belong to members and
  the exited only.
* **Marks of payment**: `OnlyOwnTierUnmarks` states `MarksHold`: a round begins with every
  mark right (`MarkedRight`: a member is marked exactly if something of his is in the
  round, paid in or carried over, and it is what the round asks of him), and a step that
  leaves the member's own tier alone leaves his mark right, whatever tiers others are
  given. More is not true of the code: lowering a member's multiplier after an
  instalment lowers what is asked of him without marking him.
* **Governance** (`AhjoorRoscaGovernanceProofs`). `GovernanceKeepsGroup` maps every
  ballot step to a stutter and an execution to the effect of its proposal, which
  needs that the targets and limits of stored proposals are those that were
  proposed (`BallotInv`). `GovernedSuspension` and `GovernedGroup` (types, pot,
  seats, marks, length of a round, recipients, pause) follow by refinement.
  `StandingIsVoted` needs in addition that a proposal nobody voted on has no votes,
  hence cannot pass. `VoicesAreCounted`: the counters of a ballot are the sum of the
  voices of those who voted, and who has a voice has voted (`Counted`), so a vote adds the voices of
  a set disjoint from those counted before; a new ballot starts from nothing (`CountInv`).
* **Refunds** (`AhjoorRefundProofs`). Every call does one of five things: it leaves
  records and money alone, records a request, records a refund by the merchant,
  decides one refund without processing it, or processes a set of them, each for
  itself. `RefundInv` is shown for these. It consists of `Unused` (identifiers ahead), of what
  a status tells of the refund's appeal and money (`Tells`, from which `UnappealedPaysOnce`),
  of the queue (`QueueFollowsRecords`: only processed refunds were
  approved by silence, which is why no later call leaves a stale entry), of `Covered`
  and of the statistics and amounts themselves (`StatisticsFollowRecords`,
  `RefundedIsSum`). `Covered` is `OpenRefundsHeld` made
  inductive: it says what the balance covers *also* after an appeal had a refund paid
  twice, namely the sum of what was placed less what left, in which a refund paid twice counts
  negatively (`RefundMoneyIsCovered`); when none is, `OpenRefundsAreHeld` follows. `SettlementStays` follows from the
  moves, `PauseHoldsRefunds` from the guards.
* **Finality of payments** (`AhjoorPaymentsProofs`). A call leaves the payments alone, adds some
  under unused identifiers, touches one that is open, or settles completed ones
  (`Motion`); `PaymentsEndOnce` follows with `PaymentInv` (identifiers ahead are
  unused). `SubscriptionsArePaced` by `PaceInv`: a charge has a positive time,
  without which the code, for which a last charge of zero is none, would charge
  again at once. `KeysMakeOne` by `KeyInv`: the payment last made under a key holds
  it, and every earlier one lost it for age; that no call changes the time a payment
  was made is shown field by field. `PauseHoldsPayments` goes through the guards.
* **Amounts of payments** (the same module). `PaymentTypeCorrect` by `Typed`, which
  adds to `TypeOK` that a payment is stored under every identifier given out and that
  the shares of its split add up. Then every step is one of a few
  (`StepIsOneOf`): it makes one or two payments, moves one (completion, return, partial refund,
  decision, each an operator with all it does to money and records), settles a
  batch, or leaves them alone. On this rest
  `PaymentsPayWhatTheyTook` (`AccountInv`, with the shares, the remainder and the fee of a
  completion adding up: `DistributesAll`; `AccountInv` adds that nothing left for an identifier ahead, that partial refunds of an open payment are less than the whole
  and that what was taken in for a payment still waiting, in its own token, is its amount);
  `VolumeCountsRecent` (`VolumeInv`: every bucket is the sum of what was
  completed in it and is owed, and a receipt is of the past, `TermsInv`);
  `StatisticsFollowPayments` (`StatsInv`: counts, and sums per token over completed
  payments, over those returned as a whole and over partial refunds);
  and `RatesAreLimited`. For the last, `RateOf` says of a customer's
  payments: they are those counted in his window, and earlier ones; and a stretch of
  time that reaches the window meets no more earlier ones than one window
  allows. A window that begins leaves those of the last one behind (`WindowBegins`), one
  that goes on adds to its own (`WindowGoesOn`), so a stretch meets two windows at most.
* **Balances of payments** (the same module). `PaymentBooksBalance`: a token's balance is
  what was taken in in it less what left on the account of payments recorded in it. Calls
  that make payments credit what they take for them (`Credited`), a move debits one account, and
  a settlement debits its whole list, whose total over places is regrouped by the
  payments they name (`BatchTotal`, by `SumByValue`), so that a payment named twice counts
  twice on both sides. With `AccountInv` follows `PlainPaymentsAreFunded`:
  where nothing was refunded in part, named twice or recorded in another token, the balance is the sum of what is not paid out yet,
  and covers each payment that is not.
* **Missed schedules** (the same module). `MissedScheduleIsForever`: a scheduled payment past both its
  time and its expiry (`Stranded`) is out of reach of every call, so its record
  and its money stay. That is the counterpart of a liveness property the contract does not have.

Only model-checked: `EveryEscrowSettles`, since liveness under fairness and
`ENABLED` are out of the prover's reach. Every other property of the passing runs is
stated by a theorem. The statements the two violation runs of section 3 refute are false, hence not proved.

## 5. Plan

1. `Custody`, `AhjoorEscrow`, `AhjoorEscrowDesk` with runs and proofs. *Done.*
2. `AhjoorRosca`, `AhjoorRoscaGovernance` with runs and proofs. *Done.*
3. `AhjoorRefund` with run and proofs. *Done.*
4. `AhjoorPayments` with runs and proofs. *Done.*
5. Sums over finite sets, and with them every invariant the runs check as a theorem. *Done.*
6. Beyond the runs: the books of the escrow contract with its desk, marks of payment while
   tiers change, the balances of the refund and the payment contract without exceptions,
   payments nobody can end. *Done.*
7. Left, should a prover for it come: the liveness of the escrows.

## 6. Not modelled

* *Escalation views of the escrow*, dispute time-out and `check_escalation` of the
  payments: they compute from a dispute's age whether to publish an event. The
  same holds of the fee and dispute view functions.
* *Savings goals and reminders of the ROSCA*: totals and milestones no other call
  reads.
* *Multisig and hand-over of the admin role.* An approved action ends in a call
  `AhjoorRosca` has, made by the contract itself; the call asks for the admin's
  signature again, and approvals and threshold are records nothing else reads. The
  hand-over changes who may sign as admin, over which the models quantify
  (the escrow's `Admins`) or which they leave open.
* *Upgrade and migration* replace the code, after which nothing here need hold.
* *Events and error codes*: no state depends on an event, and an error code is the
  name of a guard.
* *Storage rent and archival* belong to the platform.
