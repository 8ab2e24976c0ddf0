------------------------- MODULE AhjoorRoscaProofs -------------------------
(***************************************************************************)
(* Theorems about AhjoorRosca: its types, the length of a round, who is    *)
(* suspended, what a pause freezes, where the pot lies, whose the seats    *)
(* are, who is paid and who counts as having paid.                         *)
(*                                                                         *)
(* Types come first, variable group by variable group (Typed).  For the    *)
(* other theorems a call is reduced to what it does to the few variables a *)
(* theorem is about, and the invariants are proved from that.              *)
(***************************************************************************)
EXTENDS AhjoorRosca, SequenceTheorems, Sums, TLAPS

(* The payout order *)

(* The copy of the payout order, as far as seat n.                          *)
Copies(kept, s, m, n) ==
    kept = [i \in 0 .. n |->
              IF i = 0 THEN <<>>
              ELSE IF s[i] = m THEN kept[i - 1] ELSE Append(kept[i - 1], s[i])]

LEMMA CopyExists ==
    ASSUME NEW A, NEW s \in Seq(A), NEW m
    PROVE  \E kept : Copies(kept, s, m, Len(s))
<1> DEFINE F == {n \in 0 .. Len(s) : ~ \E kept : Copies(kept, s, m, n)}
<1>1. SUFFICES ASSUME F # {} PROVE FALSE
  <2>1. Len(s) \in Nat
    OBVIOUS
  <2>2. QED
    BY <1>1, <2>1
<1>2. PICK n \in F : \A k \in F : n <= k
  <2>1. F \subseteq Nat
    OBVIOUS
  <2> HIDE DEF F
  <2>2. QED
    BY <1>1, <2>1, SmallestNumber
<1>3. n \in 0 .. Len(s) /\ ~ \E kept : Copies(kept, s, m, n)
  OBVIOUS
<1>4. n # 0
  <2> DEFINE kept == [i \in 0 .. 0 |-> <<>>]
  <2>1. Copies(kept, s, m, 0)
    BY DEF Copies
  <2>2. QED
    BY <1>3, <2>1
<1>5. n - 1 \in 0 .. Len(s) /\ n - 1 \notin F
  BY <1>2, <1>3, <1>4
<1>6. PICK before : Copies(before, s, m, n - 1)
  BY <1>5
<1> HIDE DEF F
<1> DEFINE last == IF s[n] = m THEN before[n - 1] ELSE Append(before[n - 1], s[n])
           kept == [i \in 0 .. n |-> IF i = n THEN last ELSE before[i]]
           next(i) == IF i = 0 THEN <<>>
                      ELSE IF s[i] = m THEN kept[i - 1] ELSE Append(kept[i - 1], s[i])
<1>7. ASSUME NEW i \in 0 .. n
      PROVE  kept[i] = next(i)
  <2>1. CASE i = n
    <3>1. kept[n - 1] = before[n - 1] /\ kept[n] = last
      BY <1>3, <1>4
    <3>2. QED
      BY <1>4, <2>1, <3>1
  <2>2. CASE i # n
    <3>1. i \in 0 .. n - 1 /\ (i # 0 => i - 1 \in 0 .. n - 1)
      BY <1>3, <2>2
    <3>2. before[i] = IF i = 0 THEN <<>>
                      ELSE IF s[i] = m THEN before[i - 1] ELSE Append(before[i - 1], s[i])
      BY <1>6, <3>1 DEF Copies
    <3>3. kept[i] = before[i] /\ (i # 0 => kept[i - 1] = before[i - 1])
      BY <1>3, <2>2, <3>1
    <3> HIDE DEF kept
    <3>4. QED
      BY <3>2, <3>3
  <2>3. QED
    BY <2>1, <2>2
<1>8. kept = [i \in 0 .. n |-> kept[i]]
  OBVIOUS
<1> HIDE DEF kept
<1>9. kept = [i \in 0 .. n |-> next(i)]
  BY <1>7, <1>8
<1>10. Copies(kept, s, m, n)
  BY <1>9 DEF Copies
<1>11. QED
  BY <1>3, <1>10

(* A seat is added at the end.                                              *)
LEMMA OneMoreSeat ==
    ASSUME NEW A, NEW s \in Seq(A), NEW m \in A
    PROVE  Append(s, m) \in Seq(A) /\ Range(Append(s, m)) = Range(s) \cup {m}
<1> DEFINE n == Len(s)
           t == Append(s, m)
<1>1. n \in Nat /\ DOMAIN s = 1 .. n
  OBVIOUS
<1>2. /\ t \in Seq(A) /\ DOMAIN t = 1 .. n + 1
      /\ \A i \in 1 .. n : t[i] = s[i]
      /\ t[n + 1] = m
  BY AppendProperties
<1> HIDE DEF n, t
<1>3. DOMAIN t = DOMAIN s \cup {n + 1}
  BY <1>1, <1>2
<1>4. Range(t) = Range(s) \cup {m}
  BY <1>1, <1>2, <1>3 DEF Range
<1>5. QED
  BY <1>2, <1>4 DEF t

(* Every seat but those of m is copied.                                     *)
LEMMA CopyKeepsOthers ==
    ASSUME NEW A, NEW s \in Seq(A), NEW m, NEW kept, Copies(kept, s, m, Len(s))
    PROVE  /\ kept[Len(s)] \in Seq(A)
           /\ Range(kept[Len(s)]) = Range(s) \ {m}
<1> DEFINE Good(n) == /\ kept[n] \in Seq(A)
                      /\ Range(kept[n]) = {s[j] : j \in 1 .. n} \ {m}
           F == {n \in 0 .. Len(s) : ~ Good(n)}
<1>0. Len(s) \in Nat /\ DOMAIN s = 1 .. Len(s) /\ \A j \in 1 .. Len(s) : s[j] \in A
  OBVIOUS
<1>1. ASSUME F # {} PROVE FALSE
  <2>1. PICK n \in F : \A k \in F : n <= k
    <3>1. F \subseteq Nat
      OBVIOUS
    <3> HIDE DEF F
    <3>2. QED
      BY <1>1, <3>1, SmallestNumber
  <2>2. n \in 0 .. Len(s) /\ ~ Good(n)
    OBVIOUS
  <2>3. kept[n] = IF n = 0 THEN <<>>
                  ELSE IF s[n] = m THEN kept[n - 1] ELSE Append(kept[n - 1], s[n])
    BY <2>2 DEF Copies
  <2>4. n # 0
    <3>1. CASE n = 0
      <4>1. kept[n] = << >>
        BY <2>3, <3>1
      <4>2. Range(kept[n]) = {}
        BY <4>1 DEF Range
      <4>3. {s[j] : j \in 1 .. n} = {}
        BY <3>1
      <4>4. QED
        BY <2>2, <4>1, <4>2, <4>3
    <3>2. QED
      BY <3>1
  <2>5. n - 1 \in 0 .. Len(s) /\ n - 1 \notin F
    <3>1. n \in 0 .. Len(s)
      BY <2>2
    <3> HIDE DEF F
    <3>2. QED
      BY <1>0, <2>1, <2>4, <3>1
  <2>6. Good(n - 1)
    BY <2>5
  <2> HIDE DEF F
  <2>7. {s[j] : j \in 1 .. n} = {s[j] : j \in 1 .. n - 1} \cup {s[n]}
    BY <1>0, <2>2, <2>4
  <2>8. CASE s[n] = m
    <3>1. kept[n] = kept[n - 1]
      BY <2>3, <2>4, <2>8
    <3> DEFINE before == {s[j] : j \in 1 .. n - 1}
               all == {s[j] : j \in 1 .. n}
    <3>2. all \ {m} = before \ {m}
      <4>1. all = before \cup {m}
        BY <2>7, <2>8
      <4> HIDE DEF all, before
      <4>2. QED
        BY <4>1
    <3>3. QED
      BY <2>2, <2>6, <3>1, <3>2
  <2>9. CASE s[n] # m
    <3>1. kept[n] = Append(kept[n - 1], s[n]) /\ s[n] \in A
      BY <1>0, <2>2, <2>3, <2>4, <2>9
    <3>2. kept[n] \in Seq(A) /\ Range(kept[n]) = Range(kept[n - 1]) \cup {s[n]}
      BY <2>6, <3>1, OneMoreSeat
    <3>3. QED
      BY <2>2, <2>6, <2>7, <2>9, <3>2
  <2>10. QED
    BY <2>8, <2>9
<1>2. Good(Len(s))
  <2>1. Len(s) \in 0 .. Len(s)
    BY <1>0
  <2> HIDE DEF Good
  <2>2. QED
    BY <1>1, <2>1
<1>3. {s[j] : j \in 1 .. Len(s)} = Range(s)
  BY <1>0 DEF Range
<1>4. QED
  BY <1>2, <1>3

LEMMA SeatTakenOut ==
    ASSUME order \in Seq(Address), NEW m
    PROVE  /\ WithoutSeat(m) \in Seq(Address)
           /\ {WithoutSeat(m)[i] : i \in DOMAIN WithoutSeat(m)} = Seats \ {m}
<1> DEFINE kept == CHOOSE k : Copies(k, order, m, Len(order))
<1>1. Copies(kept, order, m, Len(order))
  BY CopyExists
<1>2. WithoutSeat(m) = kept[Len(order)]
  BY DEF WithoutSeat, Copies
<1> HIDE DEF kept
<1>3. /\ WithoutSeat(m) \in Seq(Address)
      /\ Range(WithoutSeat(m)) = Range(order) \ {m}
  BY <1>1, <1>2, CopyKeepsOthers
<1>4. QED
  BY <1>3 DEF Range, Seats

-----------------------------------------------------------------------------
(* Types *)

ClockTyped == now \in Nat /\ paused \in BOOLEAN /\ pausedAt \in Nat /\ pausedAt <= now

MembersTyped ==
    /\ members \subseteq Address /\ exited \subseteq Address /\ invited \subseteq Address
    /\ order \in Seq(Address)
    /\ exitRequest \in [Address -> Int]
    /\ maxMembers \in 1 .. 100

RoundTyped ==
    /\ round \in Rounds /\ deadline \in Nat /\ openTime \in Nat
    /\ paid \subseteq Address /\ contributed \in [Address -> Nat]

SkipsTyped ==
    /\ skips \subseteq Address \X Rounds
    /\ skipCount \in [Address -> [Rounds -> Nat]]

DefaultsTyped ==
    /\ defaulters \subseteq Address /\ suspended \subseteq Address
    /\ defaultCount \in [Address -> Nat]

ConfigTyped ==
    /\ tier \in [Address -> Nat] /\ reinvests \subseteq Address
    /\ feeBps \in 0 .. MaxFeeBps
    /\ approved \subseteq Token /\ rate \in [Token -> Int]
    /\ DOMAIN limit = Token

RewardsTyped ==
    /\ rewardPool \in Nat /\ claims \in Nat /\ claimed \in [Address -> Nat]
    /\ dist \in Distribution /\ weight \in [Address -> Nat]

SharesTyped == participation \in [Address -> Nat] /\ participations \in Nat

FundsTyped ==
    /\ insurance \in Nat /\ refunded \in Nat
    /\ history \in Seq([recipient : Address, amount : Int])
    /\ balance \in [Token -> Nat] /\ pot \in [Token -> Nat]

(* TypeOK is inductive once a pause is known not to begin in the future:    *)
(* the time it took is then added to the deadline.                          *)
Typed ==
    /\ ClockTyped /\ MembersTyped /\ RoundTyped /\ SkipsTyped /\ DefaultsTyped
    /\ ConfigTyped /\ RewardsTyped /\ SharesTyped /\ FundsTyped

LEMMA TypedIsTypeOK == Typed => TypeOK
BY DEF Typed, TypeOK, ClockTyped, MembersTyped, RoundTyped, SkipsTyped, DefaultsTyped,
       ConfigTyped, RewardsTyped, SharesTyped, FundsTyped

(* What a call leaves alone keeps its type.                                 *)
LEMMA UnchangedTyped ==
    ASSUME Typed
    PROVE  /\ UNCHANGED <<now, pauseVars>> => ClockTyped'
           /\ UNCHANGED memberVars => MembersTyped'
           /\ UNCHANGED roundVars => RoundTyped'
           /\ UNCHANGED skipVars => SkipsTyped'
           /\ UNCHANGED defaultVars => DefaultsTyped'
           /\ UNCHANGED configVars => ConfigTyped'
           /\ UNCHANGED rewardVars => RewardsTyped'
           /\ UNCHANGED shareVars => SharesTyped'
           /\ UNCHANGED fundVars => FundsTyped'
<1>1. UNCHANGED <<now, pauseVars>> => ClockTyped'
  BY DEF Typed, ClockTyped, pauseVars
<1>2. UNCHANGED memberVars => MembersTyped'
  BY DEF Typed, MembersTyped, memberVars
<1>3. UNCHANGED roundVars => RoundTyped'
  BY DEF Typed, RoundTyped, roundVars
<1>4. UNCHANGED skipVars => SkipsTyped'
  BY DEF Typed, SkipsTyped, skipVars
<1>5. UNCHANGED defaultVars => DefaultsTyped'
  BY DEF Typed, DefaultsTyped, defaultVars
<1>6. UNCHANGED configVars => ConfigTyped'
  BY DEF Typed, ConfigTyped, configVars
<1>7. UNCHANGED rewardVars => RewardsTyped'
  BY DEF Typed, RewardsTyped, rewardVars
<1>8. UNCHANGED shareVars => SharesTyped'
  BY DEF Typed, SharesTyped, shareVars
<1>9. UNCHANGED fundVars => FundsTyped'
  BY DEF Typed, FundsTyped, fundVars
<1>10. QED
  BY <1>1, <1>2, <1>3, <1>4, <1>5, <1>6, <1>7, <1>8, <1>9

(* Accounts are finitely many, and so are the members of any set of them.   *)
LEMMA AccountsFinite == ASSUME NEW S \in SUBSET Address PROVE IsFiniteSet(S)
BY RoscaConstants, FS_Subset

LEMMA RequiredTyped ==
    ASSUME ConfigTyped, NEW m \in Address
    PROVE  Required(m) \in Nat
<1>1. Contribution \in Nat /\ tier[m] \in Nat
  BY RoscaConstants DEF ConfigTyped
<1>2. QED
  BY <1>1, ShareOfAmount DEF Required, BasisPoints

(* A fee is a part of what it is taken from.                                *)
LEMMA FeeWithin ==
    ASSUME ConfigTyped, NEW x \in Nat
    PROVE  FeeOn(x) \in Nat /\ FeeOn(x) <= x
<1>1. feeBps \in Nat /\ feeBps <= 10000
  BY DEF ConfigTyped, MaxFeeBps
<1>2. QED
  BY <1>1, ShareOfAmount DEF FeeOn, BasisPoints

(* A payout leaves the rewards and what the recipient reinvests, if it is   *)
(* made at all, and never takes more than there is.                         *)
LEMMA PayoutWithin ==
    ASSUME ConfigTyped, RewardsTyped, NEW bal \in [Token -> Nat], NEW t \in Token
    PROVE  /\ Leaves(bal, t) \in Nat /\ Leaves(bal, t) <= bal[t]
           /\ Reinvested(bal) \in Nat
           /\ t = Base => \/ bal[t] - Leaves(bal, t) = rewardPool + Reinvested(bal)
                          \/ bal[t] - Leaves(bal, t) = bal[t] /\ Reinvested(bal) = 0
<1>1. Base \in Token /\ rewardPool \in Nat
  BY RoscaConstants DEF RewardsTyped
<1>2. ASSUME NEW u \in Token, PaysOut(bal, u)
      PROVE  /\ PotOf(bal, u) \in Nat /\ PotOf(bal, u) <= bal[u]
             /\ u = Base => PotOf(bal, u) = bal[u] - rewardPool
             /\ FeeOn(PotOf(bal, u)) \in Nat /\ FeeOn(PotOf(bal, u)) <= PotOf(bal, u)
  <2>1. /\ PotOf(bal, u) \in Nat /\ PotOf(bal, u) <= bal[u]
        /\ u = Base => PotOf(bal, u) = bal[u] - rewardPool
    BY <1>1, <1>2 DEF PaysOut, PotOf
  <2>2. QED
    BY <2>1, FeeWithin
<1>3. Leaves(bal, t) \in Nat /\ Leaves(bal, t) <= bal[t]
  <2>1. CASE PaysOut(bal, t)
    BY <1>2, <2>1 DEF Leaves
  <2>2. CASE ~PaysOut(bal, t)
    BY <2>2 DEF Leaves
  <2>3. QED
    BY <2>1, <2>2
<1>4. Reinvested(bal) \in Nat
  <2>1. CASE PaysOut(bal, Base)
    BY <1>1, <1>2, <2>1 DEF Reinvested
  <2>2. CASE ~PaysOut(bal, Base)
    BY <2>2 DEF Reinvested
  <2>3. QED
    BY <2>1, <2>2
<1>5. ASSUME t = Base
      PROVE  \/ bal[t] - Leaves(bal, t) = rewardPool + Reinvested(bal)
             \/ bal[t] - Leaves(bal, t) = bal[t] /\ Reinvested(bal) = 0
  <2>1. CASE PaysOut(bal, Base)
    BY <1>1, <1>2, <1>5, <2>1 DEF Leaves, Reinvested
  <2>2. CASE ~PaysOut(bal, Base)
    BY <1>5, <2>2 DEF Leaves, Reinvested
  <2>3. QED
    BY <2>1, <2>2
<1>6. QED
  BY <1>3, <1>4, <1>5

(* The recipient has a seat and may receive, whatever became of the seats.  *)
LEMMA RecipientHasSeat ==
    ASSUME order \in Seq(Address), round \in Nat, Turns # {}
    PROVE  Recipient \in Seats /\ Recipient \in Address /\ Eligible(Recipient)
<1>1. Turns \subseteq Nat /\ Len(order) \in Nat
  BY DEF Turns
<1> DEFINE i == Min(Turns)
<1>2. i \in Turns
  BY <1>1, MinIsLeast
<1> HIDE DEF i
<1>3. i \in 0 .. Len(order) - 1 /\ Eligible(Seat(i))
  BY <1>2 DEF Turns
<1> DEFINE n == Len(order)
           k == (round + i) % n
<1>4. n \in Nat /\ n > 0 /\ round + i \in Int
  BY <1>1, <1>3
<1>5. k \in 0 .. n - 1
  <2> HIDE DEF n
  <2>1. QED
    BY <1>4
<1>6. k + 1 \in DOMAIN order
  <2> HIDE DEF k
  <2>1. DOMAIN order = 1 .. n /\ n \in Nat
    BY <1>4
  <2>2. QED
    BY <1>5, <2>1
<1>7. Seat(i) = order[k + 1]
  BY DEF Seat
<1> HIDE DEF k, n
<1>8. Seat(i) \in Seats /\ Seat(i) \in Address
  BY <1>6, <1>7 DEF Seats
<1>9. QED
  BY <1>3, <1>8 DEF Recipient, i

(* What a payout does to the types of what it writes.                       *)
LEMMA CompletionTyped ==
    ASSUME Typed, NEW payers \in SUBSET Address, NEW bal \in [Token -> Nat],
           NEW part \in [Address -> Nat], NEW parts \in Nat,
           CompleteRound(payers, bal, part, parts)
    PROVE  RoundTyped' /\ SharesTyped' /\ FundsTyped'
<1> DEFINE r == Recipient
           kept == Reinvested(bal)
           amount == IF Base \in approved THEN PotOf(bal, Base) ELSE 0
<1>1. Base \in Token /\ RoundDuration \in Nat /\ MaxRound \in Nat
  BY RoscaConstants
<1>2. ConfigTyped /\ RewardsTyped /\ round \in Nat
  BY DEF Typed, RoundTyped, Rounds
<1>3. r \in Address
  <2>1. Turns # {} /\ order \in Seq(Address)
    BY DEF CompleteRound, Typed, MembersTyped
  <2>2. QED
    BY <1>2, <2>1, RecipientHasSeat
<1>4. kept \in Nat
  BY <1>1, <1>2, PayoutWithin
<1>5. amount \in Int
  BY <1>1, <1>2 DEF PotOf, RewardsTyped
<1>6. InsuranceLeft(payers, bal) \in Nat
  <2> DEFINE f == [m \in payers |-> Required(m)]
  <2>1. \A m \in payers : f[m] \in Int
    BY <1>2, RequiredTyped
  <2>2. IsFiniteSet(payers)
    BY AccountsFinite
  <2>3. SumFunctionOnSet(f, payers) \in Int
    <3> HIDE DEF f
    <3>1. QED
      BY <2>1, <2>2, SumInt
  <2>4. Shortfall(payers, bal) = SumFunctionOnSet(f, payers) - amount
    BY DEF Shortfall
  <2> HIDE DEF f, amount
  <2>5. Shortfall(payers, bal) \in Int
    BY <1>5, <2>3, <2>4
  <2>6. insurance \in Nat
    BY DEF Typed, FundsTyped
  <2>7. QED
    BY <2>5, <2>6 DEF InsuranceLeft
<1>7. /\ insurance' = InsuranceLeft(payers, bal)
      /\ balance' = [t \in Token |-> bal[t] - Leaves(bal, t)]
      /\ history' = Append(history, [recipient |-> r, amount |-> amount])
      /\ pot' = [t \in Token |-> IF t = Base THEN kept ELSE 0]
      /\ refunded' = refunded
  BY DEF CompleteRound
<1>8. /\ round < MaxRound /\ round' = round + 1
      /\ deadline' = now + RoundDuration
      /\ openTime' = 0
      /\ contributed' = [m \in Address |-> IF m = r THEN kept ELSE 0]
      /\ paid' \in {{}, {r}}
      /\ participation' \in {[part EXCEPT ![r] = @ + 1], part}
      /\ participations' \in {parts + 1, parts}
  BY DEF CompleteRound
<1> HIDE DEF r, kept, amount
<1>9. FundsTyped'
  <2>1. \A t \in Token : bal[t] - Leaves(bal, t) \in Nat
    <3>1. TAKE t \in Token
    <3>2. Leaves(bal, t) \in Nat /\ Leaves(bal, t) <= bal[t]
      BY <1>2, PayoutWithin
    <3>3. bal[t] \in Nat
      OBVIOUS
    <3>4. QED
      BY <3>2, <3>3
  <2>2. balance' \in [Token -> Nat]
    BY <1>7, <2>1
  <2>3. pot' \in [Token -> Nat]
    BY <1>4, <1>7
  <2>4. history' \in Seq([recipient : Address, amount : Int])
    BY <1>3, <1>5, <1>7 DEF Typed, FundsTyped
  <2>5. QED
    BY <1>6, <1>7, <2>2, <2>3, <2>4 DEF Typed, FundsTyped
<1>10. RoundTyped'
  BY <1>1, <1>3, <1>4, <1>8 DEF Typed, ClockTyped, RoundTyped, Rounds
<1>11. SharesTyped'
  BY <1>3, <1>8 DEF SharesTyped
<1>12. QED
  BY <1>9, <1>10, <1>11

LEMMA InitTyped == Init => Typed
<1>1. SUFFICES ASSUME Init PROVE Typed
  OBVIOUS
<1>2. ClockTyped /\ RoundTyped /\ SharesTyped
  <2>1. paused \in BOOLEAN
    BY <1>1 DEF Init
  <2>2. now = 0 /\ pausedAt = 0
    BY <1>1 DEF Init
  <2>3. RoundTyped /\ SharesTyped
    BY <1>1, RoscaConstants DEF Init, RoundTyped, SharesTyped, Rounds
  <2>4. QED
    BY <2>1, <2>2, <2>3 DEF ClockTyped
<1>3. SkipsTyped /\ DefaultsTyped /\ RewardsTyped
  BY <1>1, RoscaConstants
     DEF Init, SkipsTyped, DefaultsTyped, RewardsTyped, Distribution
<1>4. MembersTyped
  <2>1. FirstOrder \in Seq(Address)
    BY RoscaConstants, SeqDef
  <2>2. QED
    BY <1>1, <2>1, RoscaConstants DEF Init, MembersTyped
<1>5. ConfigTyped
  BY <1>1, RoscaConstants DEF Init, ConfigTyped, MaxFeeBps, BasisPoints
<1>6. FundsTyped
  BY <1>1 DEF Init, FundsTyped
<1>7. QED
  BY <1>2, <1>3, <1>4, <1>5, <1>6 DEF Typed

(* What a contribution costs in its token.                                  *)
LEMMA CostTyped ==
    ASSUME Typed, NEW c \in Address, NEW t \in Token, NEW a \in Amount, Contribute(c, t, a)
    PROVE  Cost(t, a) \in Nat
<1>1. a \in Nat /\ a > 0
  BY RoscaConstants DEF Contribute
<1>2. CASE t = Base
  BY <1>1, <1>2 DEF Cost
<1>3. CASE t # Base
  <2>1. rate[t] \in Nat /\ rate[t] > 0
    BY <1>3 DEF Contribute, Typed, ConfigTyped
  <2>2. QED
    BY <1>1, <1>3, <2>1 DEF Cost, RatePrecision
<1>4. QED
  BY <1>2, <1>3

LEMMA ContributionTyped ==
    ASSUME Typed, NEW c \in Address, NEW t \in Token, NEW a \in Amount, Contribute(c, t, a)
    PROVE  Typed'
<1> DEFINE cost == Cost(t, a)
           bal == [balance EXCEPT ![t] = @ + cost]
           part == [participation EXCEPT ![c] = @ + 1]
           payers == paid \cup {c}
           total == contributed[c] + a
<1>1. a \in Nat /\ a > 0
  BY RoscaConstants DEF Contribute
<1>2. cost \in Nat
  BY CostTyped
<1>3. /\ bal \in [Token -> Nat]
      /\ part \in [Address -> Nat]
      /\ payers \in SUBSET Address
      /\ total \in Nat /\ participations + 1 \in Nat
  <2> HIDE DEF cost
  <2>1. QED
    BY <1>1, <1>2 DEF Typed, FundsTyped, SharesTyped, RoundTyped
<1>4. RoundTyped' /\ SharesTyped' /\ FundsTyped'
  <2>1. CASE CompleteRound(payers, bal, part, participations + 1)
    <3> HIDE DEF payers, bal, part
    <3>1. QED
      BY <1>3, <2>1, CompletionTyped
  <2>2. CASE ~CompleteRound(payers, bal, part, participations + 1)
    <3>1. /\ contributed' = [contributed EXCEPT ![c] = total]
          /\ balance' = bal
          /\ pot' = [pot EXCEPT ![t] = @ + cost]
          /\ paid' \in {paid, payers}
          /\ participation' \in {participation, part}
          /\ participations' \in {participations, participations + 1}
          /\ UNCHANGED <<round, deadline, openTime, insurance, history, refunded>>
      BY <2>2 DEF Contribute
    <3> HIDE DEF cost, bal, part, payers, total
    <3>2. RoundTyped'
      BY <1>3, <3>1 DEF Typed, RoundTyped
    <3>3. SharesTyped'
      BY <1>3, <3>1 DEF Typed, SharesTyped
    <3>4. FundsTyped'
      BY <1>2, <1>3, <3>1 DEF Typed, FundsTyped
    <3>5. QED
      BY <3>2, <3>3, <3>4
  <2>3. QED
    BY <2>1, <2>2
<1>5. UNCHANGED <<now, pauseVars, memberVars, skipVars, defaultVars, configVars, rewardVars>>
  BY DEF Contribute, defaultVars
<1>6. QED
  BY <1>4, <1>5, UnchangedTyped DEF Typed

LEMMA SkipTyped ==
    ASSUME Typed, NEW m \in Address, NEW r \in Rounds, RequestSkip(m, r)
    PROVE  Typed'
<1> DEFINE n == Len(order)
           cycle == r \div n
<1>1. cycle \in Rounds
  <2>1. n \in Nat /\ n # 0
    BY DEF RequestSkip, Typed, MembersTyped
  <2> HIDE DEF n
  <2>2. r \in Nat /\ MaxRound \in Nat /\ r <= MaxRound
    BY RoscaConstants DEF Rounds
  <2>3. r \div n \in Nat /\ r \div n <= r
    BY <2>1, <2>2
  <2>4. QED
    BY <2>2, <2>3 DEF Rounds
<1>2. /\ skips' = skips \cup {<<m, r>>}
      /\ skipCount' = [skipCount EXCEPT ![m][cycle] = @ + 1]
      /\ balance' = [balance EXCEPT ![Base] = @ + SkipFee]
      /\ UNCHANGED <<insurance, history, pot, refunded>>
  BY DEF RequestSkip
<1> HIDE DEF cycle
<1>3. SkipsTyped'
  <2>1. skips' \subseteq Address \X Rounds
    BY <1>2 DEF Typed, SkipsTyped
  <2>2. skipCount[m] \in [Rounds -> Nat] /\ skipCount[m][cycle] + 1 \in Nat
    BY <1>1 DEF Typed, SkipsTyped
  <2>3. skipCount' \in [Address -> [Rounds -> Nat]]
    BY <1>1, <1>2, <2>2 DEF Typed, SkipsTyped
  <2>4. QED
    BY <2>1, <2>3 DEF SkipsTyped
<1>4. FundsTyped'
  <2>1. Base \in Token /\ SkipFee \in Nat
    BY RoscaConstants
  <2>2. balance' \in [Token -> Nat]
    BY <1>2, <2>1 DEF Typed, FundsTyped
  <2>3. QED
    BY <1>2, <2>2 DEF Typed, FundsTyped
<1>5. UNCHANGED <<now, pauseVars, memberVars, roundVars, defaultVars, configVars,
                  rewardVars, shareVars>>
  BY DEF RequestSkip
<1>6. QED
  BY <1>3, <1>4, <1>5, UnchangedTyped DEF Typed

LEMMA CloseTyped ==
    ASSUME Typed, CloseRound
    PROVE  Typed'
<1>1. RoundTyped'
  BY RoscaConstants DEF CloseRound, Typed, ClockTyped, RoundTyped, Rounds
<1>2. DefaultsTyped'
  BY DEF CloseRound, Missing, Typed, MembersTyped, DefaultsTyped
<1>3. FundsTyped'
  BY DEF CloseRound, Typed, FundsTyped
<1>4. UNCHANGED <<now, pauseVars, memberVars, skipVars, configVars, rewardVars, shareVars>>
  BY DEF CloseRound
<1>5. QED
  BY <1>1, <1>2, <1>3, <1>4, UnchangedTyped DEF Typed

LEMMA FinalTyped ==
    ASSUME Typed, FinalizeRound
    PROVE  Typed'
<1>1. RoundTyped' /\ SharesTyped' /\ FundsTyped'
  <2>1. CompleteRound(paid, balance, participation, participations)
    BY DEF FinalizeRound
  <2>2. /\ paid \in SUBSET Address /\ balance \in [Token -> Nat]
        /\ participation \in [Address -> Nat] /\ participations \in Nat
    BY DEF Typed, RoundTyped, FundsTyped, SharesTyped
  <2>3. QED
    BY <2>1, <2>2, CompletionTyped
<1>2. DefaultsTyped'
  <2> DEFINE count == [m \in Address |-> defaultCount[m] + (IF m \in Missing THEN 1 ELSE 0)]
  <2>1. Missing \subseteq Address
    BY DEF Missing, Typed, MembersTyped
  <2>2. count \in [Address -> Nat]
    BY DEF Typed, DefaultsTyped
  <2>3. /\ defaulters' = Missing /\ defaultCount' = count
        /\ suspended' = suspended \cup {m \in Missing : count[m] >= MaxDefaults}
    BY DEF FinalizeRound
  <2> HIDE DEF count
  <2>4. QED
    BY <2>1, <2>2, <2>3 DEF Typed, DefaultsTyped
<1>3. UNCHANGED <<now, pauseVars, memberVars, skipVars, configVars, rewardVars>>
  BY DEF FinalizeRound
<1>4. QED
  BY <1>1, <1>2, <1>3, UnchangedTyped DEF Typed

LEMMA RoundStepTyped ==
    ASSUME Typed, RoundStep
    PROVE  Typed'
<1>1. ASSUME NEW m \in Skippers, NEW r \in Rounds, RequestSkip(m, r)
      PROVE  Typed'
  BY <1>1, SkipTyped, RoscaConstants
<1>2. ASSUME NEW m \in Address, PenaliseDefaulter(m)
      PROVE  Typed'
  <2>1. DefaultsTyped'
    BY <1>2 DEF PenaliseDefaulter, Typed, DefaultsTyped
  <2>2. FundsTyped'
    BY <1>2, RoscaConstants DEF PenaliseDefaulter, Typed, FundsTyped
  <2>3. UNCHANGED <<now, pauseVars, memberVars, roundVars, skipVars, configVars,
                    rewardVars, shareVars>>
    BY <1>2 DEF PenaliseDefaulter
  <2>4. QED
    BY <2>1, <2>2, <2>3, UnchangedTyped DEF Typed
<1>3. QED
  BY <1>1, <1>2, ContributionTyped, CloseTyped, FinalTyped DEF RoundStep

(* An exit refund is an amount, whatever the member received before.        *)
LEMMA RefundTyped ==
    ASSUME Typed, NEW m \in Address
    PROVE  ExitRefund(m) \in Nat
<1> DEFINE rounds == {i \in DOMAIN history : history[i].recipient = m}
           f == [i \in rounds |-> history[i].amount]
           total == Contribution * exitRequest[m]
           penalty == (total * ExitPenaltyBps) \div BasisPoints
<1>1. history \in Seq([recipient : Address, amount : Int])
  BY DEF Typed, FundsTyped
<1>2. IsFiniteSet(rounds)
  <2>1. DOMAIN history = 1 .. Len(history) /\ Len(history) \in Nat
    BY <1>1
  <2>2. IsFiniteSet(DOMAIN history)
    BY <2>1, FS_Interval
  <2>3. QED
    BY <2>2, FS_Subset
<1>3. \A i \in rounds : f[i] \in Int
  <2>1. \A i \in 1 .. Len(history) : history[i] \in [recipient : Address, amount : Int]
    BY <1>1, ElementOfSeq
  <2>2. DOMAIN history = 1 .. Len(history)
    BY <1>1
  <2>3. QED
    BY <2>1, <2>2
<1>4. ReceivedBy(m) \in Int
  <2>1. ReceivedBy(m) = SumFunctionOnSet(f, rounds)
    BY DEF ReceivedBy
  <2> HIDE DEF f, rounds
  <2>2. QED
    BY <1>2, <1>3, <2>1, SumInt
<1>5. total \in Int
  BY RoscaConstants DEF Typed, MembersTyped
<1>6. penalty \in Int
  <2> HIDE DEF total
  <2>1. total * ExitPenaltyBps \in Int
    BY <1>5, RoscaConstants
  <2>2. QED
    BY <2>1 DEF BasisPoints
<1>7. ExitRefund(m) = IF total - ReceivedBy(m) - penalty > 0
                      THEN total - ReceivedBy(m) - penalty ELSE 0
  BY DEF ExitRefund
<1> HIDE DEF total, penalty
<1>8. QED
  BY <1>4, <1>5, <1>6, <1>7

LEMMA MembershipTyped ==
    ASSUME Typed, MembershipStep
    PROVE  Typed'
<1>1. ASSUME NEW m \in Address, ApproveExit(m)
      PROVE  Typed'
  <2>1. ExitRefund(m) \in Nat
    BY RefundTyped
  <2>2. FundsTyped'
    <3> DEFINE x == ExitRefund(m)
    <3>1. /\ x <= balance[Base] /\ balance' = [balance EXCEPT ![Base] = @ - x]
          /\ refunded' = refunded + x /\ UNCHANGED <<insurance, history, pot>>
      BY <1>1 DEF ApproveExit
    <3>2. FundsTyped /\ Base \in Token
      BY RoscaConstants DEF Typed
    <3> HIDE DEF x
    <3>3. x \in Nat
      BY <2>1 DEF x
    <3>4. balance' \in [Token -> Nat] /\ refunded' \in Nat
      BY <3>1, <3>2, <3>3 DEF FundsTyped
    <3>5. QED
      BY <3>1, <3>2, <3>4 DEF FundsTyped
  <2>3. MembersTyped'
    BY <1>1 DEF ApproveExit, Typed, MembersTyped
  <2>4. UNCHANGED <<now, pauseVars, roundVars, skipVars, defaultVars, configVars,
                    rewardVars, shareVars>>
    BY <1>1 DEF ApproveExit
  <2>5. QED
    BY <2>2, <2>3, <2>4, UnchangedTyped DEF Typed
<1>2. ASSUME NEW m \in Address, ExecutePenaltyAppeal(m)
      PROVE  Typed'
  <2>1. DefaultsTyped'
    BY <1>2 DEF ExecutePenaltyAppeal, Typed, DefaultsTyped
  <2>2. UNCHANGED <<now, pauseVars, memberVars, roundVars, skipVars, configVars,
                    rewardVars, shareVars, fundVars>>
    BY <1>2 DEF ExecutePenaltyAppeal
  <2>3. QED
    BY <2>1, <2>2, UnchangedTyped DEF Typed
<1>3. ASSUME MembersTyped',
             UNCHANGED <<now, pauseVars, roundVars, skipVars, defaultVars, configVars,
                         rewardVars, shareVars, fundVars>>
      PROVE  Typed'
  BY <1>3, UnchangedTyped DEF Typed
<1>4. ASSUME NEW m \in Address, AddMember(m) \/ JoinWithInvite(m)
      PROVE  Typed'
  <2>1. /\ members' = members \cup {m} /\ order' = Append(order, m)
        /\ invited' \subseteq invited
        /\ UNCHANGED <<exited, exitRequest, maxMembers>>
    BY <1>4 DEF AddMember, JoinWithInvite, Join
  <2>2. MembersTyped'
    BY <2>1 DEF Typed, MembersTyped
  <2>3. QED
    BY <1>3, <1>4, <2>2 DEF AddMember, JoinWithInvite
<1>5. ASSUME NEW m \in Address, GenerateInvite(m) \/ RejectExit(m)
      PROVE  Typed'
  <2>1. MembersTyped'
    <3>1. /\ members' = members /\ UNCHANGED <<order, exited, maxMembers>>
          /\ invited' \in {invited, invited \cup {m}}
          /\ exitRequest' \in {exitRequest, [exitRequest EXCEPT ![m] = -1]}
      BY <1>5 DEF GenerateInvite, RejectExit
    <3>2. -1 \in Int
      OBVIOUS
    <3>3. exitRequest' \in [Address -> Int]
      BY <3>1, <3>2 DEF Typed, MembersTyped
    <3>4. QED
      BY <3>1, <3>3 DEF Typed, MembersTyped
  <2>2. QED
    BY <1>3, <1>5, <2>1 DEF GenerateInvite, RejectExit
<1>6. ASSUME NEW m \in Address, RemoveMember(m) \/ ExecuteMemberRemoval(m)
      PROVE  Typed'
  <2>1. Leave(m)
    BY <1>6 DEF RemoveMember, ExecuteMemberRemoval
  <2>2. WithoutSeat(m) \in Seq(Address)
    BY SeatTakenOut DEF Typed, MembersTyped
  <2>3. MembersTyped'
    BY <2>1, <2>2 DEF Leave, Typed, MembersTyped
  <2>4. QED
    BY <1>3, <2>1, <2>3 DEF Leave
<1>7. ASSUME NEW m \in Address, RequestEmergencyExit(m)
      PROVE  Typed'
  <2>1. round \in Int
    BY DEF Typed, RoundTyped, Rounds
  <2>2. MembersTyped'
    BY <1>7, <2>1 DEF RequestEmergencyExit, Typed, MembersTyped
  <2>3. QED
    BY <1>3, <1>7, <2>2 DEF RequestEmergencyExit
<1>8. ASSUME NEW n \in Cap, UpdateMaxMembers(n)
      PROVE  Typed'
  <2>1. MembersTyped'
    BY <1>8 DEF UpdateMaxMembers, Typed, MembersTyped
  <2>2. QED
    BY <1>3, <1>8, <2>1 DEF UpdateMaxMembers
<1>9. Joiners \cup Leavers \cup Fallen \subseteq Address
  BY RoscaConstants
<1>10. QED
  BY <1>1, <1>2, <1>4, <1>5, <1>6, <1>7, <1>8, <1>9
     DEF MembershipStep, JoinOrLeaveStep, ProposalStep

LEMMA SettingsTyped ==
    ASSUME Typed, SettingsStep
    PROVE  Typed'
<1>1. ASSUME PauseGroup PROVE Typed'
  <2>1. ClockTyped'
    BY <1>1 DEF PauseGroup, Typed, ClockTyped
  <2>2. UNCHANGED <<memberVars, roundVars, skipVars, defaultVars, configVars, rewardVars,
                    shareVars, fundVars>>
    BY <1>1 DEF PauseGroup
  <2>3. QED
    BY <2>1, <2>2, UnchangedTyped DEF Typed
<1>2. ASSUME ResumeGroup PROVE Typed'
  <2>1. ClockTyped'
    <3>1. now' = now /\ paused' \in BOOLEAN /\ pausedAt' = 0
      BY <1>2 DEF ResumeGroup
    <3>2. QED
      BY <3>1 DEF Typed, ClockTyped
  <2>2. RoundTyped'
    BY <1>2 DEF ResumeGroup, Typed, ClockTyped, RoundTyped
  <2>3. UNCHANGED <<memberVars, skipVars, defaultVars, configVars, rewardVars,
                    shareVars, fundVars>>
    BY <1>2 DEF ResumeGroup
  <2>4. QED
    BY <2>1, <2>2, <2>3, UnchangedTyped DEF Typed
<1>3. ASSUME NEW d \in Sharing, NEW w \in Weighting \cup {weight}, SetRewardDistParams(d, w)
      PROVE  Typed'
  <2>1. RewardsTyped'
    BY <1>3, RoscaConstants DEF SetRewardDistParams, Typed, RewardsTyped
  <2>2. UNCHANGED <<now, pauseVars, memberVars, roundVars, skipVars, defaultVars,
                    configVars, shareVars, fundVars>>
    BY <1>3 DEF SetRewardDistParams
  <2>3. QED
    BY <2>1, <2>2, UnchangedTyped DEF Typed
<1>4. ASSUME ConfigTyped',
             UNCHANGED <<now, pauseVars, memberVars, roundVars, skipVars, defaultVars,
                         rewardVars, shareVars, fundVars>>
      PROVE  Typed'
  BY <1>4, UnchangedTyped DEF Typed
<1>5. ASSUME NEW m \in Address, NEW x \in Tier, SetMemberTier(m, x)
      PROVE  Typed'
  <2>1. ConfigTyped'
    BY <1>5, RoscaConstants DEF SetMemberTier, Typed, ConfigTyped
  <2>2. QED
    BY <1>4, <1>5, <2>1 DEF SetMemberTier
<1>6. ASSUME NEW m \in Investors, NEW yes \in BOOLEAN, SetReinvestPreference(m, yes)
      PROVE  Typed'
  <2>1. ConfigTyped'
    BY <1>6, RoscaConstants DEF SetReinvestPreference, Typed, ConfigTyped
  <2>2. QED
    BY <1>4, <1>6, <2>1 DEF SetReinvestPreference
<1>7. ASSUME NEW f \in FeeRate, UpdateFee(f)
      PROVE  Typed'
  <2>1. f \in 0 .. MaxFeeBps
    BY <1>7, RoscaConstants DEF UpdateFee, MaxFeeBps
  <2>2. ConfigTyped'
    BY <1>7, <2>1 DEF UpdateFee, Typed, ConfigTyped
  <2>3. QED
    BY <1>4, <1>7, <2>2 DEF UpdateFee
<1>8. ASSUME NEW t \in Listed, AddApprovedToken(t) \/ RemoveApprovedToken(t)
      PROVE  Typed'
  <2>1. ConfigTyped'
    BY <1>8, RoscaConstants DEF AddApprovedToken, RemoveApprovedToken, Typed, ConfigTyped
  <2>2. QED
    BY <1>4, <1>8, <2>1 DEF AddApprovedToken, RemoveApprovedToken
<1>9. ASSUME NEW t \in Listed, NEW x \in Rate, SetExchangeRate(t, x)
      PROVE  Typed'
  <2>1. ConfigTyped'
    BY <1>9, RoscaConstants DEF SetExchangeRate, Typed, ConfigTyped
  <2>2. QED
    BY <1>4, <1>9, <2>1 DEF SetExchangeRate
<1>10. ASSUME NEW t \in Listed, NEW x \in Limit, SetTokenLimit(t, x)
       PROVE  Typed'
  <2>1. ConfigTyped'
    BY <1>10 DEF SetTokenLimit, Typed, ConfigTyped
  <2>2. QED
    BY <1>4, <1>10, <2>1 DEF SetTokenLimit
<1>11. QED
  BY <1>1, <1>2, <1>3, <1>5, <1>6, <1>7, <1>8, <1>9, <1>10 DEF SettingsStep

(* A share of the rewards is an amount, in whichever way they are shared.   *)
LEMMA ShareTyped ==
    ASSUME Typed, NEW m \in Address, Claimable(m) > 0
    PROVE  Claimable(m) \in Nat
<1>1. rewardPool \in Nat /\ dist \in Distribution /\ claimed[m] \in Nat /\ weight[m] \in Nat
  BY DEF Typed, RewardsTyped
<1>2. participations \in Nat /\ participation[m] \in Nat
  BY DEF Typed, SharesTyped
<1>3. Claimable(m) = RewardShare(m) - claimed[m] /\ m \in members
  BY DEF Claimable
<1> DEFINE many == Cardinality(members)
           weights == SumFunctionOnSet(weight, Address)
<1>4. many \in Nat /\ many # 0
  <2>1. IsFiniteSet(members)
    BY AccountsFinite DEF Typed, MembersTyped
  <2>2. QED
    BY <1>3, <2>1, FS_CardinalityType, FS_EmptySet
<1>5. weights \in Nat
  <2>1. \A a \in Address : weight[a] \in Nat
    BY DEF Typed, RewardsTyped
  <2>2. QED
    BY <2>1, RoscaConstants, SumNat
<1>6. RewardShare(m) =
        CASE dist = "Equal" -> rewardPool \div many
          [] dist = "Proportional" ->
               IF participations = 0 THEN 0
               ELSE (rewardPool * participation[m]) \div participations
          [] dist = "Weighted" ->
               IF weights = 0 THEN rewardPool \div many
               ELSE (rewardPool * weight[m]) \div weights
  BY DEF RewardShare
<1> HIDE DEF many, weights
<1>7. ASSUME NEW n \in Nat, NEW d \in Nat, d # 0
      PROVE  n \div d \in Int
  BY <1>7
<1>8. rewardPool * participation[m] \in Nat /\ rewardPool * weight[m] \in Nat
  BY <1>1, <1>2
<1>9. RewardShare(m) \in Int
  <2>1. CASE dist = "Equal"
    <3>1. RewardShare(m) = rewardPool \div many
      BY <1>6, <2>1
    <3>2. QED
      BY <1>1, <1>4, <1>7, <3>1
  <2>2. CASE dist = "Proportional"
    <3>1. RewardShare(m) = IF participations = 0 THEN 0
                           ELSE (rewardPool * participation[m]) \div participations
      BY <1>6, <2>2
    <3>2. QED
      BY <1>2, <1>7, <1>8, <3>1
  <2>3. CASE dist = "Weighted"
    <3>1. RewardShare(m) = IF weights = 0 THEN rewardPool \div many
                           ELSE (rewardPool * weight[m]) \div weights
      BY <1>6, <2>3
    <3>2. QED
      BY <1>1, <1>4, <1>5, <1>7, <1>8, <3>1
  <2>4. QED
    BY <1>1, <2>1, <2>2, <2>3 DEF Distribution
<1>10. QED
  BY <1>1, <1>3, <1>9

LEMMA MoneyTyped ==
    ASSUME Typed, MoneyStep
    PROVE  Typed'
<1>1. ASSUME NEW m \in Address, NEW t \in Token, NEW a \in Premium,
             ContributeToInsurance(m, t, a)
      PROVE  Typed'
  <2>1. a \in Nat
    BY <1>1, RoscaConstants DEF ContributeToInsurance
  <2>2. FundsTyped'
    BY <1>1, <2>1 DEF ContributeToInsurance, Typed, FundsTyped
  <2>3. UNCHANGED <<now, pauseVars, memberVars, roundVars, skipVars, defaultVars,
                    configVars, rewardVars, shareVars>>
    BY <1>1 DEF ContributeToInsurance
  <2>4. QED
    BY <2>2, <2>3, UnchangedTyped DEF Typed
<1>2. ASSUME NEW a \in Reward, DepositRewards(a)
      PROVE  Typed'
  <2>1. a \in Nat
    BY RoscaConstants
  <2>2. FundsTyped' /\ RewardsTyped'
    BY <1>2, <2>1, RoscaConstants DEF DepositRewards, Typed, FundsTyped, RewardsTyped
  <2>3. UNCHANGED <<now, pauseVars, memberVars, roundVars, skipVars, defaultVars,
                    configVars, shareVars>>
    BY <1>2 DEF DepositRewards
  <2>4. QED
    BY <2>2, <2>3, UnchangedTyped DEF Typed
<1>3. ASSUME NEW m \in Address, ClaimRewards(m)
      PROVE  Typed'
  <2> DEFINE x == Claimable(m)
  <2>1. /\ claimed' = [claimed EXCEPT ![m] = @ + x]
        /\ claims' = claims + x
        /\ balance' = [balance EXCEPT ![Base] = @ - x]
        /\ x <= balance[Base]
        /\ UNCHANGED <<rewardPool, dist, weight, insurance, history, pot, refunded>>
    BY <1>3 DEF ClaimRewards
  <2>2. x \in Nat
    BY <1>3, ShareTyped DEF ClaimRewards
  <2> HIDE DEF x
  <2>3. RewardsTyped'
    BY <2>1, <2>2 DEF Typed, RewardsTyped
  <2>4. FundsTyped'
    BY <2>1, <2>2, RoscaConstants DEF Typed, FundsTyped
  <2>5. UNCHANGED <<now, pauseVars, memberVars, roundVars, skipVars, defaultVars,
                    configVars, shareVars>>
    BY <1>3 DEF ClaimRewards
  <2>6. QED
    BY <2>3, <2>4, <2>5, UnchangedTyped DEF Typed
<1>4. QED
  BY <1>1, <1>2, <1>3 DEF MoneyStep

LEMMA LedgerTyped ==
    ASSUME Typed, Tick \/ ExitRequestsLapse \/ InvitesLapse
    PROVE  Typed'
<1>1. ASSUME Tick PROVE Typed'
  <2>1. ClockTyped' /\ RoundTyped'
    BY <1>1 DEF Tick, pauseVars, Typed, ClockTyped, RoundTyped
  <2>2. UNCHANGED <<memberVars, skipVars, defaultVars, configVars, rewardVars,
                    shareVars, fundVars>>
    BY <1>1 DEF Tick
  <2>3. QED
    BY <2>1, <2>2, UnchangedTyped DEF Typed
<1>2. ASSUME ExitRequestsLapse \/ InvitesLapse PROVE Typed'
  <2>1. MembersTyped'
    <3>1. /\ members' = members /\ UNCHANGED <<order, exited, maxMembers>>
          /\ invited' \in {invited, {}}
          /\ exitRequest' \in {exitRequest, [m \in Address |-> -1]}
      BY <1>2 DEF ExitRequestsLapse, InvitesLapse
    <3>2. -1 \in Int
      OBVIOUS
    <3>3. exitRequest' \in [Address -> Int]
      BY <3>1, <3>2 DEF Typed, MembersTyped
    <3>4. QED
      BY <3>1, <3>3 DEF Typed, MembersTyped
  <2>2. UNCHANGED <<now, pauseVars, roundVars, skipVars, defaultVars, configVars,
                    rewardVars, shareVars, fundVars>>
    BY <1>2 DEF ExitRequestsLapse, InvitesLapse
  <2>3. QED
    BY <2>1, <2>2, UnchangedTyped DEF Typed
<1>3. QED
  BY <1>1, <1>2

LEMMA StepTyped ==
    ASSUME Typed, [Next]_vars
    PROVE  Typed'
<1>1. CASE UNCHANGED vars
  BY <1>1, UnchangedTyped DEF vars, Typed
<1>2. QED
  BY <1>1, RoundStepTyped, MembershipTyped, SettingsTyped, MoneyTyped, LedgerTyped DEF Next

(* No call overdraws a token or leaves the range of what it writes, for any *)
(* members, tokens, amounts, rates, tiers, fees and weights: balances and   *)
(* pools stay natural numbers, the fee within 5%.                           *)
THEOREM GroupTypeCorrect == Spec => []TypeOK
<1>1. Typed /\ [Next]_vars => Typed'
  BY StepTyped
<1>2. QED
  BY <1>1, InitTyped, TypedIsTypeOK, PTL DEF Spec

-----------------------------------------------------------------------------
(* How long a round is open *)

clockVars == <<now, paused, pausedAt, deadline, openTime>>

(* The next round begins. *)
RoundOpens ==
    /\ ~paused
    /\ deadline' = now + RoundDuration
    /\ openTime' = 0
    /\ UNCHANGED <<now, paused, pausedAt>>

TimePasses ==
    /\ now' = now + 1
    /\ openTime' = IF paused THEN openTime ELSE openTime + 1
    /\ UNCHANGED <<paused, pausedAt, deadline>>

GroupPauses ==
    /\ ~paused /\ paused' = TRUE
    /\ pausedAt' = now
    /\ UNCHANGED <<now, deadline, openTime>>

GroupResumes ==
    /\ paused /\ paused' = FALSE
    /\ pausedAt' = 0
    /\ deadline' = IF deadline > 0 THEN deadline + (now - pausedAt) ELSE deadline
    /\ UNCHANGED <<now, openTime>>

MovesClock ==
    \/ UNCHANGED clockVars
    \/ RoundOpens \/ TimePasses \/ GroupPauses \/ GroupResumes

(* WindowKept is inductive once it is known that a round has not been open  *)
(* for longer than the ledger has run: a deadline is then above zero, which *)
(* is what resume_group asks of it.                                         *)
ClockInv ==
    /\ now \in Nat /\ pausedAt \in Nat /\ deadline \in Int /\ openTime \in Nat
    /\ openTime <= Stopped
    /\ Stopped <= now
    /\ WindowKept

-----------------------------------------------------------------------------
(* What a call does to the clock and the deadline *)

LEMMA RoundMovesClock ==
    ASSUME RoundStep
    PROVE  MovesClock
<1>1. ASSUME NEW c \in Address, NEW t \in Token, NEW a \in Amount, Contribute(c, t, a)
      PROVE  MovesClock
  BY <1>1 DEF Contribute, CompleteRound, MovesClock, RoundOpens, clockVars, pauseVars
<1>2. ASSUME NEW m \in Skippers, NEW r \in Rounds, RequestSkip(m, r)
      PROVE  MovesClock
  BY <1>2 DEF RequestSkip, MovesClock, clockVars, pauseVars, roundVars
<1>3. ASSUME CloseRound PROVE MovesClock
  BY <1>3 DEF CloseRound, MovesClock, RoundOpens, clockVars, pauseVars
<1>4. ASSUME FinalizeRound PROVE MovesClock
  BY <1>4 DEF FinalizeRound, CompleteRound, MovesClock, RoundOpens, clockVars, pauseVars
<1>5. ASSUME NEW m \in Address, PenaliseDefaulter(m)
      PROVE  MovesClock
  BY <1>5 DEF PenaliseDefaulter, MovesClock, clockVars, pauseVars, roundVars
<1>6. QED
  BY <1>1, <1>2, <1>3, <1>4, <1>5 DEF RoundStep

LEMMA MembershipKeepsClock ==
    ASSUME MembershipStep
    PROVE  UNCHANGED clockVars
BY DEF MembershipStep, JoinOrLeaveStep, ProposalStep, AddMember, GenerateInvite,
       JoinWithInvite, RemoveMember,
       Leave, RequestEmergencyExit, ApproveExit, RejectExit,
       ExecutePenaltyAppeal, ExecuteMemberRemoval, UpdateMaxMembers,
       clockVars, pauseVars, roundVars

LEMMA SettingsMoveClock ==
    ASSUME SettingsStep
    PROVE  MovesClock
<1>1. ASSUME PauseGroup PROVE MovesClock
  BY <1>1 DEF PauseGroup, MovesClock, GroupPauses, roundVars
<1>2. ASSUME ResumeGroup PROVE MovesClock
  BY <1>2 DEF ResumeGroup, MovesClock, GroupResumes
<1>3. CASE ~PauseGroup /\ ~ResumeGroup
  BY <1>3 DEF SettingsStep, SetMemberTier, SetReinvestPreference, UpdateFee,
       AddApprovedToken, RemoveApprovedToken, SetExchangeRate, SetTokenLimit,
       SetRewardDistParams, MovesClock, clockVars, pauseVars, roundVars
<1>4. QED
  BY <1>1, <1>2, <1>3

LEMMA StepMovesClock ==
    ASSUME [Next]_vars
    PROVE  MovesClock
<1>1. CASE RoundStep
  BY <1>1, RoundMovesClock
<1>2. CASE MembershipStep
  BY <1>2, MembershipKeepsClock DEF MovesClock
<1>3. CASE SettingsStep
  BY <1>3, SettingsMoveClock
<1>4. CASE MoneyStep
  BY <1>4 DEF MoneyStep, ContributeToInsurance, DepositRewards, ClaimRewards,
       MovesClock, clockVars, pauseVars, roundVars
<1>5. CASE Tick
  BY <1>5 DEF Tick, MovesClock, TimePasses, pauseVars
<1>6. CASE ExitRequestsLapse \/ InvitesLapse
  BY <1>6 DEF ExitRequestsLapse, InvitesLapse, MovesClock, clockVars, pauseVars, roundVars
<1>7. CASE UNCHANGED vars
  BY <1>7 DEF vars, MovesClock, clockVars, pauseVars, roundVars
<1>8. QED
  BY <1>1, <1>2, <1>3, <1>4, <1>5, <1>6, <1>7 DEF Next

(* Pauses cost the members no time: for every round duration, clock and     *)
(* number of pauses, resume_group gives back what pause_group took.         *)
THEOREM PausesCostNoTime == Spec => []WindowKept
<1>0. RoundDuration \in Nat
  BY RoscaConstants
<1>1. Init => ClockInv
  <2>1. SUFFICES ASSUME Init PROVE ClockInv
    OBVIOUS
  <2>2. now = 0 /\ pausedAt = 0 /\ deadline = RoundDuration /\ openTime = 0
    BY <2>1 DEF Init
  <2>3. Stopped = now
    BY <2>1, <2>2 DEF Init, Stopped
  <2>4. QED
    BY <1>0, <2>2, <2>3 DEF ClockInv, WindowKept
<1>2. ASSUME ClockInv, [Next]_vars
      PROVE  ClockInv'
  <2>1. MovesClock
    BY <1>2, StepMovesClock
  <2>2. CASE UNCHANGED clockVars
    BY <1>2, <2>2 DEF ClockInv, Stopped, WindowKept, clockVars
  <2>3. CASE RoundOpens
    BY <1>2, <2>3, <1>0 DEF ClockInv, Stopped, WindowKept, RoundOpens
  <2>4. CASE TimePasses
    BY <1>2, <2>4, <1>0 DEF ClockInv, Stopped, WindowKept, TimePasses
  <2>5. CASE GroupPauses
    <3>1. Stopped = now /\ Stopped' = now
      BY <2>5 DEF GroupPauses, Stopped
    <3>2. QED
      BY <1>2, <2>5, <3>1 DEF ClockInv, WindowKept, GroupPauses
  <2>6. CASE GroupResumes
    <3>1. Stopped = pausedAt /\ Stopped' = now
      BY <2>6 DEF GroupResumes, Stopped
    <3>2. RoundDuration > 0 => deadline > 0
      BY <1>0, <1>2, <3>1 DEF ClockInv, WindowKept
    <3>3. QED
      BY <1>0, <1>2, <2>6, <3>1, <3>2 DEF ClockInv, WindowKept, GroupResumes
  <2>7. QED
    BY <2>1, <2>2, <2>3, <2>4, <2>5, <2>6 DEF MovesClock
<1>3. ClockInv => WindowKept
  BY DEF ClockInv
<1>4. QED
  BY <1>1, <1>2, <1>3, PTL DEF Spec

-----------------------------------------------------------------------------
(* Suspension *)

(* SuspensionAgrees is inductive with the types it speaks about and the     *)
(* fact that whoever can default has a count.                               *)
DefaultInv ==
    /\ members \subseteq Address
    /\ defaultCount \in [Address -> Nat]
    /\ suspended \subseteq Address
    /\ SuspensionAgrees

KeepsDefaults ==
    /\ UNCHANGED <<defaultCount, suspended>>
    /\ members' \subseteq members \cup Address

MovesDefaults ==
    \/ KeepsDefaults
    \/ FinalizeRound
    \/ \E m \in Address : PenaliseDefaulter(m) \/ ExecutePenaltyAppeal(m)

LEMMA RoundMovesDefaults ==
    ASSUME RoundStep
    PROVE  MovesDefaults
<1>1. ASSUME NEW c \in Address, NEW t \in Token, NEW a \in Amount, Contribute(c, t, a)
      PROVE  KeepsDefaults
  BY <1>1 DEF Contribute, KeepsDefaults, memberVars
<1>2. ASSUME NEW m \in Skippers, NEW r \in Rounds, RequestSkip(m, r)
      PROVE  KeepsDefaults
  BY <1>2 DEF RequestSkip, KeepsDefaults, memberVars, defaultVars
<1>3. ASSUME CloseRound PROVE KeepsDefaults
  BY <1>3 DEF CloseRound, KeepsDefaults, memberVars
<1>4. QED
  BY <1>1, <1>2, <1>3 DEF RoundStep, MovesDefaults

LEMMA MembershipMovesDefaults ==
    ASSUME MembershipStep
    PROVE  MovesDefaults
<1>1. ASSUME NEW m \in Joiners, AddMember(m) \/ GenerateInvite(m)
      PROVE  KeepsDefaults
  BY <1>1, RoscaConstants DEF AddMember, Join, GenerateInvite, KeepsDefaults, defaultVars
<1>2. ASSUME NEW m \in Address, JoinWithInvite(m) \/ ApproveExit(m) \/ RejectExit(m)
      PROVE  KeepsDefaults
  BY <1>2 DEF JoinWithInvite, Join, ApproveExit, RejectExit, KeepsDefaults, defaultVars
<1>3. ASSUME NEW m \in Leavers, RequestEmergencyExit(m)
      PROVE  KeepsDefaults
  BY <1>3 DEF RequestEmergencyExit, KeepsDefaults, defaultVars
<1>4. ASSUME NEW m \in Fallen, RemoveMember(m) \/ ExecuteMemberRemoval(m)
      PROVE  KeepsDefaults
  BY <1>4 DEF RemoveMember, ExecuteMemberRemoval, Leave, KeepsDefaults, defaultVars
<1>5. ASSUME NEW n \in Cap, UpdateMaxMembers(n)
      PROVE  KeepsDefaults
  BY <1>5 DEF UpdateMaxMembers, KeepsDefaults, defaultVars
<1>6. QED
  BY <1>1, <1>2, <1>3, <1>4, <1>5
     DEF MembershipStep, JoinOrLeaveStep, ProposalStep, MovesDefaults

LEMMA StepMovesDefaults ==
    ASSUME [Next]_vars
    PROVE  MovesDefaults
<1>1. CASE RoundStep
  BY <1>1, RoundMovesDefaults
<1>2. CASE MembershipStep
  BY <1>2, MembershipMovesDefaults
<1>3. CASE SettingsStep
  BY <1>3 DEF SettingsStep, PauseGroup, ResumeGroup, SetMemberTier,
       SetReinvestPreference, UpdateFee, AddApprovedToken, RemoveApprovedToken,
       SetExchangeRate, SetTokenLimit, SetRewardDistParams, MovesDefaults,
       KeepsDefaults, memberVars, defaultVars
<1>4. CASE MoneyStep
  BY <1>4 DEF MoneyStep, ContributeToInsurance, DepositRewards, ClaimRewards,
       MovesDefaults, KeepsDefaults, memberVars, defaultVars
<1>5. CASE Tick \/ ExitRequestsLapse \/ InvitesLapse
  BY <1>5 DEF Tick, ExitRequestsLapse, InvitesLapse, MovesDefaults,
       KeepsDefaults, memberVars, defaultVars
<1>6. CASE UNCHANGED vars
  BY <1>6 DEF vars, MovesDefaults, KeepsDefaults, memberVars, defaultVars
<1>7. QED
  BY <1>1, <1>2, <1>3, <1>4, <1>5, <1>6 DEF Next

(* The list of suspended members and the default counts never disagree,     *)
(* whatever max_defaults is and in whatever order rounds are finalised,     *)
(* penalties are taken and appeals are granted.                             *)
THEOREM SuspensionFollowsCount == Spec => []SuspensionAgrees
<1>1. Init => DefaultInv
  BY RoscaConstants DEF Init, DefaultInv, SuspensionAgrees
<1>2. ASSUME DefaultInv, [Next]_vars
      PROVE  DefaultInv'
  <2>1. MovesDefaults
    BY <1>2, StepMovesDefaults
  <2>2. CASE KeepsDefaults
    BY <1>2, <2>2 DEF DefaultInv, SuspensionAgrees, KeepsDefaults
  <2>3. CASE FinalizeRound
    <3>1. /\ members' = members
          /\ Missing \subseteq Address
      BY <1>2, <2>3 DEF FinalizeRound, memberVars, Missing, DefaultInv
    <3>2. /\ defaultCount' = [m \in Address |->
                                defaultCount[m] + (IF m \in Missing THEN 1 ELSE 0)]
          /\ suspended' = suspended \cup {m \in Missing : defaultCount'[m] >= MaxDefaults}
      BY <2>3 DEF FinalizeRound
    <3>3. \A m \in Address : /\ defaultCount'[m] \in Nat
                             /\ defaultCount'[m] >= defaultCount[m]
                             /\ m \notin Missing => defaultCount'[m] = defaultCount[m]
      BY <1>2, <3>2 DEF DefaultInv
    <3>4. \A m \in Address : m \in suspended' <=> defaultCount'[m] >= MaxDefaults
      BY <1>2, <3>2, <3>3, RoscaConstants DEF DefaultInv, SuspensionAgrees
    <3>5. defaultCount' \in [Address -> Nat] /\ suspended' \subseteq Address
      BY <1>2, <3>1, <3>2, <3>3 DEF DefaultInv
    <3>6. QED
      BY <1>2, <3>1, <3>4, <3>5 DEF DefaultInv, SuspensionAgrees
  <2>4. ASSUME NEW m \in Address, PenaliseDefaulter(m)
        PROVE  DefaultInv'
    BY <1>2, <2>4, RoscaConstants
       DEF PenaliseDefaulter, memberVars, DefaultInv, SuspensionAgrees
  <2>5. ASSUME NEW m \in Address, ExecutePenaltyAppeal(m)
        PROVE  DefaultInv'
    BY <1>2, <2>5, RoscaConstants
       DEF ExecutePenaltyAppeal, memberVars, DefaultInv, SuspensionAgrees
  <2>6. QED
    BY <2>1, <2>2, <2>3, <2>4, <2>5 DEF MovesDefaults
<1>3. DefaultInv => SuspensionAgrees
  BY DEF DefaultInv
<1>4. QED
  BY <1>1, <1>2, <1>3, PTL DEF Spec

-----------------------------------------------------------------------------
(* What a pause freezes *)

Frozen ==
    UNCHANGED <<members, order, exited, paid, contributed, round, deadline, balance,
                defaultVars, insurance, rewardVars>>

LEMMA RoundWaits ==
    ASSUME RoundStep
    PROVE  ~paused
<1>1. ASSUME NEW c \in Address, NEW t \in Token, NEW a \in Amount, Contribute(c, t, a)
      PROVE  ~paused
  BY <1>1 DEF Contribute
<1>2. ASSUME NEW m \in Skippers, NEW r \in Rounds, RequestSkip(m, r)
      PROVE  ~paused
  BY <1>2 DEF RequestSkip
<1>3. CASE CloseRound
  BY <1>3 DEF CloseRound
<1>4. CASE FinalizeRound
  BY <1>4 DEF FinalizeRound
<1>5. ASSUME NEW m \in Address, PenaliseDefaulter(m)
      PROVE  ~paused
  BY <1>5 DEF PenaliseDefaulter
<1>6. QED
  BY <1>1, <1>2, <1>3, <1>4, <1>5 DEF RoundStep

(* Of the calls about members only the member limit can be changed.         *)
LEMMA MembershipWaits ==
    ASSUME MembershipStep, paused
    PROVE  Frozen
<1>1. ASSUME NEW n \in Cap, UpdateMaxMembers(n)
      PROVE  Frozen
  BY <1>1 DEF UpdateMaxMembers, Frozen, roundVars, fundVars
<1>2. \E n \in Cap : UpdateMaxMembers(n)
  BY DEF MembershipStep, JoinOrLeaveStep, ProposalStep, AddMember, Join, GenerateInvite, JoinWithInvite, ApproveExit,
     RejectExit, RequestEmergencyExit, RemoveMember, ExecuteMemberRemoval,
     ExecutePenaltyAppeal
<1>3. QED
  BY <1>1, <1>2

LEMMA SettingsWait ==
    ASSUME SettingsStep, paused, paused'
    PROVE  Frozen
<1>1. ASSUME NEW m \in Address, NEW x \in Tier, SetMemberTier(m, x)
      PROVE  Frozen
  BY <1>1 DEF SetMemberTier, Frozen, memberVars, roundVars, fundVars
<1>2. \E m \in Address, x \in Tier : SetMemberTier(m, x)
  BY DEF SettingsStep, PauseGroup, ResumeGroup, SetReinvestPreference, UpdateFee,
     AddApprovedToken, RemoveApprovedToken, SetExchangeRate, SetTokenLimit,
     SetRewardDistParams
<1>3. QED
  BY <1>1, <1>2

(* While the group is paused nobody joins, leaves, pays, is paid, defaults   *)
(* or claims, for any settings: of all calls only the pause's end, a tier    *)
(* and the member limit get through, and they change none of these.          *)
THEOREM PauseHoldsGroup == Spec => PauseFreezesGroup
<1>1. ASSUME [Next]_vars, paused, paused'
      PROVE  Frozen
  <2>1. CASE RoundStep
    BY <1>1, <2>1, RoundWaits
  <2>2. CASE MembershipStep
    BY <1>1, <2>2, MembershipWaits
  <2>3. CASE SettingsStep
    BY <1>1, <2>3, SettingsWait
  <2>4. CASE MoneyStep
    BY <1>1, <2>4 DEF MoneyStep, ContributeToInsurance, DepositRewards, ClaimRewards
  <2>5. CASE Tick \/ ExitRequestsLapse \/ InvitesLapse
    BY <2>5 DEF Tick, ExitRequestsLapse, InvitesLapse, Frozen, memberVars, roundVars,
       fundVars
  <2>6. CASE UNCHANGED vars
    BY <2>6 DEF vars, Frozen, memberVars, roundVars, fundVars
  <2>7. QED
    BY <1>1, <2>1, <2>2, <2>3, <2>4, <2>5, <2>6 DEF Next
<1>2. ASSUME [Next]_vars
      PROVE  [paused /\ paused' => Frozen]_vars
  BY <1>1, <1>2
<1>3. QED
  BY <1>2, PTL DEF Spec, PauseFreezesGroup, Frozen

-----------------------------------------------------------------------------
(* The pot *)

potVars == <<balance, pot, rewardPool, claims, refunded>>

(* PotHeld with what was claimed on one side and the pool on the other: the  *)
(* form a step preserves without asking whether claims exceed the pool.      *)
PotCovered ==
    /\ balance[Base] + claims + refunded >= rewardPool + pot[Base]
    /\ \A t \in Token \ {Base} : balance[t] >= pot[t]

LEMMA PotOutOfReach ==
    ASSUME PotCovered, UNCHANGED potVars
    PROVE  PotCovered'
BY DEF PotCovered, potVars

(* Money that is paid in on its own account leaves the pot covered.         *)
LEMMA PotWithMore ==
    ASSUME Typed, PotCovered, NEW t \in Token, NEW x \in Nat,
           balance' = [balance EXCEPT ![t] = @ + x],
           UNCHANGED <<rewardPool, claims, refunded>>,
           pot' \in {pot, [pot EXCEPT ![t] = @ + x], [u \in Token |-> 0]}
    PROVE  PotCovered'
<1>1. Base \in Token /\ rewardPool \in Nat /\ claims \in Nat /\ refunded \in Nat
  BY RoscaConstants DEF Typed, RewardsTyped, FundsTyped
<1>2. ASSUME NEW u \in Token
      PROVE  /\ balance[u] \in Nat /\ pot[u] \in Nat
             /\ balance'[u] = IF u = t THEN balance[u] + x ELSE balance[u]
             /\ pot'[u] \in {pot[u], IF u = t THEN pot[u] + x ELSE pot[u], 0}
  BY DEF Typed, FundsTyped
<1>3. balance'[Base] + claims + refunded >= rewardPool + pot'[Base]
  <2>1. balance[Base] + claims + refunded >= rewardPool + pot[Base]
    BY DEF PotCovered
  <2>2. QED
    BY <1>1, <1>2, <2>1
<1>4. \A u \in Token \ {Base} : balance'[u] >= pot'[u]
  BY <1>2 DEF PotCovered
<1>5. QED
  BY <1>3, <1>4 DEF PotCovered

(* A payout leaves the rewards, and what the recipient reinvests is the     *)
(* pot of the next round.                                                   *)
LEMMA PotPaidOut ==
    ASSUME Typed, PotCovered, NEW payers, NEW bal \in [Token -> Nat], NEW part, NEW parts,
           CompleteRound(payers, bal, part, parts),
           \A t \in Token : bal[t] >= balance[t],
           UNCHANGED <<rewardPool, claims>>
    PROVE  PotCovered'
<1> DEFINE kept == Reinvested(bal)
<1>1. /\ balance' = [t \in Token |-> bal[t] - Leaves(bal, t)]
      /\ pot' = [t \in Token |-> IF t = Base THEN kept ELSE 0]
      /\ refunded' = refunded
  BY DEF CompleteRound
<1>2. ConfigTyped /\ RewardsTyped
  BY DEF Typed
<1>3. /\ Base \in Token /\ rewardPool \in Nat /\ claims \in Nat /\ refunded \in Nat
      /\ balance[Base] \in Nat /\ pot[Base] \in Nat
  BY RoscaConstants DEF Typed, RewardsTyped, FundsTyped
<1>4. /\ kept \in Nat
      /\ \/ bal[Base] - Leaves(bal, Base) = rewardPool + kept
         \/ bal[Base] - Leaves(bal, Base) = bal[Base] /\ kept = 0
  BY <1>2, <1>3, PayoutWithin
<1>5. balance'[Base] + claims + refunded >= rewardPool + pot'[Base]
  <2>1. balance[Base] + claims + refunded >= rewardPool + pot[Base]
    BY DEF PotCovered
  <2>2. balance'[Base] = bal[Base] - Leaves(bal, Base) /\ pot'[Base] = kept
    BY <1>1, <1>3
  <2>3. bal[Base] \in Nat /\ bal[Base] >= balance[Base]
    BY <1>3
  <2> HIDE DEF kept
  <2>4. QED
    BY <1>3, <1>4, <2>1, <2>2, <2>3
<1>6. \A t \in Token \ {Base} : balance'[t] >= pot'[t]
  <2>1. TAKE t \in Token \ {Base}
  <2>2. balance'[t] = bal[t] - Leaves(bal, t) /\ pot'[t] = 0
    BY <1>1
  <2>3. Leaves(bal, t) \in Nat /\ Leaves(bal, t) <= bal[t] /\ bal[t] \in Nat
    BY <1>2, PayoutWithin
  <2>4. QED
    BY <2>2, <2>3
<1>7. QED
  BY <1>1, <1>5, <1>6 DEF PotCovered

LEMMA RoundKeepsPot ==
    ASSUME Typed, PotCovered, RoundStep
    PROVE  PotCovered'
<1>0. /\ Base \in Token /\ SkipFee \in Nat /\ Penalty \in Nat /\ 0 \in Nat
      /\ balance \in [Token -> Nat]
      /\ \A t \in Token : balance[t] >= balance[t]
  BY RoscaConstants DEF Typed, FundsTyped
<1>1. ASSUME NEW c \in Address, NEW t \in Token, NEW a \in Amount, Contribute(c, t, a)
      PROVE  PotCovered'
  <2> DEFINE cost == Cost(t, a)
             bal == [balance EXCEPT ![t] = @ + cost]
             part == [participation EXCEPT ![c] = @ + 1]
             payers == paid \cup {c}
  <2>1. cost \in Nat
    BY <1>1, CostTyped
  <2>2. bal \in [Token -> Nat] /\ \A u \in Token : bal[u] >= balance[u]
    <3> HIDE DEF cost
    <3>1. QED
      BY <1>0, <2>1
  <2>3. UNCHANGED <<rewardPool, claims>>
    BY <1>1 DEF Contribute, rewardVars
  <2>4. CASE CompleteRound(payers, bal, part, participations + 1)
    <3> HIDE DEF bal, part, payers
    <3>1. QED
      BY <2>2, <2>3, <2>4, PotPaidOut
  <2>5. CASE ~CompleteRound(payers, bal, part, participations + 1)
    <3>1. /\ balance' = bal
          /\ pot' = [pot EXCEPT ![t] = @ + cost]
          /\ refunded' = refunded
      BY <1>1, <2>5 DEF Contribute
    <3> HIDE DEF cost
    <3>2. QED
      BY <2>1, <2>3, <3>1, PotWithMore
  <2>6. QED
    BY <2>4, <2>5
<1>2. ASSUME NEW m \in Skippers, NEW r \in Rounds, RequestSkip(m, r)
      PROVE  PotCovered'
  <2>1. /\ balance' = [balance EXCEPT ![Base] = @ + SkipFee]
        /\ UNCHANGED <<rewardPool, claims, refunded, pot>>
    BY <1>2 DEF RequestSkip, rewardVars
  <2>2. QED
    BY <1>0, <2>1, PotWithMore
<1>3. ASSUME CloseRound
      PROVE  PotCovered'
  <2>1. /\ pot' = [t \in Token |-> 0]
        /\ UNCHANGED <<balance, rewardPool, claims, refunded>>
    BY <1>3 DEF CloseRound, rewardVars
  <2>2. balance' = [balance EXCEPT ![Base] = @ + 0]
    BY <1>0, <2>1
  <2>3. QED
    BY <1>0, <2>1, <2>2, PotWithMore
<1>4. ASSUME FinalizeRound
      PROVE  PotCovered'
  <2>1. /\ CompleteRound(paid, balance, participation, participations)
        /\ UNCHANGED <<rewardPool, claims>>
    BY <1>4 DEF FinalizeRound, rewardVars
  <2>2. QED
    BY <1>0, <2>1, PotPaidOut
<1>5. ASSUME NEW m \in Address, PenaliseDefaulter(m)
      PROVE  PotCovered'
  <2>1. /\ balance' = [balance EXCEPT ![Base] = @ + Penalty]
        /\ UNCHANGED <<rewardPool, claims, refunded, pot>>
    BY <1>5 DEF PenaliseDefaulter, rewardVars
  <2>2. QED
    BY <1>0, <2>1, PotWithMore
<1>6. QED
  BY <1>1, <1>2, <1>3, <1>4, <1>5 DEF RoundStep

LEMMA MembershipKeepsPot ==
    ASSUME Typed, PotCovered, MembershipStep
    PROVE  PotCovered'
<1>1. ASSUME NEW m \in Address, ApproveExit(m)
      PROVE  PotCovered'
  <2> DEFINE x == ExitRefund(m)
  <2>1. /\ balance' = [balance EXCEPT ![Base] = @ - x]
        /\ refunded' = refunded + x
        /\ UNCHANGED <<rewardPool, claims, pot>>
    BY <1>1 DEF ApproveExit, rewardVars
  <2>2. x \in Nat
    BY RefundTyped
  <2>3. /\ Base \in Token /\ rewardPool \in Nat /\ claims \in Nat /\ refunded \in Nat
        /\ balance \in [Token -> Nat] /\ pot \in [Token -> Nat]
    BY RoscaConstants DEF Typed, RewardsTyped, FundsTyped
  <2> HIDE DEF x
  <2>4. balance'[Base] + claims' + refunded' = balance[Base] + claims + refunded
    BY <2>1, <2>2, <2>3
  <2>5. \A t \in Token \ {Base} : balance'[t] = balance[t]
    BY <2>1, <2>3
  <2>6. QED
    BY <2>1, <2>4, <2>5 DEF PotCovered
<1>2. CASE ~ \E m \in Address : ApproveExit(m)
  <2>1. UNCHANGED potVars
    BY <1>2 DEF MembershipStep, JoinOrLeaveStep, ProposalStep, AddMember, GenerateInvite,
       JoinWithInvite, RemoveMember, Leave, RequestEmergencyExit, RejectExit,
       ExecutePenaltyAppeal, ExecuteMemberRemoval, UpdateMaxMembers, potVars, fundVars,
       rewardVars
  <2>2. QED
    BY <2>1, PotOutOfReach
<1>3. QED
  BY <1>1, <1>2

LEMMA MoneyKeepsPot ==
    ASSUME Typed, PotCovered, MoneyStep
    PROVE  PotCovered'
<1>0. /\ Base \in Token /\ rewardPool \in Nat /\ claims \in Nat /\ refunded \in Nat
      /\ balance \in [Token -> Nat] /\ pot \in [Token -> Nat]
  BY RoscaConstants DEF Typed, RewardsTyped, FundsTyped
<1>1. ASSUME NEW m \in Address, NEW t \in Token, NEW a \in Premium,
             ContributeToInsurance(m, t, a)
      PROVE  PotCovered'
  <2>1. a \in Nat
    BY <1>1, RoscaConstants DEF ContributeToInsurance
  <2>2. /\ balance' = [balance EXCEPT ![t] = @ + a]
        /\ UNCHANGED <<rewardPool, claims, refunded, pot>>
    BY <1>1 DEF ContributeToInsurance, rewardVars
  <2>3. QED
    BY <2>1, <2>2, PotWithMore
<1>2. ASSUME NEW a \in Reward, DepositRewards(a)
      PROVE  PotCovered'
  <2>1. a \in Nat
    BY RoscaConstants
  <2>2. /\ balance' = [balance EXCEPT ![Base] = @ + a]
        /\ rewardPool' = rewardPool + a
        /\ UNCHANGED <<claims, refunded, pot>>
    BY <1>2 DEF DepositRewards
  <2>3. balance'[Base] = balance[Base] + a /\ \A t \in Token \ {Base} : balance'[t] = balance[t]
    BY <1>0, <2>2
  <2>4. balance[Base] \in Nat /\ pot[Base] \in Nat
    BY <1>0
  <2>5. balance'[Base] + claims' + refunded' >= rewardPool' + pot'[Base]
    <3>1. balance[Base] + claims + refunded >= rewardPool + pot[Base]
      BY DEF PotCovered
    <3>2. QED
      BY <1>0, <2>1, <2>2, <2>3, <2>4, <3>1
  <2>6. QED
    BY <2>2, <2>3, <2>5 DEF PotCovered
<1>3. ASSUME NEW m \in Address, ClaimRewards(m)
      PROVE  PotCovered'
  <2> DEFINE x == Claimable(m)
  <2>1. /\ claims' = claims + x
        /\ balance' = [balance EXCEPT ![Base] = @ - x]
        /\ UNCHANGED <<rewardPool, refunded, pot>>
    BY <1>3 DEF ClaimRewards
  <2>2. x \in Nat
    BY <1>3, ShareTyped DEF ClaimRewards
  <2> HIDE DEF x
  <2>3. balance'[Base] + claims' + refunded' = balance[Base] + claims + refunded
    BY <1>0, <2>1, <2>2
  <2>4. \A t \in Token \ {Base} : balance'[t] = balance[t]
    BY <1>0, <2>1
  <2>5. QED
    BY <2>1, <2>3, <2>4 DEF PotCovered
<1>4. QED
  BY <1>1, <1>2, <1>3 DEF MoneyStep

LEMMA StepKeepsPot ==
    ASSUME Typed, PotCovered, [Next]_vars
    PROVE  PotCovered'
<1>1. CASE SettingsStep
  <2>1. UNCHANGED potVars
    BY <1>1 DEF SettingsStep, PauseGroup, ResumeGroup, SetMemberTier,
       SetReinvestPreference, UpdateFee, AddApprovedToken, RemoveApprovedToken,
       SetExchangeRate, SetTokenLimit, SetRewardDistParams, potVars, fundVars, rewardVars
  <2>2. QED
    BY <2>1, PotOutOfReach
<1>2. CASE Tick \/ ExitRequestsLapse \/ InvitesLapse \/ UNCHANGED vars
  <2>1. UNCHANGED potVars
    BY <1>2 DEF Tick, ExitRequestsLapse, InvitesLapse, vars, potVars, fundVars, rewardVars
  <2>2. QED
    BY <2>1, PotOutOfReach
<1>3. QED
  BY <1>1, <1>2, RoundKeepsPot, MembershipKeepsPot, MoneyKeepsPot DEF Next

(* For any tokens, rates, fees, reinvestments, tiers, insurance and ways to  *)
(* share rewards, the contract holds what was paid in for the running round  *)
(* and the rewards not claimed, less two things that are counted: exit       *)
(* refunds, and what was claimed beyond the reward pool.                     *)
THEOREM PotIsHeld == Spec => []PotHeld
<1>1. Init => PotCovered
  BY RoscaConstants DEF Init, PotCovered
<1>2. Typed /\ PotCovered /\ [Next]_vars => Typed' /\ PotCovered'
  BY StepTyped, StepKeepsPot
<1>3. Typed /\ PotCovered => PotHeld
  <2> SUFFICES ASSUME Typed, PotCovered
               PROVE  PotHeld
    OBVIOUS
  <2>1. /\ rewardPool \in Nat /\ claims \in Nat /\ refunded \in Nat
        /\ balance[Base] \in Nat /\ pot[Base] \in Nat
    BY RoscaConstants DEF Typed, RewardsTyped, FundsTyped
  <2>2. Overclaimed - Unclaimed = claims - rewardPool
        /\ Overclaimed \in Nat /\ Unclaimed \in Nat
    BY <2>1 DEF Overclaimed, Unclaimed
  <2>3. QED
    BY <2>1, <2>2 DEF PotCovered, PotHeld
<1>4. QED
  BY <1>1, <1>2, <1>3, InitTyped, PTL DEF Spec

(* With equal shares nobody has had more of the pool than his share of it.  *)
SharesInPool ==
    /\ members = Founders /\ dist = "Equal"
    /\ \A m \in Founders : Cardinality(Founders) * claimed[m] <= rewardPool
    /\ \A m \in Address \ Founders : claimed[m] = 0
    /\ claims = SumFunctionOnSet(claimed, Address)

LEMMA SharesFillPool ==
    ASSUME Typed, SharesInPool
    PROVE  claims <= rewardPool
<1>1. claimed \in [Address -> Nat] /\ rewardPool \in Nat
  BY DEF Typed, RewardsTyped
<1>2. Founders \subseteq Address /\ IsFiniteSet(Address) /\ IsFiniteSet(Founders)
  BY RoscaConstants, FS_Subset
<1>3. SumFunctionOnSet(claimed, Founders) <= rewardPool
  BY <1>1, <1>2, EqualParts DEF SharesInPool
<1>4. SumFunctionOnSet(claimed, Address) = SumFunctionOnSet(claimed, Founders)
  BY <1>1, <1>2, SumPart DEF SharesInPool
<1>5. QED
  BY <1>3, <1>4 DEF SharesInPool

LEMMA ClaimInPool ==
    ASSUME Typed, SharesInPool, NEW m \in Address, ClaimRewards(m),
           members' = members, dist' = dist
    PROVE  SharesInPool'
<1> DEFINE n == Cardinality(Founders)
           x == Claimable(m)
<1>1. /\ rewardPool' = rewardPool /\ claims' = claims + x
      /\ claimed' = [claimed EXCEPT ![m] = @ + x]
  BY DEF ClaimRewards
<1>2. claimed \in [Address -> Nat] /\ rewardPool \in Nat /\ x \in Nat /\ x > 0
  BY ShareTyped DEF ClaimRewards, Typed, RewardsTyped
<1>3. Founders \subseteq Address /\ IsFiniteSet(Address) /\ IsFiniteSet(Founders)
  BY RoscaConstants, FS_Subset
<1>4. m \in Founders /\ x = rewardPool \div n - claimed[m]
  BY <1>2 DEF Claimable, RewardShare, SharesInPool
<1>5. n \in Nat /\ n # 0
  BY <1>3, <1>4, FS_CardinalityType, FS_EmptySet
<1> HIDE DEF n, x
<1>6. claimed'[m] = rewardPool \div n /\ n * (rewardPool \div n) <= rewardPool
  <2>1. claimed'[m] = claimed[m] + x
    BY <1>1, <1>2
  <2>2. claimed[m] \in Nat /\ rewardPool \div n \in Int
    BY <1>2, <1>5
  <2>3. claimed'[m] = rewardPool \div n
    BY <1>2, <1>4, <2>1, <2>2
  <2>4. n * (rewardPool \div n) <= rewardPool
    BY <1>2, <1>5
  <2>5. QED
    BY <2>3, <2>4
<1>7. \A a \in Address \ {m} : claimed'[a] = claimed[a]
  BY <1>1, <1>2
<1>8. \A a \in Founders : n * claimed'[a] <= rewardPool'
  <2>1. TAKE a \in Founders
  <2>2. CASE a = m
    BY <1>1, <1>6, <2>2
  <2>3. CASE a # m
    <3>1. n * claimed[a] <= rewardPool
      BY DEF SharesInPool, n
    <3>2. QED
      BY <1>1, <1>3, <1>7, <2>3, <3>1
  <2>4. QED
    BY <2>2, <2>3
<1>9. \A a \in Address \ Founders : claimed'[a] = 0
  BY <1>4, <1>7 DEF SharesInPool
<1>10. claims' = SumFunctionOnSet(claimed', Address)
  <2>1. claimed'[m] = claimed[m] + x /\ claimed[m] \in Nat
    BY <1>1, <1>2
  <2>2. /\ \A a \in Address : claimed[a] \in Int
        /\ claimed'[m] \in Int
    BY <1>2, <2>1
  <2>3. SumFunctionOnSet(claimed', Address)
          = SumFunctionOnSet(claimed, Address) - claimed[m] + claimed'[m]
    BY <1>3, <1>7, <2>2, SumChange
  <2>4. claims = SumFunctionOnSet(claimed, Address) /\ claims \in Nat
    BY DEF SharesInPool, Typed, RewardsTyped
  <2>5. QED
    BY <1>1, <1>2, <2>1, <2>3, <2>4
<1>11. QED
  BY <1>8, <1>9, <1>10 DEF SharesInPool, n

LEMMA StepInPool ==
    ASSUME Typed, SharesInPool, [Next]_vars, members' = members, dist' = dist
    PROVE  SharesInPool'
<1>1. ASSUME UNCHANGED <<claimed, claims, rewardPool>>
      PROVE  SharesInPool'
  BY <1>1 DEF SharesInPool
<1>2. ASSUME NEW a \in Reward, DepositRewards(a)
      PROVE  SharesInPool'
  <2>1. rewardPool' = rewardPool + a /\ claimed' = claimed /\ claims' = claims
    BY <1>2 DEF DepositRewards
  <2>2. a \in Nat /\ rewardPool \in Nat
    BY RoscaConstants DEF Typed, RewardsTyped
  <2>3. \A m \in Founders : claimed[m] \in Nat /\ Cardinality(Founders) \in Nat
    BY RoscaConstants, FS_Subset, FS_CardinalityType DEF Typed, RewardsTyped
  <2>4. \A m \in Founders : Cardinality(Founders) * claimed'[m] <= rewardPool'
    <3>1. TAKE m \in Founders
    <3> DEFINE y == Cardinality(Founders) * claimed[m]
    <3>2. y <= rewardPool
      BY DEF SharesInPool
    <3>3. y \in Nat
      BY <2>3
    <3> HIDE DEF y
    <3>4. y <= rewardPool + a
      BY <2>2, <3>2, <3>3
    <3>5. QED
      BY <2>1, <3>4 DEF y
  <2>5. QED
    BY <2>1, <2>4 DEF SharesInPool
<1>3. CASE MoneyStep
  <2>1. ASSUME NEW m \in Address, NEW t \in Token, NEW a \in Premium,
               ContributeToInsurance(m, t, a)
        PROVE  SharesInPool'
    <3>1. UNCHANGED <<claimed, claims, rewardPool>>
      BY <2>1 DEF ContributeToInsurance, rewardVars
    <3>2. QED
      BY <1>1, <3>1
  <2>2. QED
    BY <1>2, <1>3, <2>1, ClaimInPool DEF MoneyStep
<1>4. CASE RoundStep
  <2>1. UNCHANGED <<claimed, claims, rewardPool>>
    BY <1>4 DEF RoundStep, Contribute, RequestSkip, CloseRound, FinalizeRound,
       PenaliseDefaulter, rewardVars
  <2>2. QED
    BY <1>1, <2>1
<1>5. CASE MembershipStep
  <2>1. UNCHANGED <<claimed, claims, rewardPool>>
    BY <1>5 DEF MembershipStep, JoinOrLeaveStep, ProposalStep, AddMember, GenerateInvite,
       JoinWithInvite, RemoveMember, Leave, RequestEmergencyExit, ApproveExit, RejectExit,
       ExecutePenaltyAppeal, ExecuteMemberRemoval, UpdateMaxMembers, rewardVars
  <2>2. QED
    BY <1>1, <2>1
<1>6. CASE SettingsStep
  <2>1. UNCHANGED <<claimed, claims, rewardPool>>
    BY <1>6 DEF SettingsStep, PauseGroup, ResumeGroup, SetMemberTier,
       SetReinvestPreference, UpdateFee, AddApprovedToken, RemoveApprovedToken,
       SetExchangeRate, SetTokenLimit, SetRewardDistParams, rewardVars
  <2>2. QED
    BY <1>1, <2>1
<1>7. CASE Tick \/ ExitRequestsLapse \/ InvitesLapse \/ UNCHANGED vars
  <2>1. UNCHANGED <<claimed, claims, rewardPool>>
    BY <1>7 DEF Tick, ExitRequestsLapse, InvitesLapse, vars, rewardVars
  <2>2. QED
    BY <1>1, <2>1
<1>8. QED
  BY <1>3, <1>4, <1>5, <1>6, <1>7 DEF Next

(* As long as rewards are shared equally and nobody joins or leaves, claims *)
(* stay within what was deposited, so that nothing but an exit refund takes *)
(* from the pot: it is held whole, beside every reward not yet claimed.     *)
THEOREM EqualSharesSparePot ==
    Spec /\ [][members' = members /\ dist' = dist]_vars
      => [](/\ claims <= rewardPool
            /\ balance[Base] + refunded >= (rewardPool - claims) + pot[Base])
<1> DEFINE Fixed == members' = members /\ dist' = dist
           Whole == /\ claims <= rewardPool
                    /\ balance[Base] + refunded >= (rewardPool - claims) + pot[Base]
<1>1. Init => SharesInPool
  <2> SUFFICES ASSUME Init
               PROVE  SharesInPool
    OBVIOUS
  <2>1. /\ members = Founders /\ dist = "Equal" /\ rewardPool = 0 /\ claims = 0
        /\ \A m \in Address : claimed[m] = 0
    BY DEF Init
  <2>2. Founders \subseteq Address /\ IsFiniteSet(Address) /\ IsFiniteSet(Founders)
    BY RoscaConstants, FS_Subset
  <2>3. \A m \in Founders : Cardinality(Founders) * claimed[m] <= rewardPool
    <3>1. Cardinality(Founders) \in Nat
      BY <2>2, FS_CardinalityType
    <3>2. QED
      BY <2>1, <2>2, <3>1
  <2>4. SumFunctionOnSet(claimed, Address) = 0
    BY <2>1, <2>2, SumZero
  <2>5. QED
    BY <2>1, <2>2, <2>3, <2>4 DEF SharesInPool
<1>2. Typed /\ SharesInPool /\ [Next]_vars /\ [Fixed]_vars => Typed' /\ SharesInPool'
  <2> SUFFICES ASSUME Typed, SharesInPool, [Next]_vars, [Fixed]_vars
               PROVE  Typed' /\ SharesInPool'
    OBVIOUS
  <2>1. members' = members /\ dist' = dist
    BY DEF vars, memberVars, rewardVars
  <2>2. QED
    BY <2>1, StepTyped, StepInPool
<1>3. Typed /\ SharesInPool /\ PotHeld => Whole
  <2> SUFFICES ASSUME Typed, SharesInPool, PotHeld
               PROVE  Whole
    OBVIOUS
  <2>1. claims <= rewardPool
    BY SharesFillPool
  <2>2. rewardPool \in Nat /\ claims \in Nat
    BY DEF Typed, RewardsTyped
  <2>3. Overclaimed = 0 /\ Unclaimed = rewardPool - claims
    BY <2>1, <2>2 DEF Overclaimed, Unclaimed
  <2>4. balance[Base] \in Nat /\ refunded \in Nat
    BY RoscaConstants DEF Typed, FundsTyped
  <2>5. QED
    BY <2>1, <2>3, <2>4 DEF PotHeld
<1> HIDE DEF Fixed, Whole
<1>4. Spec /\ [][Fixed]_vars => []Whole
  BY <1>1, <1>2, <1>3, InitTyped, PotIsHeld, PTL DEF Spec
<1>5. QED
  BY <1>4 DEF Fixed, Whole

-----------------------------------------------------------------------------
(* Seats and members *)

seatVars == <<members, order, exited>>

LEMMA StepKeepsSeats ==
    ASSUME Typed, SeatsMatchMembers, [Next]_vars
    PROVE  SeatsMatchMembers'
<1>1. order \in Seq(Address)
  BY DEF Typed, MembersTyped
<1>2. ASSUME UNCHANGED seatVars
      PROVE  SeatsMatchMembers'
  BY <1>2 DEF SeatsMatchMembers, Seats, seatVars
<1>3. ASSUME NEW m \in Address, Join(m), exited' = exited
      PROVE  SeatsMatchMembers'
  <2>1. members' = members \cup {m} /\ order' = Append(order, m)
    BY <1>3 DEF Join
  <2>2. Range(Append(order, m)) = Range(order) \cup {m}
    BY <1>1, OneMoreSeat
  <2>3. Seats' = Seats \cup {m}
    BY <2>1, <2>2 DEF Seats, Range
  <2>4. QED
    BY <1>3, <2>1, <2>3 DEF SeatsMatchMembers
<1>4. ASSUME NEW m, Leave(m)
      PROVE  SeatsMatchMembers'
  <2>1. members' = members \ {m} /\ order' = WithoutSeat(m) /\ exited' = exited
    BY <1>4 DEF Leave
  <2>2. {WithoutSeat(m)[i] : i \in DOMAIN WithoutSeat(m)} = Seats \ {m}
    BY <1>1, SeatTakenOut
  <2>3. Seats' = Seats \ {m}
    BY <2>1, <2>2 DEF Seats
  <2>4. QED
    BY <2>1, <2>3 DEF SeatsMatchMembers
<1>5. ASSUME NEW m \in Address, ApproveExit(m)
      PROVE  SeatsMatchMembers'
  <2>1. members' = members \ {m} /\ order' = order /\ exited' = exited \cup {m}
    BY <1>5 DEF ApproveExit
  <2>2. Seats' = Seats
    BY <2>1 DEF Seats
  <2>3. Seats' \subseteq members' \cup exited' /\ members' \subseteq members
    BY <2>1, <2>2 DEF SeatsMatchMembers
  <2>4. QED
    BY <2>2, <2>3 DEF SeatsMatchMembers
<1>6. CASE RoundStep
  <2>1. UNCHANGED memberVars
    <3>1. ASSUME NEW c \in Address, NEW t \in Token, NEW a \in Amount, Contribute(c, t, a)
          PROVE  UNCHANGED memberVars
      BY <3>1 DEF Contribute
    <3>2. ASSUME FinalizeRound PROVE UNCHANGED memberVars
      BY <3>2 DEF FinalizeRound
    <3>3. QED
      BY <1>6, <3>1, <3>2 DEF RoundStep, RequestSkip, CloseRound, PenaliseDefaulter
  <2>2. QED
    BY <1>2, <2>1 DEF memberVars, seatVars
<1>7. CASE MembershipStep
  <2>1. ASSUME NEW m \in Address, AddMember(m) \/ JoinWithInvite(m)
        PROVE  SeatsMatchMembers'
    BY <1>3, <2>1 DEF AddMember, JoinWithInvite
  <2>2. ASSUME NEW m, RemoveMember(m) \/ ExecuteMemberRemoval(m)
        PROVE  SeatsMatchMembers'
    BY <1>4, <2>2 DEF RemoveMember, ExecuteMemberRemoval
  <2>3. ASSUME \/ \E m : GenerateInvite(m) \/ RejectExit(m) \/ RequestEmergencyExit(m)
                         \/ ExecutePenaltyAppeal(m)
               \/ \E n : UpdateMaxMembers(n)
        PROVE  SeatsMatchMembers'
    <3>1. UNCHANGED seatVars
      BY <2>3 DEF GenerateInvite, RejectExit, RequestEmergencyExit, ExecutePenaltyAppeal,
         UpdateMaxMembers, memberVars, seatVars
    <3>2. QED
      BY <1>2, <3>1
  <2>4. Joiners \subseteq Address
    BY RoscaConstants
  <2>5. QED
    BY <1>5, <1>7, <2>1, <2>2, <2>3, <2>4 DEF MembershipStep, JoinOrLeaveStep, ProposalStep
<1>8. CASE SettingsStep
  <2>1. UNCHANGED seatVars
    BY <1>8 DEF SettingsStep, PauseGroup, ResumeGroup, SetMemberTier,
       SetReinvestPreference, UpdateFee, AddApprovedToken, RemoveApprovedToken,
       SetExchangeRate, SetTokenLimit, SetRewardDistParams, memberVars, seatVars
  <2>2. QED
    BY <1>2, <2>1
<1>9. CASE MoneyStep
  <2>1. UNCHANGED seatVars
    BY <1>9 DEF MoneyStep, ContributeToInsurance, DepositRewards, ClaimRewards,
       memberVars, seatVars
  <2>2. QED
    BY <1>2, <2>1
<1>10. CASE Tick \/ ExitRequestsLapse \/ InvitesLapse \/ UNCHANGED vars
  <2>1. UNCHANGED seatVars
    BY <1>10 DEF Tick, ExitRequestsLapse, InvitesLapse, vars, memberVars, seatVars
  <2>2. QED
    BY <1>2, <2>1
<1>11. QED
  BY <1>6, <1>7, <1>8, <1>9, <1>10 DEF Next

LEMMA InitSeats == Init => SeatsMatchMembers
<1>1. SUFFICES ASSUME Init PROVE SeatsMatchMembers
  OBVIOUS
<1>2. members = Founders /\ order = FirstOrder
  BY <1>1 DEF Init
<1>3. Seats = {FirstOrder[i] : i \in DOMAIN FirstOrder}
  BY <1>2 DEF Seats
<1>4. \A i \in DOMAIN FirstOrder : FirstOrder[i] \in Founders
  <2>1. FirstOrder \in Seq(Founders)
    BY RoscaConstants
  <2>2. DOMAIN FirstOrder = 1 .. Len(FirstOrder)
    BY <2>1
  <2>3. QED
    BY <2>1, <2>2, ElementOfSeq
<1>5. QED
  BY <1>2, <1>3, <1>4 DEF SeatsMatchMembers

(* Whatever members join, leave, are removed or exit, a seat of the payout  *)
(* order belongs to a member or to one who exited, and every member has one *)
(* if every founder had.                                                    *)
THEOREM SeatsFollowMembers == Spec => []SeatsMatchMembers
<1>1. Typed /\ SeatsMatchMembers /\ [Next]_vars => Typed' /\ SeatsMatchMembers'
  BY StepTyped, StepKeepsSeats
<1>2. QED
  BY <1>1, InitSeats, InitTyped, PTL DEF Spec

-----------------------------------------------------------------------------
(* Who is paid *)

PaidInGoodStanding ==
    history' # history =>
       LET r == history'[Len(history')].recipient
       IN  r \in members \ (suspended \cup exited) /\ <<r, round>> \notin skips

LEMMA CompletionPaysMember ==
    ASSUME Typed, SeatsMatchMembers, NEW payers, NEW bal, NEW part, NEW parts,
           CompleteRound(payers, bal, part, parts)
    PROVE  PaidInGoodStanding
<1> DEFINE r == Recipient
           x == IF Base \in approved THEN PotOf(bal, Base) ELSE 0
           entry == [recipient |-> r, amount |-> x]
<1>1. history' = Append(history, entry)
  BY DEF CompleteRound
<1>2. history \in Seq([recipient : Address, amount : Int])
  BY DEF Typed, FundsTyped
<1>3. r \in Seats /\ Eligible(r)
  <2>1. Turns # {} /\ order \in Seq(Address) /\ round \in Nat
    BY DEF CompleteRound, Typed, MembersTyped, RoundTyped, Rounds
  <2>2. QED
    BY <2>1, RecipientHasSeat
<1>4. entry.recipient = r
  OBVIOUS
<1> HIDE DEF r, entry
<1>5. history'[Len(history')] = entry
  <2>1. Len(history) \in Nat
    BY <1>2
  <2>2. QED
    BY <1>1, <1>2, <2>1
<1>6. r \in members \ (suspended \cup exited) /\ <<r, round>> \notin skips
  BY <1>3 DEF Eligible, Skipped, SeatsMatchMembers
<1>7. QED
  BY <1>4, <1>5, <1>6 DEF PaidInGoodStanding

LEMMA StepPaysMember ==
    ASSUME Typed, SeatsMatchMembers, [Next]_vars
    PROVE  PaidInGoodStanding
<1>1. CASE RoundStep
  <2>1. ASSUME NEW c \in Address, NEW t \in Token, NEW a \in Amount, Contribute(c, t, a)
        PROVE  PaidInGoodStanding
    <3> DEFINE bal == [balance EXCEPT ![t] = @ + Cost(t, a)]
               part == [participation EXCEPT ![c] = @ + 1]
               payers == paid \cup {c}
    <3>1. history' = history \/ CompleteRound(payers, bal, part, participations + 1)
      BY <2>1 DEF Contribute
    <3> HIDE DEF bal, part, payers
    <3>2. QED
      BY <3>1, CompletionPaysMember DEF PaidInGoodStanding
  <2>2. ASSUME FinalizeRound
        PROVE  PaidInGoodStanding
    BY <2>2, CompletionPaysMember DEF FinalizeRound
  <2>3. CASE /\ ~FinalizeRound
             /\ ~ \E c \in Address, t \in Token, a \in Amount : Contribute(c, t, a)
    BY <1>1, <2>3 DEF RoundStep, RequestSkip, CloseRound, PenaliseDefaulter,
       PaidInGoodStanding
  <2>4. QED
    BY <2>1, <2>2, <2>3
<1>2. CASE MembershipStep
  BY <1>2 DEF MembershipStep, JoinOrLeaveStep, ProposalStep, AddMember, GenerateInvite,
     JoinWithInvite, RemoveMember, Leave, RequestEmergencyExit, ApproveExit, RejectExit,
     ExecutePenaltyAppeal, ExecuteMemberRemoval, UpdateMaxMembers, fundVars,
     PaidInGoodStanding
<1>3. CASE SettingsStep
  BY <1>3 DEF SettingsStep, PauseGroup, ResumeGroup, SetMemberTier,
     SetReinvestPreference, UpdateFee, AddApprovedToken, RemoveApprovedToken,
     SetExchangeRate, SetTokenLimit, SetRewardDistParams, fundVars, PaidInGoodStanding
<1>4. CASE MoneyStep
  BY <1>4 DEF MoneyStep, ContributeToInsurance, DepositRewards, ClaimRewards,
     PaidInGoodStanding
<1>5. CASE Tick \/ ExitRequestsLapse \/ InvitesLapse \/ UNCHANGED vars
  BY <1>5 DEF Tick, ExitRequestsLapse, InvitesLapse, vars, fundVars, PaidInGoodStanding
<1>6. QED
  BY <1>1, <1>2, <1>3, <1>4, <1>5 DEF Next

(* The search for the recipient never ends at a seat whose holder has left, *)
(* exited, was suspended or skips, whatever order and rounds have become.   *)
THEOREM PayeesInGoodStanding == Spec => PayeeInGoodStanding
<1>1. Typed /\ SeatsMatchMembers /\ [Next]_vars => Typed' /\ SeatsMatchMembers'
  BY StepTyped, StepKeepsSeats
<1>2. Typed /\ SeatsMatchMembers /\ [Next]_vars => [PaidInGoodStanding]_vars
  BY StepPaysMember
<1>3. QED
  BY <1>1, <1>2, InitSeats, InitTyped, PTL
     DEF Spec, PayeeInGoodStanding, PaidInGoodStanding

-----------------------------------------------------------------------------
(* Who is marked as paid *)

markVars == <<paid, contributed, round>>

(* A payout starts the next round with what the recipient left in, and      *)
(* marks him exactly if that is all the round asks.                         *)
LEMMA CarriedIsMarked ==
    ASSUME Typed, NEW payers, NEW bal \in [Token -> Nat], NEW part, NEW parts,
           CompleteRound(payers, bal, part, parts), tier' = tier, NEW m \in Address
    PROVE  MarkedRight(m)'
<1> DEFINE r == Recipient
           kept == Reinvested(bal)
<1>1. /\ contributed' = [d \in Address |-> IF d = r THEN kept ELSE 0]
      /\ paid' = IF CarriesFull(r, kept) THEN {r} ELSE {}
  BY DEF CompleteRound
<1>2. kept \in Nat
  BY RoscaConstants, PayoutWithin DEF Typed
<1>3. Required(m)' = Required(m) /\ Required(m) \in Nat
  BY RequiredTyped DEF Required, Typed
<1> HIDE DEF r, kept
<1>4. CASE m = r
  <2>1. contributed'[m] = kept
    BY <1>1, <1>4
  <2>2. m \in paid' <=> CarriesFull(m, kept)
    BY <1>1, <1>4
  <2>3. CarriesFull(m, kept) <=> kept > 0 /\ kept >= Required(m)
    BY DEF CarriesFull
  <2>4. QED
    BY <1>3, <2>1, <2>2, <2>3 DEF MarkedRight
<1>5. CASE m # r
  <2>1. contributed'[m] = 0 /\ m \notin paid'
    BY <1>1, <1>5
  <2>2. QED
    BY <2>1 DEF MarkedRight
<1>6. QED
  BY <1>4, <1>5

(* What a contribution that does not complete the round does to its giver    *)
(* and to the others.                                                        *)
LEMMA ContributionMarks ==
    ASSUME Typed, NEW c \in Address, NEW t \in Token, NEW a \in Amount,
           NEW m \in Address, MarkedRight(m), tier' = tier,
           a > 0, c \notin paid, contributed[c] + a <= Required(c),
           contributed' = [contributed EXCEPT ![c] = contributed[c] + a],
           paid' = IF contributed[c] + a = Required(c) THEN paid \cup {c} ELSE paid
    PROVE  MarkedRight(m)'
<1>1. /\ contributed \in [Address -> Nat] /\ a \in Int
      /\ Required(c) \in Nat /\ Required(m)' = Required(m)
  BY RoscaConstants, RequiredTyped DEF Typed, RoundTyped, Required
<1> DEFINE total == contributed[c] + a
           asked == Required(c)
<1>2. total \in Nat /\ total > 0
  BY <1>1
<1>3. contributed'[c] = total
  BY <1>1
<1>4. total <= asked /\ asked \in Nat
  BY <1>1
<1>5. CASE m = c
  <2>1. m \in paid' <=> total = asked
    BY <1>5
  <2>2. contributed'[m] = total /\ Required(m)' = asked
    BY <1>1, <1>3, <1>5
  <2> HIDE DEF total, asked
  <2>3. total = asked <=> total > 0 /\ total >= asked
    BY <1>2, <1>4
  <2>4. QED
    BY <2>1, <2>2, <2>3 DEF MarkedRight
<1>6. CASE m # c
  <2>1. contributed'[m] = contributed[m] /\ (m \in paid' <=> m \in paid)
    BY <1>1, <1>6
  <2>2. QED
    BY <1>1, <2>1 DEF MarkedRight
<1>7. QED
  BY <1>5, <1>6

(* A new round marks everyone right, and a step that leaves a member's tier  *)
(* alone leaves him marked right.                                            *)
LEMMA StepMarks ==
    ASSUME Typed, [Next]_vars, NEW k \in Address,
           round' # round \/ (MarkedRight(k) /\ tier'[k] = tier[k])
    PROVE  MarkedRight(k)'
<1>1. ASSUME UNCHANGED markVars
      PROVE  MarkedRight(k)'
  <2>1. MarkedRight(k) /\ tier'[k] = tier[k]
    BY <1>1 DEF markVars
  <2>2. QED
    BY <1>1, <2>1 DEF MarkedRight, Required, markVars
<1>2. ASSUME NEW c \in Address, NEW t \in Token, NEW a \in Amount, Contribute(c, t, a)
      PROVE  MarkedRight(k)'
  <2> DEFINE cost == Cost(t, a)
             bal == [balance EXCEPT ![t] = @ + cost]
             part == [participation EXCEPT ![c] = @ + 1]
             payers == paid \cup {c}
             total == contributed[c] + a
  <2>1. tier' = tier
    BY <1>2 DEF Contribute, configVars
  <2>2. CASE CompleteRound(payers, bal, part, participations + 1)
    <3>1. cost \in Nat
      BY <1>2, CostTyped
    <3>2. bal \in [Token -> Nat]
      <4> HIDE DEF cost
      <4>1. QED
        BY <3>1 DEF Typed, FundsTyped
    <3> HIDE DEF bal, part, payers
    <3>3. QED
      BY <2>1, <2>2, <3>2, CarriedIsMarked
  <2>3. CASE ~CompleteRound(payers, bal, part, participations + 1)
    <3>1. /\ a > 0 /\ c \notin paid /\ total <= Required(c)
          /\ contributed' = [contributed EXCEPT ![c] = total]
          /\ paid' = IF total = Required(c) THEN payers ELSE paid
          /\ round' = round
      BY <1>2, <2>3 DEF Contribute
    <3>2. QED
      BY <2>1, <3>1, ContributionMarks
  <2>4. QED
    BY <2>2, <2>3
<1>3. ASSUME FinalizeRound
      PROVE  MarkedRight(k)'
  <2>1. /\ CompleteRound(paid, balance, participation, participations)
        /\ tier' = tier
    BY <1>3 DEF FinalizeRound, configVars
  <2>2. balance \in [Token -> Nat]
    BY DEF Typed, FundsTyped
  <2>3. QED
    BY <2>1, <2>2, CarriedIsMarked
<1>4. ASSUME CloseRound
      PROVE  MarkedRight(k)'
  <2>1. contributed' = [d \in Address |-> 0] /\ paid' = {}
    BY <1>4 DEF CloseRound
  <2>2. contributed'[k] = 0 /\ k \notin paid'
    BY <2>1
  <2>3. QED
    BY <2>2 DEF MarkedRight
<1>5. CASE RoundStep
  <2>1. ASSUME \/ \E m \in Skippers, r \in Rounds : RequestSkip(m, r)
               \/ \E m \in Address : PenaliseDefaulter(m)
        PROVE  MarkedRight(k)'
    <3>1. UNCHANGED markVars
      BY <2>1 DEF RequestSkip, PenaliseDefaulter, roundVars, configVars, markVars
    <3>2. QED
      BY <1>1, <3>1
  <2>2. QED
    BY <1>2, <1>3, <1>4, <1>5, <2>1 DEF RoundStep
<1>6. CASE MembershipStep
  <2>1. UNCHANGED markVars
    BY <1>6 DEF MembershipStep, JoinOrLeaveStep, ProposalStep, AddMember, GenerateInvite,
       JoinWithInvite, RemoveMember, Leave, RequestEmergencyExit, ApproveExit, RejectExit,
       ExecutePenaltyAppeal, ExecuteMemberRemoval, UpdateMaxMembers, roundVars,
       configVars, markVars
  <2>2. QED
    BY <1>1, <2>1
<1>7. CASE SettingsStep
  <2>1. UNCHANGED markVars
    BY <1>7 DEF SettingsStep, PauseGroup, ResumeGroup, SetMemberTier,
       SetReinvestPreference, UpdateFee, AddApprovedToken, RemoveApprovedToken,
       SetExchangeRate, SetTokenLimit, SetRewardDistParams, roundVars, configVars,
       markVars
  <2>2. QED
    BY <1>1, <2>1
<1>8. CASE MoneyStep
  <2>1. UNCHANGED markVars
    BY <1>8 DEF MoneyStep, ContributeToInsurance, DepositRewards, ClaimRewards,
       roundVars, configVars, markVars
  <2>2. QED
    BY <1>1, <2>1
<1>9. CASE Tick \/ ExitRequestsLapse \/ InvitesLapse \/ UNCHANGED vars
  <2>1. UNCHANGED markVars
    BY <1>9 DEF Tick, ExitRequestsLapse, InvitesLapse, vars, roundVars, configVars,
       markVars
  <2>2. QED
    BY <1>1, <2>1
<1>10. QED
  BY <1>5, <1>6, <1>7, <1>8, <1>9 DEF Next

(* Whatever tiers the admin sets and when: a round begins with every member  *)
(* marked right, what was carried into it included, and only a change of a   *)
(* member's own tier in the middle of a round can put his mark wrong.        *)
THEOREM OnlyOwnTierUnmarks == Spec => MarksHold
<1> DEFINE Step == \A m \in Address :
                      round' # round \/ (MarkedRight(m) /\ tier'[m] = tier[m])
                        => MarkedRight(m)'
<1>1. Typed /\ [Next]_vars => Typed'
  BY StepTyped
<1>2. Typed /\ [Next]_vars => [Step]_vars
  BY StepMarks
<1> HIDE DEF Step
<1>3. Spec => [][Step]_vars
  BY <1>1, <1>2, InitTyped, PTL DEF Spec
<1>4. QED
  BY <1>3 DEF Step, MarksHold

=============================================================================
