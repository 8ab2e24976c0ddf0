------------------------------- MODULE Custody -------------------------------
(***************************************************************************)
(* What every fund-holding contract of the repository promises, stated     *)
(* without any of its roles, deadlines or disputes: a deposit is opened    *)
(* once, money leaves it in parts that never add up to more than was       *)
(* deposited, and when it is closed everything deposited has been paid     *)
(* out and nothing about it ever changes again.                            *)
(*                                                                         *)
(* Several deposits may move in one transaction (a batch, or a release     *)
(* that renews itself), so a step of the specification is a step of every  *)
(* deposit, most of which stay as they are.                                *)
(***************************************************************************)
EXTENDS Integers

CONSTANT Deposit            \* identifiers of deposits

VARIABLES
    deposited,              \* deposited[d]: what was taken in for d
    paid,                   \* paid[d]: what has left the contract for d
    closed                  \* closed[d]: d has reached its final state

cvars == <<deposited, paid, closed>>

Init ==
    /\ deposited = [d \in Deposit |-> 0]
    /\ paid = [d \in Deposit |-> 0]
    /\ closed = [d \in Deposit |-> FALSE]

Stay(d) ==
    /\ deposited'[d] = deposited[d]
    /\ paid'[d] = paid[d]
    /\ closed'[d] = closed[d]

Open(d) ==
    /\ deposited[d] = 0
    /\ deposited'[d] > 0
    /\ paid'[d] = 0
    /\ ~closed[d] /\ ~closed'[d]

PayPart(d) ==
    /\ ~closed[d] /\ ~closed'[d]
    /\ deposited'[d] = deposited[d]
    /\ paid'[d] > paid[d]
    /\ paid'[d] < deposited[d]

Close(d) ==
    /\ ~closed[d] /\ closed'[d]
    /\ deposited[d] > 0
    /\ deposited'[d] = deposited[d]
    /\ paid'[d] = deposited[d]

Next ==
    /\ deposited' \in [Deposit -> Nat]
    /\ paid' \in [Deposit -> Nat]
    /\ closed' \in [Deposit -> BOOLEAN]
    /\ \A d \in Deposit : Stay(d) \/ Open(d) \/ PayPart(d) \/ Close(d)

Spec == Init /\ [][Next]_cvars
==============================================================================
