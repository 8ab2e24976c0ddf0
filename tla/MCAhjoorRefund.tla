--------------------------- MODULE MCAhjoorRefund ---------------------------
(***************************************************************************)
(* Small instances of AhjoorRefund for TLC: a merchant, two payments to    *)
(* him in one token, and tables of tiers the admin tries to set.           *)
(***************************************************************************)
EXTENDS AhjoorRefund

CONSTANTS ann, bob, cid, usd, first, second

Paid(x) ==
    [customer |-> ann, merchant |-> bob, amount |-> x, token |-> usd, createdAt |-> 1]

TwoPayments == [p \in {first, second} |-> Paid(IF p = first THEN 100 ELSE 50)]

NoTiers == <<>>
(* Full refunds at once, half of the payment a little later, then none. *)
Declining == <<[age |-> 0, bps |-> 10000], [age |-> 1, bps |-> 5000]>>
Unsorted == <<[age |-> 1, bps |-> 10000], [age |-> 0, bps |-> 10000]>>
TooHigh == <<[age |-> 1, bps |-> 10001]>>
Tables == {Declining, Unsorted, TooHigh}
=============================================================================
