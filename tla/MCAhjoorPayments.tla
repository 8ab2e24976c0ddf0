-------------------------- MODULE MCAhjoorPayments --------------------------
(***************************************************************************)
(* Small instances of AhjoorPayments for TLC: customers, a merchant, what  *)
(* they pay and subscribe to, and the lists and tables the admin uses.     *)
(***************************************************************************)
EXTENDS AhjoorPayments

CONSTANTS ann, bob, cid, usd, eur, k

Pay(x) == [merchant |-> bob, amount |-> x, token |-> usd]
OneRequest == {Pay(100)}
TwoRequests == {Pay(100), Pay(0)}

(* Two recipients whose shares of 99 leave a remainder, and a list that does *)
(* not add up; a batch pays the merchant alone.                             *)
NoSplit == {<<>>}
Splits == {<<[to |-> ann, bps |-> 3333], [to |-> cid, bps |-> 6667]>>,
           <<[to |-> cid, bps |-> 9999]>>}

NoLists == {}
Lists == {<<0>>, <<0, 1>>, <<0, 0>>}

(* Two units of usd for one of eur, and no answer. *)
Prices == {5000000, None}

NoTiers == {}
(* A second payment within the window reaches the second tier. *)
Tiers == {<<[min |-> 150, bps |-> 200]>>,
          <<[min |-> 150, bps |-> 200], [min |-> 0, bps |-> 300]>>}

OnePerTwo == [max |-> 1, window |-> 2]
NoLimit == [max |-> 100, window |-> 1]
NoLimits == {}
OtherLimits == {[max |-> 1, window |-> 3], [max |-> 0, window |-> 1]}

NoPlans == {}
Agreed(i, n) ==
    [subscriber |-> ann, merchant |-> bob, amount |-> 1, token |-> usd, interval |-> i,
     max |-> n]
Plans == {Agreed(2, 0), Agreed(2, 2), Agreed(0, 2)}
=============================================================================
