--------------------------- MODULE MCAhjoorRosca ---------------------------
(***************************************************************************)
(* Small instances of AhjoorRosca for TLC: two founders, one more person   *)
(* who may join, and the order in which the founders are paid.             *)
(***************************************************************************)
EXTENDS AhjoorRosca

CONSTANTS ann, bob, cid, usd, eur

InOrder == <<ann, bob>>

NoWeights == {}
BobOnly == {[m \in Address |-> IF m = bob THEN 3 ELSE 0]}
============================================================================
