----------------------- MODULE MCAhjoorRoscaGovernance -----------------------
(***************************************************************************)
(* A small instance of AhjoorRoscaGovernance for TLC: three members, and   *)
(* what they may propose.                                                  *)
(***************************************************************************)
EXTENDS AhjoorRoscaGovernance

CONSTANTS ann, bob, cid, usd

InOrder == <<ann, bob, cid>>
NoWeights == {}

Ask(kind, m, data) == [kind |-> kind, target |-> m, duration |-> 0, data |-> data]

(* A limit of two is too low until somebody has left. *)
Motions == {Ask("PenaltyAppeal", ann, NoData), Ask("MemberRemoval", cid, NoData),
            Ask("MaxMembersUpdate", ann, 2), Ask("RuleChange", ann, 60)}
=============================================================================
