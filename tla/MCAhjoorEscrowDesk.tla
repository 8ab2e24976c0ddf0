------------------------- MODULE MCAhjoorEscrowDesk -------------------------
(***************************************************************************)
(* A small instance of AhjoorEscrowDesk for TLC: two configurations, of    *)
(* which one must be refused, two arbiters, and an escrow that renews      *)
(* itself.                                                                 *)
(***************************************************************************)
EXTENDS AhjoorEscrowDesk

CONSTANTS ann, bob, cid, usd

(* One renewal: the second successor would be one too many. *)
Plans ==
    {[sellers |-> <<[to |-> bob, bps |-> 10000]>>, arbiter |-> cid, amount |-> 2,
      token |-> usd, autoRenew |-> TRUE, renewalCount |-> 1, window |-> 0]}

(* Only the second is accepted. *)
Configs ==
    {[arbiter |-> cid, token |-> usd, duration |-> 0],
     [arbiter |-> bob, token |-> usd, duration |-> 1]}
=============================================================================
