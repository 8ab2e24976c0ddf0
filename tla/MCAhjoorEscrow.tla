--------------------------- MODULE MCAhjoorEscrow ---------------------------
(***************************************************************************)
(* Small instances of AhjoorEscrow for TLC: the people, and the escrows    *)
(* they may ask for in each run.                                           *)
(***************************************************************************)
EXTENDS AhjoorEscrow

CONSTANTS ann, bob, cid, dan, usd, eur

Plan(list, amt) ==
    [sellers |-> list, arbiter |-> cid, amount |-> amt, token |-> usd,
     autoRenew |-> FALSE, renewalCount |-> 0, window |-> 0]

One == <<[to |-> bob, bps |-> 10000]>>
Two == <<[to |-> bob, bps |-> 3333], [to |-> ann, bps |-> 6667]>>
Short == <<[to |-> bob, bps |-> 3333], [to |-> ann, bps |-> 6666]>>

(* An escrow for one seller, one whose shares leave a remainder, one the    *)
(* contract must refuse because its shares do not add up.                   *)
SettlementTerms ==
    {Plan(One, 100), [Plan(Two, 50) EXCEPT !.token = eur], Plan(Short, 50)}

(* An escrow that wants to renew itself: with room for one escrow only it    *)
(* cannot be released unless its buyer gives the renewal up.                *)
InactivityTerms ==
    {[Plan(One, 2) EXCEPT !.window = 2, !.autoRenew = TRUE, !.renewalCount = 1]}

(* The clock does not stop at MaxTime: from there on it is the times on      *)
(* record that move, one nearer to the past with every tick.  The calls      *)
(* compare times with now, with one another, or with a window no longer than *)
(* MaxTime, so what is longer ago than that may be taken for time 0.  A      *)
(* deadline can thus be moved as often as anybody likes.  (A renewal looks   *)
(* at how long its escrow was open; with room for one escrow there is none.) *)
Earlier(time) == IF time = 0 THEN 0 ELSE time - 1

Elapse ==
    /\ now = MaxTime
    /\ escrow' = [e \in Ids |-> [escrow[e] EXCEPT !.deadline = Earlier(@),
                                                 !.createdAt = Earlier(@)]]
    /\ proposal' = [e \in Ids |-> [proposal[e] EXCEPT !.deadline = Earlier(@),
                                                     !.at = Earlier(@)]]
    /\ lastBuyerAction' = [e \in Ids |-> Earlier(lastBuyerAction[e])]
    /\ UNCHANGED <<now, configVars, nextId, dispute, evidence, fundVars, renewalVars>>

(* The parties who can end a stalemate keep asking: the buyer of an expired *)
(* escrow for a refund, the arbiter of a dispute for a decision, the admin  *)
(* for the end of a pause; and the ledger clock advances.                   *)
Persistence ==
    /\ WF_vars(Tick \/ Elapse)
    /\ WF_vars(\E a \in Address : ResumeContract(a))
    /\ \A e \in Ids : SF_vars(AutoReleaseExpired(e))
    /\ \A e \in Ids : SF_vars(\E c \in Address, s \in BOOLEAN :
                                ResolveDispute(c, e, s))

LiveSpec == Init /\ [][Next \/ Elapse]_vars /\ Persistence

Extended(e) == \E c \in Address : AcceptDeadlineExtension(c, e)

(* Every escrow is settled in the end, whatever partial releases, disputes,  *)
(* hand-overs and pauses come in between and however far its deadline was    *)
(* moved, unless it is moved again and again for ever: nothing in the code   *)
(* caps extensions.                                                          *)
EveryEscrowSettles ==
    \A e \in Ids : (Exists(e) ~> IsTerminal(e)) \/ []<><<Extended(e)>>_vars
==============================================================================
