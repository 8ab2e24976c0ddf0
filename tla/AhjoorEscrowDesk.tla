-------------------------- MODULE AhjoorEscrowDesk --------------------------
(***************************************************************************)
(* Two other ways into an escrow: templates, which anybody may publish and *)
(* any buyer may use, and the pool of arbiters, who are assigned in turn.  *)
(*                                                                         *)
(* An escrow opened here lives on in AhjoorEscrow beside the others.  It   *)
(* is one its create_escrow would open, except that a template's token is  *)
(* compared with the allowed ones when the template is written and not     *)
(* when it is used.                                                        *)
(***************************************************************************)
EXTENDS AhjoorEscrow

CONSTANTS
    Config,                 \* what authors ask for in a template
    Authors,                \* bound: those who publish templates
    Pooled,                 \* bound: those the admin puts into the pool
    Sellers,                \* bound: sellers named in these escrows
    Price,                  \* amounts of these escrows
    Named,                  \* bound: escrow_ids given to remove_arbiter
    MaxTemplates            \* bound: templates ever published

TemplateIds == 0 .. MaxTemplates - 1

ConfigType == [arbiter : Address, token : Token, duration : Nat]

ASSUME DeskConstants ==
    /\ Config \subseteq ConfigType
    /\ Authors \cup Pooled \cup Sellers \subseteq Address
    /\ Price \subseteq Int /\ Named \subseteq SUBSET Ids
    /\ MaxTemplates \in Nat

VARIABLES
    template,               \* DataKey::Template(id), for id < nextTemplate
    nextTemplate,           \* DataKey::TemplateCounter
    pool,                   \* DataKey::ArbiterPool
    nextArbiter,            \* DataKey::NextArbiterIndex
    replace,                \* escrows with DataKey::ArbiterNeedsReplacement
    turns                   \* history: assignments since the pool last changed

templateVars == <<template, nextTemplate>>
poolVars == <<pool, nextArbiter, replace, turns>>
deskVars == <<templateVars, poolVars>>

TemplateType == [author : Address, config : ConfigType, active : BOOLEAN]

(* What an escrow for one seller, without renewal, window or metadata, asks. *)
Plain(s, arb, amt, tok) ==
    [sellers |-> <<[to |-> s, bps |-> BasisPoints]>>, arbiter |-> arb,
     amount |-> amt, token |-> tok, autoRenew |-> FALSE, renewalCount |-> 0,
     window |-> 0]

-----------------------------------------------------------------------------
(* Templates.  Writing one is not held back by a pause; using one is. *)

AcceptableInstant(cfg) ==                   \* mutant: a duration of zero passes
    cfg.token \in allowed

AcceptableConfig(cfg) ==
    /\ cfg.token \in allowed
    /\ cfg.duration # 0

CreateEscrowTemplate(c, cfg) ==
    /\ AcceptableConfig(cfg)
    /\ nextTemplate < MaxTemplates
    /\ template' = [template EXCEPT ![nextTemplate] =
                       [author |-> c, config |-> cfg, active |-> TRUE]]
    /\ nextTemplate' = nextTemplate + 1
    /\ UNCHANGED <<vars, poolVars>>

UpdateEscrowTemplate(c, i, cfg) ==
    /\ i < nextTemplate
    /\ template[i].author = c
    /\ template[i].active
    /\ AcceptableConfig(cfg)
    /\ template' = [template EXCEPT ![i].config = cfg]
    /\ UNCHANGED <<vars, nextTemplate, poolVars>>

DeactivateEscrowTemplate(c, i) ==
    /\ i < nextTemplate
    /\ template[i].author = c
    /\ template[i].active
    /\ template' = [template EXCEPT ![i].active = FALSE]
    /\ UNCHANGED <<vars, nextTemplate, poolVars>>

(* The template is read as it is now; its token may have been disallowed     *)
(* since it was written.                                                     *)
CreateEscrowFromTemplate(b, s, i, amt) ==
    LET cfg == template[i].config
    IN  /\ ~paused
        /\ i < nextTemplate
        /\ template[i].active
        /\ amt > 0
        /\ OpenEscrow(b, Plain(s, cfg.arbiter, amt, cfg.token), now + cfg.duration)
        /\ UNCHANGED deskVars

-----------------------------------------------------------------------------
(* The pool of arbiters *)

InPool(x) == \E i \in DOMAIN pool : pool[i] = x

(* Who is next is a position in the pool, not a person. *)
AddArbiter(a, x) ==
    /\ IsAdmin(a)
    /\ ~InPool(x)
    /\ pool' = Append(pool, x)
    /\ turns' = [y \in Address |-> 0]
    /\ UNCHANGED <<vars, templateVars, nextArbiter, replace>>

(* The code filters the arbiter out of the list, who is in it once.          *)
WithoutPlace(k) ==
    [i \in 1 .. Len(pool) - 1 |-> IF i < k THEN pool[i] ELSE pool[i + 1]]

(* Flagged are those of the escrows the admin names that x decides and that  *)
(* are open; no other call reads or clears the flag.                         *)
RemoveArbiter(a, x, named) ==
    /\ IsAdmin(a)
    /\ \E k \in DOMAIN pool :
          /\ pool[k] = x
          /\ pool' = WithoutPlace(k)
    /\ nextArbiter' = IF nextArbiter >= Len(pool') THEN 0 ELSE nextArbiter
    /\ replace' = replace \cup {e \in named : Arbiter(e) = x /\ IsOpen(e)}
    /\ turns' = [y \in Address |-> 0]
    /\ UNCHANGED <<vars, templateVars>>

AfterNext(i) == (i + 2) % Len(pool)         \* mutant: off by one

After(i) == (i + 1) % Len(pool)

CreateEscrowWithPoolArbiter(b, s, amt, tok, d) ==
    /\ ~paused
    /\ amt > 0
    /\ d > now
    /\ tok \in allowed
    /\ pool # <<>>
    /\ LET arb == pool[(nextArbiter % Len(pool)) + 1]
       IN  /\ OpenEscrow(b, Plain(s, arb, amt, tok), d)
           /\ turns' = [turns EXCEPT ![arb] = @ + 1]
    /\ nextArbiter' = After(nextArbiter)
    /\ UNCHANGED <<templateVars, pool, replace>>

-----------------------------------------------------------------------------
DeskInit ==
    /\ Init
    /\ template = [i \in TemplateIds |->
          [author |-> CHOOSE a \in Address : TRUE, active |-> FALSE,
           config |-> [arbiter |-> CHOOSE a \in Address : TRUE,
                       token |-> CHOOSE t \in Token : TRUE, duration |-> 0]]]
    /\ nextTemplate = 0
    /\ pool = <<>> /\ nextArbiter = 0 /\ replace = {}
    /\ turns = [a \in Address |-> 0]

TemplateStep ==
    \/ \E c \in Authors, cfg \in Config : CreateEscrowTemplate(c, cfg)
    \/ \E c \in Authors, i \in TemplateIds :
          \/ \E cfg \in Config : UpdateEscrowTemplate(c, i, cfg)
          \/ DeactivateEscrowTemplate(c, i)
    \/ \E b \in Buyers, s \in Sellers, i \in TemplateIds, amt \in Price :
          CreateEscrowFromTemplate(b, s, i, amt)

PoolStep ==
    \/ \E a \in Admins, x \in Pooled :
          \/ AddArbiter(a, x)
          \/ \E named \in Named : RemoveArbiter(a, x, named)
    \/ \E b \in Buyers, s \in Sellers, amt \in Price, tok \in Token, d \in Deadline :
          CreateEscrowWithPoolArbiter(b, s, amt, tok, d)

DeskNext == (Next /\ UNCHANGED deskVars) \/ TemplateStep \/ PoolStep

DeskSpec == DeskInit /\ [][DeskNext]_<<vars, deskVars>>

-----------------------------------------------------------------------------
(* What holds *)

(* However an escrow came about, directly, by renewal, from a template that  *)
(* was rewritten many times or through the pool, and however its deadline    *)
(* was extended, the deadline is after its creation: no escrow can be taken  *)
(* back at once, and a renewal, which asks for this, never fails on it.      *)
OpenForAWhile ==
    \A e \in Ids : Exists(e) => escrow[e].deadline > escrow[e].createdAt

(* As long as the pool stays as it is its arbiters are assigned evenly, from *)
(* whatever position additions and removals left the index at; nobody is in  *)
(* the pool twice.                                                           *)
TakeTurns ==
    \A i, j \in DOMAIN pool :
        /\ i # j => pool[i] # pool[j]
        /\ turns[pool[i]] <= turns[pool[j]] + 1

=============================================================================
