------------------------------ MODULE Delivery ------------------------------
(***************************************************************************)
(* What the library promises about what one side asks of the other, a      *)
(* request of the application or a publication of the broker: it is        *)
(* refused or taken once; what is taken is owed until the other side has   *)
(* acted on it, and is laid aside only then; some are acted on at most     *)
(* once; what is given up, at the end of a session, is not acted on        *)
(* afterwards.  How the promise is kept, over connections that break and   *)
(* processes that die, is not visible here.                                *)
(*                                                                         *)
(* Outbound and Inbound implement this with their persistence stores.      *)
(***************************************************************************)
EXTENDS Naturals

CONSTANTS
    Requests,  \* what is asked for, each at most once
    Once       \* those to be acted on at most once

VARIABLES
    stage,     \* stage[m]: "new", "refused", "owed", "settled" or "given up"
    acted      \* acted[m]: how often m was acted on, 2 for more than once

vars == <<stage, acted>>

Init ==
    /\ stage = [m \in Requests |-> "new"]
    /\ acted = [m \in Requests |-> 0]

Refuse(m) ==
    /\ stage[m] = "new"
    /\ stage' = [stage EXCEPT ![m] = "refused"]
    /\ UNCHANGED acted

Take(m) ==
    /\ stage[m] = "new"
    /\ stage' = [stage EXCEPT ![m] = "owed"]
    /\ UNCHANGED acted

\* A repeat may still arrive when the first is laid aside; what is acted on may be laid
\* aside with it.
Act(m) ==
    /\ stage[m] \in {"owed", "settled"}
    /\ m \in Once => acted[m] = 0
    /\ acted' = [acted EXCEPT ![m] = IF @ = 0 THEN 1 ELSE 2]
    /\ stage' \in {stage, [stage EXCEPT ![m] = "settled"]}

Settle(m) ==
    /\ stage[m] = "owed" /\ acted[m] > 0
    /\ stage' = [stage EXCEPT ![m] = "settled"]
    /\ UNCHANGED acted

\* A session ends with all that belongs to it.
GiveUp(S) ==
    /\ stage' = [m \in Requests |-> IF m \in S THEN "given up" ELSE stage[m]]
    /\ UNCHANGED acted

Next ==
    \/ \E m \in Requests : Refuse(m) \/ Take(m) \/ Act(m) \/ Settle(m)
    \/ \E S \in SUBSET {m \in Requests : stage[m] # "refused"} : GiveUp(S)

Spec == Init /\ [][Next]_vars
=============================================================================
