--------------------------- MODULE CallOutContract ---------------------------
(***************************************************************************)
(* What call_out() promises an LPC programmer, with no sweep, no vector    *)
(* and no object table: every handle has one fate.  A call is made with a  *)
(* deadline; until the driver commits to it, it can be cancelled; a        *)
(* committed call is run once or dropped, never before its deadline and    *)
(* never ahead of an earlier-made call whose deadline is no later.         *)
(***************************************************************************)
EXTENDS Integers

CONSTANT MaxHandle     \* bound: handles the model may issue

VARIABLES fate,        \* [1..MaxHandle -> Fates]
          deadline,    \* [1..MaxHandle -> Int], 0 unless the call is outstanding
          clock        \* the current time

contractVars == <<fate, deadline, clock>>

Handles == 1..MaxHandle
Fates   == {"unused", "pending", "committed", "fired", "cancelled", "dropped"}

Outstanding(h) == fate[h] \in {"pending", "committed"}

ContractInit ==
    /\ fate = [h \in Handles |-> "unused"]
    /\ deadline = [h \in Handles |-> 0]
    /\ clock = 0

Make(h) ==
    /\ fate[h] = "unused"
    /\ \A g \in Handles : g > h => fate[g] = "unused"
    /\ fate' = [fate EXCEPT ![h] = "pending"]
    /\ deadline'[h] >= clock
    /\ deadline' = [deadline EXCEPT ![h] = deadline'[h]]
    /\ UNCHANGED clock

(* Cancelling reaches pending calls only. *)
Cancel(S) ==
    /\ \A h \in S : fate[h] = "pending"
    /\ fate' = [h \in Handles |-> IF h \in S THEN "cancelled" ELSE fate[h]]
    /\ deadline' = [h \in Handles |-> IF h \in S THEN 0 ELSE deadline[h]]
    /\ UNCHANGED clock

Commit(S) ==
    /\ \A h \in S : fate[h] = "pending" /\ deadline[h] <= clock
    /\ fate' = [h \in Handles |-> IF h \in S THEN "committed" ELSE fate[h]]
    /\ UNCHANGED <<deadline, clock>>

Run(h) ==
    /\ fate[h] = "committed"
    /\ \A g \in Handles : g < h /\ Outstanding(g) => deadline[g] > deadline[h]
    /\ fate' = [fate EXCEPT ![h] = "fired"]
    /\ deadline' = [deadline EXCEPT ![h] = 0]
    /\ UNCHANGED clock

Drop(h) ==
    /\ fate[h] = "committed"
    /\ fate' = [fate EXCEPT ![h] = "dropped"]
    /\ deadline' = [deadline EXCEPT ![h] = 0]
    /\ UNCHANGED clock

Pass ==
    /\ clock' > clock
    /\ UNCHANGED <<fate, deadline>>

ContractNext ==
    \/ \E h \in Handles : Make(h) \/ Run(h) \/ Drop(h)
    \/ \E S \in SUBSET Handles : Cancel(S) \/ Commit(S)
    \/ Pass

ContractSpec == ContractInit /\ [][ContractNext]_contractVars
==============================================================================
