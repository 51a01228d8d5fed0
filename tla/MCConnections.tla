--------------------------- MODULE MCConnections ---------------------------
(* A small instance of Connections, with b as a shadow of a.  Where LPC     *)
(* code is orderly, one connection at a time is accepted; where it does     *)
(* anything, there are two, and the spare object takes no part.             *)
EXTENDS Connections, TLC

CONSTANTS a, b, Spare

Together == [o \in Objects |-> IF o = a THEN {a, b} ELSE {o}]

TakesNoPart(o) ==
    /\ \A c \in Conns : o \notin {bound'[c], pending'[c]}
    /\ o \notin destructed' /\ snooping'[o] = NoObject /\ snoopedBy'[o] = NoObject

MCNext ==
    /\ Next
    /\ IF orderly THEN phase = "accept" /\ phase' = "connect" => listed = {} ELSE TakesNoPart(Spare)

(* Whichever kind a behaviour is of, a step of the server stays possible.   *)
MCFairSpec == Init /\ [][MCNext]_vars /\ Fairness
=============================================================================
