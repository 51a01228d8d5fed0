-------------------------- MODULE MCContainment --------------------------
(* A small instance of Containment.  A behaviour is of one of two kinds: in *)
(* a plain one three objects are moved about and destructed, by init()      *)
(* bodies too, three deep, and nothing else happens; in the other ones      *)
(* every action is there, two deep, and the spare object takes no part.     *)
EXTENDS Containment

CONSTANT Spare

TakesPart(o) ==
    \/ env[o] # NoObject \/ inv[o] # {} \/ o \in destructed \cup enabled
    \/ \E i \in DOMAIN stack : o \in {stack[i].item, stack[i].dest}

MCInit == Init /\ (plain \/ ~TakesPart(Spare))
PlainStep ==
    \/ LookAround \/ Returns \/ Ends \/ \E c \in Pairs : Calls(c)
    \/ \E o \in Objects : Destruct(o) \/ Free(o) \/ \E p \in Objects : Move(o, p)
MCNext ==
    /\ IF plain THEN PlainStep ELSE Step /\ ~TakesPart(Spare)' /\ Len(stack') <= 2
    /\ UNCHANGED plain
MCSpec == MCInit /\ [][MCNext]_vars
==========================================================================
