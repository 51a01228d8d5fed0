----------------------------- MODULE MCShadows -----------------------------
(* A small instance of Shadows: four objects, of which the spare one takes  *)
(* no part in the behaviours where the mudlib's applies call shadow efuns.  *)
EXTENDS Shadows, TLC

CONSTANT Spare

Symmetry == Permutations(Objects \ {Spare})

TakesNoPart(o) ==
    /\ shadowing'[o] = NoObject /\ shadowedBy'[o] = NoObject /\ o \notin destructed' \cup freed'
    /\ \A i \in DOMAIN frames' : \A f \in {"self", "ob", "base", "top"} \cap DOMAIN frames'[i] : frames'[i][f] # o

MCNext == Next /\ (~quiet => TakesNoPart(Spare))
MCSpec == Init /\ [][MCNext]_vars
=============================================================================
