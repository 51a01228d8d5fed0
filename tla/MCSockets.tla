---------------------------- MODULE MCSockets ----------------------------
(* Sockets for TLC: the two objects are interchangeable.  A socket that     *)
(* accepts more than one unit is the only one that accepts any.  Once any   *)
(* is accepted no releases nest, one object stays alive, and none is        *)
(* destructed within a release.  Either dead code gets sockets or one       *)
(* object is freed, while nothing was written and no connect() is waiting,  *)
(* and no releases nest in the second case.                                 *)
EXTENDS Sockets, FiniteSets, TLC

MCSymmetry == Permutations(Objects)

Wrote(n) == {h \in Handles : accepted[h] >= n}
MCNext ==
    /\ Next
    /\ Wrote(2)' # {} => Cardinality(Wrote(1)') = 1
    /\ Len(releases') > 1 => Wrote(1)' = {} /\ freed' = {}
    /\ Wrote(1)' # {} => destructed' # Objects /\ (destructed' = {} \/ releases' = <<>>)
    /\ late' # {} \/ freed' # {} => Wrote(1)' = {} /\ blocked' = {}
    /\ late' = {} \/ freed' = {}
    /\ Cardinality(freed') <= 1
MCSpec == Init /\ [][MCNext]_vars
=============================================================================
