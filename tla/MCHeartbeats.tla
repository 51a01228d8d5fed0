---------------------------- MODULE MCHeartbeats ----------------------------
(* Small instances of Heartbeats: an int of three bits, one object that     *)
(* takes commands and one that does not.                                    *)
EXTENDS Heartbeats, TLC

CONSTANTS a, b

MCGiverOf == (a :> a) @@ (b :> NoObject)
InRange   == {-1, 0, 1, 2, 3}
=============================================================================
