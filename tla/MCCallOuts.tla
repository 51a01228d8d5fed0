----------------------------- MODULE MCCallOuts -----------------------------
(* Small instances of CallOuts. *)
EXTENDS CallOuts
=============================================================================
