--------------------------- MODULE MCResetCleanup ---------------------------
(* Small instances of ResetCleanup. *)
EXTENDS ResetCleanup
=============================================================================
