--------------------------- MODULE MCGuardedSend ---------------------------
(* Small instances of GuardedSend. *)
EXTENDS GuardedSend

CONSTANTS w1, w2
=============================================================================
