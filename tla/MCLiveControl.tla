--------------------------- MODULE MCLiveControl ---------------------------
(* Small instances of LiveControl. *)
EXTENDS LiveControl
=============================================================================
