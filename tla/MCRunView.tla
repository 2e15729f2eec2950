----------------------------- MODULE MCRunView -----------------------------
(* Small instances of RunView. *)
EXTENDS RunView
=============================================================================
