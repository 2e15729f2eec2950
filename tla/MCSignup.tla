------------------------------ MODULE MCSignup ------------------------------
(* Small instances of Signup. *)
EXTENDS Signup
=============================================================================
