--------------------------- MODULE MCAuthSession ---------------------------
(* A small instance of AuthSession. *)
EXTENDS AuthSession, TLC

CONSTANTS r1, r2, s1, j1, j2, j3

\* Requests, sessions and jtis are only compared. Session and jti names are
\* handed out in any order.
Symmetry == Permutations(Requests) \union Permutations(Sids) \union Permutations(Jtis)
=============================================================================
