--------------------------- MODULE MCTokenRefresh --------------------------
(* A small instance of TokenRefresh. *)
EXTENDS TokenRefresh, TLC

CONSTANTS r1, r2, s1, j1, j2, j3, p1, p2, p3

\* Calls, pairs and pages are only compared.
Symmetry == Permutations(Requests) \union Permutations(Jtis) \union Permutations(Pages)
=============================================================================
