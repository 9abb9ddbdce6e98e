----------------------------- MODULE MCConsole -----------------------------
(* TLC instance of Console: two actions under way at a time.                  *)
EXTENDS Console, TLC

CONSTANTS u1, u2, k1, k2, k3, a1, a2

Symmetry == Permutations({u1, u2}) \cup Permutations({k1, k2, k3}) \cup Permutations({a1, a2})
=============================================================================
