------------------------------ MODULE MCConnect ------------------------------
(* TLC instance of Connect: requests are interchangeable, and so are flows.  *)
EXTENDS Connect, TLC

CONSTANTS r1, r2, s1, x1, x2, oauth, key

RequestSymmetry == Permutations({r1, r2}) \cup Permutations({x1, x2})
=============================================================================
