------------------------------ MODULE MCLimits ------------------------------
(* TLC instance of Limits: a request on each of two instances, the clock of   *)
(* the second one tick ahead; a client's budget of two, a key's of one.       *)
EXTENDS Limits, TLC

CONSTANTS i1, i2, r1, r2, k1, client

MCHome == r1 :> i1 @@ r2 :> i2
MCSkew == i1 :> 0 @@ i2 :> 1
MCLimit == client :> 2 @@ k1 :> 1
=============================================================================
