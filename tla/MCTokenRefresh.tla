--------------------------- MODULE MCTokenRefresh ---------------------------
(* TLC instances of TokenRefresh.  Two callers on one instance share a run;  *)
(* the caller on the other instance contends with them for the lock.         *)
EXTENDS TokenRefresh, TLC

CONSTANTS i1, i2, a1, a2, b1

MCHome == a1 :> i1 @@ a2 :> i1 @@ b1 :> i2
MCHomeTwo == a1 :> i1 @@ b1 :> i2
=============================================================================
