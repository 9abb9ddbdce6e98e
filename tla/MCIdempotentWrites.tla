------------------------- MODULE MCIdempotentWrites -------------------------
\* Small instances of IdempotentWrites for TLC.
EXTENDS IdempotentWrites

CONSTANTS a, b, c, order, refund

\* a and b are one write and its retry; c reuses the key for another body.
MCRequests == {a, b, c}
MCBodyOf == [r \in Requests |-> IF r = c THEN refund ELSE order]
MCKeyOf == [r \in Requests |-> CHOOSE k \in Keys : TRUE]
=============================================================================
