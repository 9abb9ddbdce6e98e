----------------------------- MODULE MCWebhooks -----------------------------
\* Small instances of Webhooks for TLC.
EXTENDS Webhooks, TLC

\* For delivery one kind of event is as good as another.
MCConnected == [e \in Endpoints |-> {"connection.connected"}]

\* For emission a removal is queued the way a new connection is.
MCLifecycle == [e \in Endpoints |-> EventTypes \ {"connection.connected"}]

MCSymmetry == Permutations(Endpoints) \cup Permutations(Emitters)
=============================================================================
