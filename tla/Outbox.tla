------------------------------- MODULE Outbox -------------------------------
(***************************************************************************)
(* What the outbox of one client promises its subscribers: an event is     *)
(* queued at once for those that are to hear of it, one row each; a row is *)
(* posted at least once, settles as delivered only if it was received and  *)
(* as failed only if all attempts were made; and a removed endpoint takes  *)
(* its rows with it and gets no more.                                      *)
(*                                                                         *)
(* Batches, due times, delivery runs, counters and emissions in progress   *)
(* are Webhooks, which implements this: with Reopens, since its runs know  *)
(* nothing of each other, and without as long as they stay apart.          *)
(***************************************************************************)
EXTENDS Naturals, Functions

CONSTANTS Endpoints, EventTypes, Connections,
          Subscribes,     \* the event types an endpoint asked for
          Deliveries,     \* the rows there may be
          MaxAttempts,
          Reopens,        \* whether a row that has settled may be taken up again
          None

VARIABLES told,           \* per row: which endpoint it tells of what
          fate,           \* per row: what became of it
          tries,          \* per row: the times it was posted, up to MaxAttempts
          received,       \* rows their endpoint accepted
          removed         \* endpoints that are gone for good
outbox == <<told, fate, tries, received, removed>>

Init ==
    /\ told = [d \in Deliveries |-> None]
    /\ fate = [d \in Deliveries |-> "none"]
    /\ tries = [d \in Deliveries |-> 0]
    /\ received = {}
    /\ removed = {}

Exists(d) == fate[d] \in {"PENDING", "DELIVERED", "FAILED"}

\* The row is still to be delivered, or is taken for one that is.
Open(d) == IF Reopens THEN Exists(d) ELSE fate[d] = "PENDING"

\* An event is queued: each of T, subscribers that are still there, gets a row
\* of its own, all in one step.
Enqueue ==
    /\ \E rows \in SUBSET {d \in Deliveries : fate[d] = "none"} :
         /\ fate' = [d \in Deliveries |-> IF d \in rows THEN "PENDING" ELSE fate[d]]
         /\ \E T \in SUBSET (Endpoints \ removed), event \in EventTypes, c \in Connections :
              /\ \A e \in T : event \in Subscribes[e]
              /\ \E to \in Bijection(rows, T) :
                   told' = [d \in Deliveries |->
                       IF d \in rows
                       THEN [endpoint |-> to[d], event |-> event, connection |-> c]
                       ELSE told[d]]
    /\ UNCHANGED <<tries, received, removed>>

\* A row is posted, and its endpoint accepts it or not.  A run that has read a
\* row posts it also when the row was removed meanwhile.
Send(d) ==
    /\ Open(d) \/ fate[d] = "deleted"
    /\ tries' = [tries EXCEPT ![d] = IF @ < MaxAttempts THEN @ + 1 ELSE @]
    /\ received' \in {received, received \cup {d}}
    /\ UNCHANGED <<told, fate, removed>>

Settle(d, s) ==
    /\ Open(d)
    /\ fate' = [fate EXCEPT ![d] = s]
    /\ UNCHANGED <<told, tries, received, removed>>

Deliver(d) == d \in received /\ Settle(d, "DELIVERED")

GiveUp(d) == tries[d] >= MaxAttempts /\ Settle(d, "FAILED")

TryAgain(d) == Settle(d, "PENDING")

Remove(e) ==
    LET gone == {d \in Deliveries : Exists(d) /\ told[d].endpoint = e}
    IN  /\ e \notin removed
        /\ removed' = removed \cup {e}
        /\ fate' = [d \in Deliveries |-> IF d \in gone THEN "deleted" ELSE fate[d]]
        /\ tries' = [d \in Deliveries |-> IF d \in gone THEN 0 ELSE tries[d]]
        /\ received' = received \ gone
        /\ UNCHANGED told

Next ==
    \/ Enqueue
    \/ \E d \in Deliveries : Send(d) \/ Deliver(d) \/ GiveUp(d) \/ TryAgain(d)
    \/ \E e \in Endpoints : Remove(e)

Spec == Init /\ [][Next]_outbox
=============================================================================
