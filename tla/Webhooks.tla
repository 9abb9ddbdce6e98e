------------------------------ MODULE Webhooks ------------------------------
(***************************************************************************)
(* The webhook outbox of one client (lib/webhooks.ts).                     *)
(*                                                                         *)
(* Emitters are the requests that emit a connection event: a failing       *)
(* renewal, an OAuth callback, a removal.  An emission reads the endpoints,*)
(* for connection.expired also what they were sent within the hour, and    *)
(* then inserts one delivery row per endpoint.  Runs are executions of     *)
(* deliverPending, started by the scheduler and by emissions, on any       *)
(* number of processes: each reads a batch of due rows and then posts and  *)
(* updates them one after the other, with nothing that keeps two runs off  *)
(* the same row.                                                           *)
(***************************************************************************)
EXTENDS Naturals, FiniteSets, Functions

CONSTANTS Endpoints,      \* webhook endpoints of the client
          Connections,    \* linked accounts of the client
          Emitters,       \* requests that may emit at the same time
          Runs,           \* executions of deliverPending at the same time
          Subscribes,     \* the event types an endpoint asked for
          MaxAttempts,    \* MAX_ATTEMPTS
          Limit,          \* rows a run reads
          MaxDeliveries,  \* bound: rows ever inserted
          MaxFaults,      \* bound: crashes and failed writes
          None

EventTypes == {"connection.connected", "connection.expired", "connection.disconnected"}

Deliveries == 1..MaxDeliveries

\* What a row says, to which endpoint, and which emitter inserted it when.
About == [endpoint : Endpoints, event : EventTypes, connection : Connections,
          createdAt : Nat, by : Emitters]

\* A row as a run read it.
Item == [id : Deliveries, attempts : 0..(MaxAttempts - 1)]

ASSUME ConstantsAssumption ==
    /\ IsFiniteSet(Endpoints)
    /\ Subscribes \in [Endpoints -> SUBSET EventTypes]
    /\ MaxAttempts \in Nat \ {0}
    /\ Limit \in Nat \ {0}
    /\ MaxDeliveries \in Nat
    /\ MaxFaults \in Nat
    /\ None \notin About \cup Item

VARIABLES
    endpoint,   \* per endpoint: "none", "active", "paused" or "deleted"
    accounts,   \* connections that exist
    emission,   \* per emitter: the emission it is in the middle of
    status,     \* per row: its status column, "none" before it is inserted
    about,      \* per row: what it says, to whom, and when it was inserted
    attempts,   \* per row: its attempts column
    due,        \* rows whose nextAttemptAt has come
    ahead,      \* per due row: the due rows with an earlier nextAttemptAt
    created,    \* rows inserted so far
    clock,      \* insertions so far: the time that createdAt tells
    since,      \* the first insertion of the past hour
    stage,      \* per run: where it stands
    batch,      \* per run: the rows it read and has not posted yet
    item,       \* per run: the row it posted last
    \* history
    steady,     \* endpoints that were active all along
    tries,      \* per row: posts tried, counted up to MaxAttempts
    accepted,   \* rows whose endpoint answered 2xx
    faults

endpointVars == <<endpoint, accounts, steady>>
rowVars == <<status, about, attempts, due, ahead, created, clock>>
runVars == <<stage, batch, item>>
historyVars == <<tries, accepted>>
vars == <<endpointVars, emission, rowVars, since, runVars, historyVars, faults>>

Stage == {"idle", "looping", "accepted", "refused"}

Exists(d) == status[d] \in {"PENDING", "DELIVERED", "FAILED"}

Quiet == [pc |-> "idle"]
Emission == {Quiet} \cup
    [pc : {"dedupe", "insert", "delete"}, event : EventTypes,
     connection : Connections, targets : SUBSET Endpoints]

Fault == faults < MaxFaults /\ faults' = faults + 1

Init ==
    /\ endpoint \in [Endpoints -> {"none", "active"}]
    /\ accounts = Connections
    /\ emission = [m \in Emitters |-> Quiet]
    /\ status = [d \in Deliveries |-> "none"]
    /\ about = [d \in Deliveries |-> None]
    /\ attempts = [d \in Deliveries |-> 0]
    /\ due = {}
    /\ ahead = [d \in Deliveries |-> {}]
    /\ created = 0
    /\ clock = 0
    /\ since = 1
    /\ stage = [r \in Runs |-> "idle"]
    /\ batch = [r \in Runs |-> {}]
    /\ item = [r \in Runs |-> None]
    /\ steady = {e \in Endpoints : endpoint[e] = "active"}
    /\ tries = [d \in Deliveries |-> 0]
    /\ accepted = {}
    /\ faults = 0

----------------------------------------------------------------------------
(* Emitting: emitConnectionEvent, emit and deleteLinkedAccount *)

\* What an emission does when emit has returned: a removal deletes the account.
Returns(m, event, c) ==
    emission' = [emission EXCEPT ![m] =
        IF event = "connection.disconnected"
        THEN [pc |-> "delete", event |-> event, connection |-> c, targets |-> {}]
        ELSE Quiet]

\* Seeded fault: a removal deletes the account before it announces it.
EmitAfterDeleting(m, event, c) ==
    /\ emission[m] = Quiet
    /\ c \in accounts
    /\ event = "connection.disconnected"
    /\ accounts' = accounts \ {c}
    /\ UNCHANGED <<endpoint, steady, emission, rowVars, since, runVars, historyVars, faults>>

\* The account and the active endpoints subscribed to the event are read.
EmitConnectionEvent(m, event, c) ==
    /\ emission[m] = Quiet
    /\ c \in accounts
    /\ LET endpoints == {e \in Endpoints : endpoint[e] = "active" /\ event \in Subscribes[e]}
       IN  IF endpoints = {} THEN Returns(m, event, c)
           ELSE emission' = [emission EXCEPT ![m] =
                  [pc |-> IF event = "connection.expired" THEN "dedupe" ELSE "insert",
                   event |-> event, connection |-> c, targets |-> endpoints]]
    /\ UNCHANGED <<endpointVars, rowVars, since, runVars, historyVars, faults>>

\* Seeded fault: a row counts as received only once it is delivered.
HeardWhenDelivered(e, event, c) ==
    \E d \in Deliveries :
        /\ status[d] = "DELIVERED"
        /\ about[d].endpoint = e
        /\ about[d].event = event
        /\ about[d].connection = c
        /\ about[d].createdAt >= since

\* The endpoint has a row for this event and connection from the past hour.
Heard(e, event, c) ==
    \E d \in Deliveries :
        /\ Exists(d)
        /\ about[d].endpoint = e
        /\ about[d].event = event
        /\ about[d].connection = c
        /\ about[d].createdAt >= since

\* The endpoints that were told within the hour are left out.
Dedupe(m) ==
    /\ emission[m].pc = "dedupe"
    /\ LET n == emission[m]
           targets == {e \in n.targets : ~Heard(e, n.event, n.connection)}
       IN  IF targets = {} THEN Returns(m, n.event, n.connection)
           ELSE emission' = [emission EXCEPT ![m].pc = "insert", ![m].targets = targets]
    /\ UNCHANGED <<endpointVars, rowVars, since, runVars, historyVars, faults>>

\* New PENDING rows, one per endpoint of T, due at once.
CreateMany(m, T) ==
    LET n == emission[m]
        fresh == (created + 1)..(created + Cardinality(T))
    IN  /\ fresh \subseteq Deliveries
        /\ \E to \in Bijection(fresh, T) :
             about' = [d \in Deliveries |->
                 IF d \in fresh
                 THEN [endpoint |-> to[d], event |-> n.event, connection |-> n.connection,
                       createdAt |-> clock + 1, by |-> m]
                 ELSE about[d]]
        /\ status' = [d \in Deliveries |-> IF d \in fresh THEN "PENDING" ELSE status[d]]
        /\ ahead' = [d \in Deliveries |-> IF d \in fresh THEN due ELSE ahead[d]]
        /\ due' = due \cup fresh
        /\ created' = created + Cardinality(T)
        /\ clock' = clock + 1
        /\ UNCHANGED attempts

\* Seeded fault: one insert per endpoint, and the process stops half way.
InsertOneByOne(m) ==
    /\ emission[m].pc = "insert"
    /\ \E T \in SUBSET emission[m].targets \ {{}} : CreateMany(m, T)
    /\ Returns(m, emission[m].event, emission[m].connection)
    /\ UNCHANGED <<endpointVars, since, runVars, historyVars, faults>>

Insert(m) ==
    /\ emission[m].pc = "insert"
    /\ \A e \in emission[m].targets : endpoint[e] # "deleted"
    /\ CreateMany(m, emission[m].targets)
    /\ Returns(m, emission[m].event, emission[m].connection)
    /\ UNCHANGED <<endpointVars, since, runVars, historyVars, faults>>

\* The one INSERT fails, because an endpoint was deleted meanwhile or the
\* database did, or the process dies: none of the rows is written.
EmissionFails(m) ==
    /\ emission[m] # Quiet
    /\ IF emission[m].pc = "insert" /\ \E e \in emission[m].targets : endpoint[e] = "deleted"
       THEN UNCHANGED faults ELSE Fault
    /\ emission' = [emission EXCEPT ![m] = Quiet]
    /\ UNCHANGED <<endpointVars, rowVars, since, runVars, historyVars>>

\* deleteLinkedAccount, once the event is queued; a second delete of the same
\* account finds nothing and throws.
DeleteAccount(m) ==
    /\ emission[m].pc = "delete"
    /\ accounts' = accounts \ {emission[m].connection}
    /\ emission' = [emission EXCEPT ![m] = Quiet]
    /\ UNCHANGED <<endpoint, steady, rowVars, since, runVars, historyVars, faults>>

----------------------------------------------------------------------------
(* Delivering: deliverPending and scheduleRetry *)

\* The due rows with the earliest nextAttemptAt, at most Limit of them.
Batches ==
    {S \in SUBSET due :
        /\ Cardinality(S) <= Limit
        /\ S = due \/ Cardinality(S) = Limit
        /\ \A d \in S : ahead[d] \subseteq S}

\* A run reads its batch: each row with the attempts it has at that moment.
DeliverPending(r) ==
    /\ stage[r] = "idle"
    /\ due # {}
    /\ \E S \in Batches :
         batch' = [batch EXCEPT ![r] = {[id |-> d, attempts |-> attempts[d]] : d \in S}]
    /\ stage' = [stage EXCEPT ![r] = "looping"]
    /\ UNCHANGED <<endpointVars, emission, rowVars, since, item, historyVars, faults>>

\* Seeded fault: the status of the answer is not looked at.
PostUnchecked(r) ==
    /\ stage[r] = "looping"
    /\ \E i \in batch[r] :
         /\ batch' = [batch EXCEPT ![r] = @ \ {i}]
         /\ item' = [item EXCEPT ![r] = i]
         /\ tries' = [tries EXCEPT ![i.id] = IF @ < MaxAttempts THEN @ + 1 ELSE @]
         /\ accepted' \in {accepted, accepted \cup {i.id}}
         /\ stage' = [stage EXCEPT ![r] = "accepted"]
    /\ UNCHANGED <<endpointVars, emission, rowVars, since, faults>>

\* One row is posted: answered 2xx, or answered otherwise, or not within 10 s,
\* in which case the endpoint may have accepted it all the same.
Post(r) ==
    /\ stage[r] = "looping"
    /\ \E i \in batch[r] :
         /\ batch' = [batch EXCEPT ![r] = @ \ {i}]
         /\ item' = [item EXCEPT ![r] = i]
         /\ tries' = [tries EXCEPT ![i.id] = IF @ < MaxAttempts THEN @ + 1 ELSE @]
         /\ \/ /\ stage' = [stage EXCEPT ![r] = "accepted"]
               /\ accepted' = accepted \cup {i.id}
            \/ /\ stage' = [stage EXCEPT ![r] = "refused"]
               /\ accepted' \in {accepted, accepted \cup {i.id}}
    /\ UNCHANGED <<endpointVars, emission, rowVars, since, faults>>

\* The row is no longer in the queue, until its next nextAttemptAt.
Dequeue(d) ==
    /\ due' = due \ {d}
    /\ ahead' = [x \in Deliveries |-> IF x = d THEN {} ELSE ahead[x] \ {d}]

MarkDelivered(r) ==
    LET d == item[r].id
    IN  /\ stage[r] = "accepted"
        /\ Exists(d)
        /\ status' = [status EXCEPT ![d] = "DELIVERED"]
        /\ attempts' = [attempts EXCEPT ![d] = item[r].attempts + 1]
        /\ Dequeue(d)
        /\ stage' = [stage EXCEPT ![r] = "looping"]
        /\ item' = [item EXCEPT ![r] = None]
        /\ UNCHANGED <<endpointVars, emission, about, created, clock, since, batch,
                       historyVars, faults>>

\* Seeded fault: the last of the attempts is not made.
ExhaustedEarly(n) == n + 1 >= MaxAttempts

\* Seeded fault: one attempt too many.
ExhaustedLate(n) == n > MaxAttempts

Exhausted(n) == n >= MaxAttempts

\* Seeded fault: the attempt is not counted.
ScheduleRetryUncounted(r) ==
    LET d == item[r].id
        n == item[r].attempts
    IN  /\ Exists(d)
        /\ status' = [status EXCEPT ![d] = IF Exhausted(n) THEN "FAILED" ELSE "PENDING"]
        /\ attempts' = [attempts EXCEPT ![d] = n]
        /\ Dequeue(d)
        /\ stage' = [stage EXCEPT ![r] = "looping"]
        /\ item' = [item EXCEPT ![r] = None]

\* The row goes back to PENDING with a later nextAttemptAt, or is given up.
ScheduleRetry(r) ==
    LET d == item[r].id
        n == item[r].attempts + 1
    IN  /\ Exists(d)
        /\ status' = [status EXCEPT ![d] = IF Exhausted(n) THEN "FAILED" ELSE "PENDING"]
        /\ attempts' = [attempts EXCEPT ![d] = n]
        /\ Dequeue(d)
        /\ stage' = [stage EXCEPT ![r] = "looping"]
        /\ item' = [item EXCEPT ![r] = None]

\* Not accepted, or accepted and the update to DELIVERED failed.
Retry(r) ==
    /\ \/ stage[r] = "refused" /\ UNCHANGED faults
       \/ stage[r] = "accepted" /\ Fault
    /\ ScheduleRetry(r)
    /\ UNCHANGED <<endpointVars, emission, about, created, clock, since, batch, historyVars>>

\* The run is over, its batch done or not: the update throws because the row is
\* gone or the database is, or the process dies.
EndRun(r) ==
    /\ \/ stage[r] = "looping" /\ batch[r] = {} /\ UNCHANGED faults
       \/ stage[r] \in {"accepted", "refused"} /\ ~Exists(item[r].id) /\ UNCHANGED faults
       \/ stage[r] # "idle" /\ Fault
    /\ stage' = [stage EXCEPT ![r] = "idle"]
    /\ batch' = [batch EXCEPT ![r] = {}]
    /\ item' = [item EXCEPT ![r] = None]
    /\ UNCHANGED <<endpointVars, emission, rowVars, since, historyVars>>

----------------------------------------------------------------------------
(* Endpoints and time *)

CreateEndpoint(e) ==
    /\ endpoint[e] = "none"
    /\ endpoint' = [endpoint EXCEPT ![e] = "active"]
    /\ UNCHANGED <<accounts, steady, emission, rowVars, since, runVars, historyVars, faults>>

SetWebhookEndpointActive(e, active) ==
    /\ endpoint[e] \in {"active", "paused"}
    /\ endpoint' = [endpoint EXCEPT ![e] = IF active THEN "active" ELSE "paused"]
    /\ steady' = IF active THEN steady ELSE steady \ {e}
    /\ UNCHANGED <<accounts, emission, rowVars, since, runVars, historyVars, faults>>

\* Its deliveries go with it, and what is remembered of them.
DeleteWebhookEndpoint(e) ==
    LET gone == {d \in Deliveries : Exists(d) /\ about[d].endpoint = e}
    IN  /\ endpoint[e] \in {"active", "paused"}
        /\ endpoint' = [endpoint EXCEPT ![e] = "deleted"]
        /\ steady' = steady \ {e}
        /\ status' = [d \in Deliveries |-> IF d \in gone THEN "deleted" ELSE status[d]]
        /\ attempts' = [d \in Deliveries |-> IF d \in gone THEN 0 ELSE attempts[d]]
        /\ tries' = [d \in Deliveries |-> IF d \in gone THEN 0 ELSE tries[d]]
        /\ accepted' = accepted \ gone
        /\ due' = due \ gone
        /\ ahead' = [d \in Deliveries |-> IF d \in gone THEN {} ELSE ahead[d] \ gone]
        /\ UNCHANGED <<accounts, emission, about, created, clock, since, runVars, faults>>

\* The nextAttemptAt of a row comes.
BecomesDue(d) ==
    /\ status[d] = "PENDING"
    /\ d \notin due
    /\ ahead' = [ahead EXCEPT ![d] = due]
    /\ due' = due \cup {d}
    /\ UNCHANGED <<endpointVars, emission, status, about, attempts, created, clock, since,
                   runVars, historyVars, faults>>

\* An hour has passed since an insertion.
HourPasses ==
    /\ since <= clock
    /\ since' = since + 1
    /\ UNCHANGED <<endpointVars, emission, rowVars, runVars, historyVars, faults>>

----------------------------------------------------------------------------
RunStep(r) == Post(r) \/ MarkDelivered(r) \/ Retry(r) \/ EndRun(r)

Next ==
    \/ \E m \in Emitters :
         \/ \E event \in EventTypes, c \in Connections : EmitConnectionEvent(m, event, c)
         \/ Dedupe(m) \/ Insert(m) \/ EmissionFails(m) \/ DeleteAccount(m)
    \/ \E r \in Runs : DeliverPending(r) \/ RunStep(r)
    \/ \E e \in Endpoints :
         \/ CreateEndpoint(e) \/ DeleteWebhookEndpoint(e)
         \/ \E active \in BOOLEAN : SetWebhookEndpointActive(e, active)
    \/ \E d \in Deliveries : BecomesDue(d)
    \/ HourPasses

Spec == Init /\ [][Next]_vars

(***************************************************************************)
(* The scheduler calls deliverPending again and again, a run that started  *)
(* goes on (a post ends within 10 s), and time passes.  Nothing makes an   *)
(* endpoint accept, an emission happen or the database fail.               *)
(***************************************************************************)
Fairness ==
    /\ \A r \in Runs : WF_vars(DeliverPending(r)) /\ WF_vars(RunStep(r))
    /\ \A d \in Deliveries : WF_vars(BecomesDue(d))

FairSpec == Spec /\ Fairness

----------------------------------------------------------------------------
(* What the tables say of the promise of Outbox *)

Told == [d \in Deliveries |->
    IF about[d] = None THEN None
    ELSE [endpoint |-> about[d].endpoint, event |-> about[d].event,
          connection |-> about[d].connection]]

Removed == {e \in Endpoints : endpoint[e] = "deleted"}

\* A row that has settled may be taken up again by a run that read it before.
AtLeastOnce == INSTANCE Outbox
    WITH Reopens <- TRUE, told <- Told, fate <- status, received <- accepted, removed <- Removed

\* A row settles once.
SettledOnce == INSTANCE Outbox
    WITH Reopens <- FALSE, told <- Told, fate <- status, received <- accepted, removed <- Removed

----------------------------------------------------------------------------
(* Properties *)

\* The values the state ranges over; a row that is still to be tried has had
\* fewer than MAX_ATTEMPTS attempts, also as an overlapping run remembers it.
TypeOK ==
    /\ endpoint \in [Endpoints -> {"none", "active", "paused", "deleted"}]
    /\ accounts \subseteq Connections
    /\ emission \in [Emitters -> Emission]
    /\ status \in [Deliveries -> {"none", "PENDING", "DELIVERED", "FAILED", "deleted"}]
    /\ about \in [Deliveries -> About \cup {None}]
    /\ \A d \in Deliveries : d <= created <=> about[d] # None
    /\ attempts \in [Deliveries -> 0..MaxAttempts]
    /\ \A d \in Deliveries : status[d] = "PENDING" => attempts[d] < MaxAttempts
    /\ due \subseteq {d \in Deliveries : status[d] = "PENDING"}
    /\ ahead \in [Deliveries -> SUBSET due]
    /\ created \in 0..MaxDeliveries
    /\ clock \in Nat
    /\ since \in Nat
    /\ stage \in [Runs -> Stage]
    /\ batch \in [Runs -> SUBSET Item]
    /\ item \in [Runs -> Item \cup {None}]
    /\ \A r \in Runs : stage[r] \in {"accepted", "refused"} => item[r] # None
    /\ steady \subseteq Endpoints
    /\ tries \in [Deliveries -> 0..MaxAttempts]
    /\ accepted \subseteq Deliveries
    /\ faults \in Nat

\* "backoff across six attempts" (RELEASE_NOTES.md:137): a row is given up only
\* after MAX_ATTEMPTS posts were tried, though overlapping runs overwrite each
\* other's count.
GivenUpAfterAllTries ==
    \A d \in Deliveries : status[d] = "FAILED" => tries[d] >= MaxAttempts

\* Every step is one that Outbox allows (webhooks.ts:9-14): however emissions,
\* runs, removals and failures interleave, an event is queued for its subscribers
\* at once or not at all, and a row that says DELIVERED or FAILED was received, or
\* was tried as often as promised.
ImplementsOutbox == AtLeastOnce!Spec

\* Two connection.expired rows for one endpoint and connection within an hour
\* are never from one strand of requests (webhooks.ts:91-94): what is sent twice
\* was emitted at the same time by two of them.
OneExpiryPerEmitter ==
    \A d1, d2 \in Deliveries :
        /\ d1 # d2
        /\ Exists(d1) /\ Exists(d2)
        /\ about[d1].event = "connection.expired"
        /\ about[d2].event = "connection.expired"
        /\ about[d1].endpoint = about[d2].endpoint
        /\ about[d1].connection = about[d2].connection
        /\ about[d1].createdAt >= since
        /\ about[d2].createdAt >= since
        => about[d1].by # about[d2].by

\* An event is queued for all of its subscribers or for none (webhooks.ts:129):
\* endpoints that were active all along have rows for the same events, whatever
\* crashed, was paused or was deleted meanwhile.
SubscribersHearAlike ==
    \A d1 \in Deliveries, e \in steady :
        /\ Exists(d1)
        /\ about[d1].endpoint \in steady
        /\ about[d1].event \in Subscribes[e]
        => \E d2 \in Deliveries :
             /\ Exists(d2)
             /\ about[d2].endpoint = e
             /\ about[d2].event = about[d1].event
             /\ about[d2].connection = about[d1].connection
             /\ about[d2].createdAt = about[d1].createdAt

\* "Announced before the row goes" (linked-account.ts:85): a connection that is
\* gone was announced to every subscriber that was active all along.
RemovalWasAnnounced ==
    \A c \in Connections \ accounts, e \in steady :
        "connection.disconnected" \in Subscribes[e] =>
            \E d \in Deliveries :
                /\ Exists(d)
                /\ about[d].endpoint = e
                /\ about[d].event = "connection.disconnected"
                /\ about[d].connection = c

\* "a crash mid-send leaves a retryable row rather than a lost event"
\* (webhooks.ts:9-11): in the end every row is delivered, given up or removed,
\* and stays so, though overlapping runs put finished rows back in the queue.
EveryDeliverySettles == \A d \in Deliveries : <>[](status[d] # "PENDING")

\* "Answer 2xx to accept. Anything else is retried" (INTEGRATION.md:474): a row
\* that was recorded as delivered is not sent again.
AcceptedStaysDelivered ==
    [][\A d \in Deliveries : status[d] = "DELIVERED" => status'[d] # "PENDING"]_vars

\* "At most one per connection per hour" (INTEGRATION.md:440).
OneExpiryPerHour ==
    \A d1, d2 \in Deliveries :
        /\ Exists(d1) /\ Exists(d2)
        /\ about[d1].event = "connection.expired"
        /\ about[d2].event = "connection.expired"
        /\ about[d1].endpoint = about[d2].endpoint
        /\ about[d1].connection = about[d2].connection
        /\ about[d1].createdAt >= since
        /\ about[d2].createdAt >= since
        => d1 = d2
=============================================================================
