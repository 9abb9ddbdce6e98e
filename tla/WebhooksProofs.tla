--------------------------- MODULE WebhooksProofs ---------------------------
(***************************************************************************)
(* What the outbox promises, for any endpoints, emitters, runs and bounds. *)
(* Rows are numbered as they are inserted, so a row once inserted is never *)
(* inserted again; on that rest two invariants, one of the delivery runs   *)
(* (what a run remembers of a row is never ahead of what was tried) and    *)
(* one of the emissions (whom an emission in progress is going to tell).   *)
(***************************************************************************)
EXTENDS Webhooks, FiniteSetTheorems, TLAPS

\* The rows up to `created` have been inserted, and the runs know no others.
RowsNumbered ==
    /\ \A d \in Deliveries : status[d] = "none" <=> d > created
    /\ \A d \in Deliveries : d > created => attempts[d] = 0
    /\ \A r \in Runs :
         /\ \A i \in batch[r] : i.id <= created
         /\ stage[r] \in {"accepted", "refused"} => item[r].id <= created

TypeInv == TypeOK /\ RowsNumbered

\* The attempts of a row, in the table or in the memory of a run, were tried.
CountsWereTried ==
    /\ \A d \in Deliveries : Exists(d) => attempts[d] <= tries[d]
    /\ \A r \in Runs : \A i \in batch[r] : Exists(i.id) => i.attempts <= tries[i.id]
    /\ \A r \in Runs :
         stage[r] \in {"accepted", "refused"} /\ Exists(item[r].id) =>
            item[r].attempts < tries[item[r].id]

\* What a run is about to record as delivered was accepted.
AcceptedInHand ==
    \A r \in Runs : stage[r] = "accepted" /\ Exists(item[r].id) => item[r].id \in accepted

\* A row says DELIVERED only if its endpoint did answer 2xx to it
\* (webhooks.ts:221), whichever of the overlapping runs wrote that.
DeliveredWasAccepted ==
    \A d \in Deliveries : status[d] = "DELIVERED" => d \in accepted

DeliveryInv ==
    TypeInv /\ CountsWereTried /\ AcceptedInHand
            /\ GivenUpAfterAllTries /\ DeliveredWasAccepted

\* Row d is about this event of this connection, to endpoint e.
Tells(d, e, event, c) ==
    /\ Exists(d)
    /\ about[d].endpoint = e
    /\ about[d].event = event
    /\ about[d].connection = c

\* The emission still has endpoints to tell.
Telling(m) == emission[m].pc \in {"dedupe", "insert"}

\* The subscribers that were active all along are told all or none, and all of
\* them unless the event is one that is left out within the hour.
TargetsAlike ==
    /\ \A e \in steady : endpoint[e] = "active"
    /\ \A m \in Emitters :
         /\ emission[m].pc = "dedupe" => emission[m].event = "connection.expired"
         /\ Telling(m) => \A e \in emission[m].targets : emission[m].event \in Subscribes[e]
         /\ Telling(m) => \A e1, e2 \in steady :
              /\ emission[m].event \in Subscribes[e1]
              /\ emission[m].event \in Subscribes[e2]
              /\ e1 \in emission[m].targets
              => e2 \in emission[m].targets
         /\ Telling(m) /\ emission[m].event # "connection.expired" => \A e \in steady :
              emission[m].event \in Subscribes[e] => e \in emission[m].targets

\* An account about to be deleted was announced.
DeletesAnnounced ==
    \A m \in Emitters, e \in steady :
        /\ emission[m].pc = "delete"
        /\ "connection.disconnected" \in Subscribes[e]
        => \E d \in Deliveries :
             Tells(d, e, "connection.disconnected", emission[m].connection)

\* An emitter about to announce an expiry has told none of its targets itself.
TargetsUntold ==
    \A m \in Emitters : emission[m].pc = "insert" /\ emission[m].event = "connection.expired" =>
        \A d \in Deliveries, e \in emission[m].targets :
            /\ Tells(d, e, emission[m].event, emission[m].connection)
            /\ about[d].createdAt >= since
            => about[d].by # m

EmissionInv ==
    TypeInv /\ TargetsAlike /\ DeletesAnnounced /\ TargetsUntold
            /\ OneExpiryPerEmitter /\ SubscribersHearAlike /\ RemovalWasAnnounced

----------------------------------------------------------------------------
(* Insertion *)

\* A part of the endpoints can be counted.
LEMMA TargetsFinite ==
    ASSUME NEW T \in SUBSET Endpoints
    PROVE  Cardinality(T) \in Nat
  <1>1. IsFiniteSet(T)
    BY ConstantsAssumption, FS_Subset
  <1> QED
    BY <1>1, FS_CardinalityType

\* The rows that a step inserts.
New == {d \in Deliveries : created < d /\ d <= created'}

\* What createMany changes: the new rows, one for each of the endpoints.
LEMMA CreateManyFacts ==
    ASSUME TypeInv, NEW m \in Emitters, NEW T \in SUBSET Endpoints, CreateMany(m, T),
           emission[m] # Quiet
    PROVE  /\ created' \in 0..MaxDeliveries /\ created <= created'
           /\ \A d \in Deliveries : d \notin New =>
                status'[d] = status[d] /\ about'[d] = about[d] /\ ahead'[d] = ahead[d]
           /\ \A d \in New :
                /\ status[d] = "none" /\ status'[d] = "PENDING" /\ ahead'[d] = due
                /\ about'[d] \in About
                /\ about'[d].endpoint \in T
                /\ about'[d].event = emission[m].event
                /\ about'[d].connection = emission[m].connection
                /\ about'[d].createdAt = clock + 1
                /\ about'[d].by = m
           /\ \A d1, d2 \in New : about'[d1].endpoint = about'[d2].endpoint => d1 = d2
           /\ \A e \in T : \E d \in New : about'[d].endpoint = e
           /\ due' = due \cup New
           /\ DOMAIN status' = Deliveries /\ DOMAIN about' = Deliveries
           /\ DOMAIN ahead' = Deliveries
  <1> DEFINE fresh == (created + 1)..(created + Cardinality(T))
  <1> DEFINE row(e) == [endpoint |-> e, event |-> emission[m].event,
                        connection |-> emission[m].connection,
                        createdAt |-> clock + 1, by |-> m]
  <1>1. Cardinality(T) \in Nat
    BY TargetsFinite
  <1>2. created \in Nat /\ created <= MaxDeliveries /\ clock \in Nat
    BY ConstantsAssumption DEF TypeInv, TypeOK
  <1>3. fresh \subseteq Deliveries /\ created' = created + Cardinality(T)
    BY DEF CreateMany
  <1>4. fresh = New
    BY <1>1, <1>2, <1>3 DEF Deliveries, New
  <1>5. created' \in 0..MaxDeliveries /\ created <= created'
    <2>1. CASE Cardinality(T) = 0
      BY <2>1, <1>2, <1>3
    <2>2. CASE Cardinality(T) # 0
      <3>1. created + Cardinality(T) \in fresh
        BY <2>2, <1>1, <1>2
      <3> QED
        BY <3>1, <1>1, <1>2, <1>3, ConstantsAssumption DEF Deliveries
    <2> QED
      BY <2>1, <2>2
  <1>6. PICK to \in Bijection(New, T) :
          about' = [d \in Deliveries |->
              IF d \in New THEN row(to[d]) ELSE about[d]]
    BY <1>4, Zenon DEF CreateMany
  <1>7. /\ to \in [New -> T]
        /\ \A d1, d2 \in New : to[d1] = to[d2] => d1 = d2
        /\ \A e \in T : \E d \in New : to[d] = e
    BY <1>6 DEF Bijection, Injection, Surjection, IsInjective
  <1>8. emission[m].event \in EventTypes /\ emission[m].connection \in Connections
    BY DEF TypeInv, TypeOK, Emission, Quiet
  <1>9. /\ status' = [d \in Deliveries |-> IF d \in New THEN "PENDING" ELSE status[d]]
        /\ ahead' = [d \in Deliveries |-> IF d \in New THEN due ELSE ahead[d]]
        /\ due' = due \cup New
    BY <1>4, Zenon DEF CreateMany
  <1>10. \A d \in New : about'[d] = row(to[d])
    BY <1>6 DEF New
  <1>11. \A e \in Endpoints : row(e) \in About
    BY <1>2, <1>8 DEF About
  <1>12. \A e : /\ row(e).endpoint = e
                /\ row(e).event = emission[m].event
                /\ row(e).connection = emission[m].connection
                /\ row(e).createdAt = clock + 1
                /\ row(e).by = m
    OBVIOUS
  <1> HIDE DEF row
  <1>13. \A d \in New : status[d] = "none"
    BY DEF TypeInv, RowsNumbered, New, Deliveries, TypeOK
  <1>14. \A d \in Deliveries : d \notin New =>
           status'[d] = status[d] /\ about'[d] = about[d] /\ ahead'[d] = ahead[d]
    BY <1>6, <1>9
  <1>15. \A d \in New : status'[d] = "PENDING" /\ ahead'[d] = due
    BY <1>9 DEF New
  <1>16. \A d1, d2 \in New : about'[d1].endpoint = about'[d2].endpoint => d1 = d2
    BY <1>7, <1>10, <1>12
  <1>17. \A e \in T : \E d \in New : about'[d].endpoint = e
    BY <1>7, <1>10, <1>12
  <1>18. \A d \in New :
           /\ about'[d] \in About
           /\ about'[d].endpoint \in T
           /\ about'[d].event = emission[m].event
           /\ about'[d].connection = emission[m].connection
           /\ about'[d].createdAt = clock + 1
           /\ about'[d].by = m
    BY <1>7, <1>10, <1>11, <1>12
  <1>19. DOMAIN status' = Deliveries /\ DOMAIN about' = Deliveries /\ DOMAIN ahead' = Deliveries
    BY <1>6, <1>9
  <1> QED
    BY <1>5, <1>9, <1>13, <1>14, <1>15, <1>16, <1>17, <1>18, <1>19

----------------------------------------------------------------------------
(* Type correctness *)

LEMMA TypeInvInit == Init => TypeInv
  BY ConstantsAssumption DEF Init, TypeInv, TypeOK, RowsNumbered, Deliveries, Stage, Emission

\* An emission keeps its type when its call of emit returns.
LEMMA ReturnsType ==
    ASSUME TypeInv, NEW m \in Emitters, NEW event \in EventTypes, NEW c \in Connections,
           Returns(m, event, c)
    PROVE  emission' \in [Emitters -> Emission]
  <1>1. Quiet \in Emission
    BY DEF Emission
  <1>2. [pc |-> "delete", event |-> event, connection |-> c, targets |-> {}] \in Emission
    BY DEF Emission
  <1> QED
    BY <1>1, <1>2 DEF Returns, TypeInv, TypeOK

\* What is known of an emission in progress.
LEMMA EmissionFacts ==
    ASSUME TypeInv, NEW m \in Emitters, emission[m] # Quiet
    PROVE  /\ emission[m].pc \in {"dedupe", "insert", "delete"}
           /\ emission[m].event \in EventTypes
           /\ emission[m].connection \in Connections
           /\ emission[m].targets \in SUBSET Endpoints
  BY DEF TypeInv, TypeOK, Emission

LEMMA QuietFacts ==
    ASSUME NEW m \in Emitters, emission[m].pc # "idle"
    PROVE  emission[m] # Quiet
  BY DEF Quiet

\* Steps that leave the rows and the runs alone.
LEMMA EmissionStepType ==
    ASSUME TypeInv, emission' \in [Emitters -> Emission],
           endpoint' \in [Endpoints -> {"none", "active", "paused", "deleted"}],
           accounts' \subseteq Connections, steady' \subseteq Endpoints,
           since' \in Nat, faults' \in Nat, UNCHANGED <<rowVars, runVars, historyVars>>
    PROVE  TypeInv'
  BY DEF TypeInv, TypeOK, RowsNumbered, rowVars, runVars, historyVars

LEMMA EmitType ==
    ASSUME TypeInv, NEW m \in Emitters, NEW event \in EventTypes, NEW c \in Connections,
           EmitConnectionEvent(m, event, c)
    PROVE  TypeInv'
  <1> DEFINE endpoints == {e \in Endpoints : endpoint[e] = "active" /\ event \in Subscribes[e]}
             n == [pc |-> IF event = "connection.expired" THEN "dedupe" ELSE "insert",
                   event |-> event, connection |-> c, targets |-> endpoints]
  <1>1. n \in Emission
    BY DEF Emission
  <1>2. \/ Returns(m, event, c)
        \/ emission' = [emission EXCEPT ![m] = n]
    BY DEF EmitConnectionEvent
  <1>3. emission' \in [Emitters -> Emission]
    BY <1>1, <1>2, ReturnsType DEF TypeInv, TypeOK
  <1> QED
    BY <1>3, EmissionStepType
    DEF EmitConnectionEvent, endpointVars, TypeInv, TypeOK

LEMMA DedupeType ==
    ASSUME TypeInv, NEW m \in Emitters, Dedupe(m)
    PROVE  TypeInv'
  <1> DEFINE targets == {e \in emission[m].targets :
                           ~Heard(e, emission[m].event, emission[m].connection)}
             n == [emission[m] EXCEPT !.pc = "insert", !.targets = targets]
  <1>1. emission[m] # Quiet
    BY QuietFacts DEF Dedupe
  <1>2. n \in Emission
    <2>1. emission[m] \in [pc : {"dedupe", "insert", "delete"}, event : EventTypes,
                          connection : Connections, targets : SUBSET Endpoints]
      BY <1>1 DEF Emission, TypeInv, TypeOK
    <2>2. targets \in SUBSET Endpoints
      BY <2>1
    <2> HIDE DEF targets
    <2>3. n \in [pc : {"dedupe", "insert", "delete"}, event : EventTypes,
                 connection : Connections, targets : SUBSET Endpoints]
      BY <2>1, <2>2
    <2> QED
      BY <2>3 DEF Emission
  <1>3. \/ Returns(m, emission[m].event, emission[m].connection)
        \/ emission' = [emission EXCEPT ![m] = n]
    BY DEF Dedupe, TypeInv, TypeOK
  <1>4. emission' \in [Emitters -> Emission]
    BY <1>1, <1>2, <1>3, EmissionFacts, ReturnsType DEF TypeInv, TypeOK
  <1> QED
    BY <1>4, EmissionStepType DEF Dedupe, endpointVars, TypeInv, TypeOK

LEMMA InsertType ==
    ASSUME TypeInv, NEW m \in Emitters, Insert(m)
    PROVE  TypeInv'
  <1>1. emission[m] # Quiet
    BY QuietFacts DEF Insert
  <1>2. emission' \in [Emitters -> Emission]
    BY <1>1, EmissionFacts, ReturnsType DEF Insert
  <1> DEFINE T == emission[m].targets
  <1>3. T \in SUBSET Endpoints /\ CreateMany(m, T)
    BY <1>1, EmissionFacts DEF Insert
  <1> HIDE DEF T
  <1>4. /\ created' \in 0..MaxDeliveries /\ created <= created'
        /\ \A d \in Deliveries : d \notin New =>
             status'[d] = status[d] /\ about'[d] = about[d] /\ ahead'[d] = ahead[d]
        /\ \A d \in New : /\ status'[d] = "PENDING" /\ ahead'[d] = due
                          /\ about'[d] \in About
        /\ due' = due \cup New
        /\ DOMAIN status' = Deliveries /\ DOMAIN about' = Deliveries
        /\ DOMAIN ahead' = Deliveries
    BY <1>1, <1>3, CreateManyFacts
  <1>5. UNCHANGED <<attempts, endpointVars, since, runVars, historyVars, faults>>
    BY <1>3 DEF Insert, CreateMany
  <1>6. New \subseteq Deliveries
    BY DEF New
  <1>7. clock' \in Nat
    BY <1>3 DEF CreateMany, TypeInv, TypeOK
  <1>8. /\ status' \in [Deliveries -> {"none", "PENDING", "DELIVERED", "FAILED", "deleted"}]
        /\ about' \in [Deliveries -> About \cup {None}]
        /\ due' \subseteq {d \in Deliveries : status'[d] = "PENDING"}
        /\ ahead' \in [Deliveries -> SUBSET due']
    <2>1. \A d \in Deliveries :
            /\ status'[d] \in {"none", "PENDING", "DELIVERED", "FAILED", "deleted"}
            /\ about'[d] \in About \cup {None}
            /\ ahead'[d] \subseteq due'
      BY <1>4 DEF TypeInv, TypeOK
    <2>2. status' = [d \in Deliveries |-> status'[d]] /\ about' = [d \in Deliveries |-> about'[d]]
          /\ ahead' = [d \in Deliveries |-> ahead'[d]]
      BY <1>3, Zenon DEF CreateMany
    <2>3. due' \subseteq {d \in Deliveries : status'[d] = "PENDING"}
      BY <1>4, <1>6 DEF TypeInv, TypeOK
    <2> QED
      BY <2>1, <2>2, <2>3
  <1>9. \A d \in Deliveries : d <= created' <=> about'[d] # None
    BY <1>4, ConstantsAssumption DEF New, TypeInv, TypeOK, Deliveries
  <1>10. \A d \in Deliveries : status'[d] = "PENDING" => attempts[d] < MaxAttempts
    BY <1>4, ConstantsAssumption DEF New, TypeInv, TypeOK, RowsNumbered
  <1>11. TypeOK'
    BY <1>2, <1>4, <1>5, <1>7, <1>8, <1>9, <1>10
    DEF TypeInv, TypeOK, endpointVars, runVars, historyVars
  <1>12. \A d \in Deliveries : status'[d] = "none" <=> d > created'
    BY <1>4, ConstantsAssumption DEF New, TypeInv, TypeOK, RowsNumbered, Deliveries
  <1>13. \A d \in Deliveries : d > created' => attempts[d] = 0
    BY <1>4, ConstantsAssumption DEF TypeInv, TypeOK, RowsNumbered, Deliveries
  <1>14. \A r \in Runs :
           /\ \A i \in batch[r] : i.id <= created'
           /\ stage[r] \in {"accepted", "refused"} => item[r].id <= created'
    <2> TAKE r \in Runs
    <2>1. \A i \in batch[r] : i.id \in Nat /\ i.id <= created
      BY DEF TypeInv, TypeOK, RowsNumbered, Item, Deliveries
    <2>2. stage[r] \in {"accepted", "refused"} => item[r].id \in Nat /\ item[r].id <= created
      BY DEF TypeInv, TypeOK, RowsNumbered, Item, Deliveries
    <2> QED
      BY <1>4, <2>1, <2>2 DEF TypeInv, TypeOK
  <1> QED
    BY <1>5, <1>11, <1>12, <1>13, <1>14 DEF TypeInv, RowsNumbered, runVars

LEMMA DeliverType ==
    ASSUME TypeInv, NEW r \in Runs, DeliverPending(r)
    PROVE  TypeInv'
  <1>1. PICK S \in Batches :
          batch' = [batch EXCEPT ![r] = {[id |-> d, attempts |-> attempts[d]] : d \in S}]
    BY DEF DeliverPending
  <1> DEFINE items == {[id |-> d, attempts |-> attempts[d]] : d \in S}
  <1>2. S \subseteq due
    BY DEF Batches
  <1>3. \A d \in S : /\ d \in Deliveries /\ d <= created
                    /\ attempts[d] \in 0..(MaxAttempts - 1)
    BY <1>2, ConstantsAssumption DEF TypeInv, TypeOK, RowsNumbered, Deliveries
  <1>4. items \subseteq Item
    BY <1>3 DEF Item
  <1>5. \A i \in items : i.id <= created
    BY <1>3
  <1> QED
    BY <1>1, <1>4, <1>5
    DEF DeliverPending, TypeInv, TypeOK, RowsNumbered, Stage, endpointVars, rowVars, historyVars

LEMMA PostType ==
    ASSUME TypeInv, NEW r \in Runs, Post(r)
    PROVE  TypeInv'
  <1>1. PICK i \in batch[r] :
          /\ batch' = [batch EXCEPT ![r] = @ \ {i}]
          /\ item' = [item EXCEPT ![r] = i]
          /\ tries' = [tries EXCEPT ![i.id] = IF @ < MaxAttempts THEN @ + 1 ELSE @]
          /\ accepted' \in {accepted, accepted \cup {i.id}}
          /\ stage' \in {[stage EXCEPT ![r] = "accepted"], [stage EXCEPT ![r] = "refused"]}
    BY DEF Post
  <1>2. i \in Item /\ i.id \in Deliveries /\ i.id <= created /\ i # None
    BY ConstantsAssumption DEF TypeInv, TypeOK, RowsNumbered, Item
  <1>3. tries' \in [Deliveries -> 0..MaxAttempts]
    BY <1>1, <1>2, ConstantsAssumption DEF TypeInv, TypeOK
  <1> QED
    BY <1>1, <1>2, <1>3
    DEF Post, TypeInv, TypeOK, RowsNumbered, Stage, endpointVars, rowVars

\* The row of an update that a run makes.
LEMMA ItemFacts ==
    ASSUME TypeInv, NEW r \in Runs, stage[r] \in {"accepted", "refused"}
    PROVE  /\ item[r] \in Item /\ item[r].id \in Deliveries /\ item[r].id <= created
           /\ item[r].attempts \in 0..(MaxAttempts - 1)
  BY DEF TypeInv, TypeOK, RowsNumbered, Item

\* A row that is taken from the queue with another status.
LEMMA UpdateType ==
    ASSUME TypeInv, NEW d \in Deliveries, d <= created, Dequeue(d),
           NEW s \in {"PENDING", "DELIVERED", "FAILED"},
           NEW n \in 0..MaxAttempts, s = "PENDING" => n < MaxAttempts,
           status' = [status EXCEPT ![d] = s], attempts' = [attempts EXCEPT ![d] = n],
           NEW r \in Runs, stage' = [stage EXCEPT ![r] = "looping"],
           item' = [item EXCEPT ![r] = None], faults' \in Nat,
           UNCHANGED <<endpointVars, emission, about, created, clock, since, batch, historyVars>>
    PROVE  TypeInv'
  <1>1. /\ due' \subseteq {x \in Deliveries : status'[x] = "PENDING"}
        /\ ahead' \in [Deliveries -> SUBSET due']
    BY DEF TypeInv, TypeOK, Dequeue
  <1>2. /\ status' \in [Deliveries -> {"none", "PENDING", "DELIVERED", "FAILED", "deleted"}]
        /\ attempts' \in [Deliveries -> 0..MaxAttempts]
        /\ \A x \in Deliveries : status'[x] = "PENDING" => attempts'[x] < MaxAttempts
    BY DEF TypeInv, TypeOK
  <1>3. TypeOK'
    BY <1>1, <1>2 DEF TypeInv, TypeOK, Stage, endpointVars, historyVars
  <1>4. /\ \A x \in Deliveries : status'[x] = "none" <=> x > created'
        /\ \A x \in Deliveries : x > created' => attempts'[x] = 0
    BY ConstantsAssumption DEF TypeInv, TypeOK, RowsNumbered, Deliveries
  <1> QED
    BY <1>3, <1>4 DEF TypeInv, TypeOK, RowsNumbered

LEMMA MarkDeliveredType ==
    ASSUME TypeInv, NEW r \in Runs, MarkDelivered(r)
    PROVE  TypeInv'
  <1> DEFINE d == item[r].id
             n == item[r].attempts + 1
  <1>1. d \in Deliveries /\ d <= created /\ n \in 0..MaxAttempts
    BY ItemFacts, ConstantsAssumption DEF MarkDelivered
  <1>2. /\ Dequeue(d)
        /\ status' = [status EXCEPT ![d] = "DELIVERED"]
        /\ attempts' = [attempts EXCEPT ![d] = n]
        /\ stage' = [stage EXCEPT ![r] = "looping"]
        /\ item' = [item EXCEPT ![r] = None]
        /\ faults' \in Nat
        /\ UNCHANGED <<endpointVars, emission, about, created, clock, since, batch, historyVars>>
    BY DEF MarkDelivered, TypeInv, TypeOK
  <1> HIDE DEF d, n
  <1> QED
    BY <1>1, <1>2, UpdateType

LEMMA RetryType ==
    ASSUME TypeInv, NEW r \in Runs, Retry(r)
    PROVE  TypeInv'
  <1> DEFINE d == item[r].id
             n == item[r].attempts + 1
             s == IF Exhausted(n) THEN "FAILED" ELSE "PENDING"
  <1>1. d \in Deliveries /\ d <= created /\ n \in 0..MaxAttempts
    BY ItemFacts, ConstantsAssumption DEF Retry
  <1>2. s \in {"PENDING", "DELIVERED", "FAILED"} /\ (s = "PENDING" => n < MaxAttempts)
    BY <1>1, ConstantsAssumption DEF Exhausted
  <1>3. /\ Dequeue(d)
        /\ status' = [status EXCEPT ![d] = s]
        /\ attempts' = [attempts EXCEPT ![d] = n]
        /\ stage' = [stage EXCEPT ![r] = "looping"]
        /\ item' = [item EXCEPT ![r] = None]
        /\ faults' \in Nat
        /\ UNCHANGED <<endpointVars, emission, about, created, clock, since, batch, historyVars>>
    BY DEF Retry, ScheduleRetry, Fault, TypeInv, TypeOK
  <1> HIDE DEF d, n, s
  <1> QED
    BY <1>1, <1>2, <1>3, UpdateType

LEMMA EndRunType ==
    ASSUME TypeInv, NEW r \in Runs, EndRun(r)
    PROVE  TypeInv'
  <1>1. faults' \in Nat
    BY DEF EndRun, Fault, TypeInv, TypeOK
  <1> QED
    BY <1>1 DEF EndRun, TypeInv, TypeOK, RowsNumbered, Stage, endpointVars, rowVars, historyVars

LEMMA DeleteEndpointType ==
    ASSUME TypeInv, NEW e \in Endpoints, DeleteWebhookEndpoint(e)
    PROVE  TypeInv'
  <1> DEFINE gone == {d \in Deliveries : Exists(d) /\ about[d].endpoint = e}
  <1>1. /\ status' = [d \in Deliveries |-> IF d \in gone THEN "deleted" ELSE status[d]]
        /\ attempts' = [d \in Deliveries |-> IF d \in gone THEN 0 ELSE attempts[d]]
        /\ tries' = [d \in Deliveries |-> IF d \in gone THEN 0 ELSE tries[d]]
        /\ accepted' = accepted \ gone
        /\ due' = due \ gone
        /\ ahead' = [d \in Deliveries |-> IF d \in gone THEN {} ELSE ahead[d] \ gone]
        /\ endpoint' = [endpoint EXCEPT ![e] = "deleted"]
        /\ steady' = steady \ {e}
        /\ UNCHANGED <<accounts, emission, about, created, clock, since, runVars, faults>>
    BY DEF DeleteWebhookEndpoint
  <1>2. \A d \in gone : d \in Deliveries /\ status[d] # "none"
    BY DEF Exists
  <1> HIDE DEF gone
  <1>3. /\ due' \subseteq {d \in Deliveries : status'[d] = "PENDING"}
        /\ ahead' \in [Deliveries -> SUBSET due']
    BY <1>1 DEF TypeInv, TypeOK
  <1>4. /\ attempts' \in [Deliveries -> 0..MaxAttempts]
        /\ tries' \in [Deliveries -> 0..MaxAttempts]
        /\ \A d \in Deliveries : status'[d] = "PENDING" => attempts'[d] < MaxAttempts
        /\ status' \in [Deliveries -> {"none", "PENDING", "DELIVERED", "FAILED", "deleted"}]
    BY <1>1, ConstantsAssumption DEF TypeInv, TypeOK
  <1>5. TypeOK'
    BY <1>1, <1>3, <1>4 DEF TypeInv, TypeOK, runVars
  <1> QED
    BY <1>1, <1>2, <1>5 DEF TypeInv, TypeOK, RowsNumbered, runVars

LEMMA BecomesDueType ==
    ASSUME TypeInv, NEW d \in Deliveries, BecomesDue(d)
    PROVE  TypeInv'
  <1>1. /\ due' \subseteq {x \in Deliveries : status[x] = "PENDING"}
        /\ ahead' \in [Deliveries -> SUBSET due']
    BY DEF BecomesDue, TypeInv, TypeOK
  <1> QED
    BY <1>1 DEF BecomesDue, TypeInv, TypeOK, RowsNumbered, endpointVars, runVars, historyVars

\* The other steps of an emission or an endpoint, and the hour.
LEMMA OtherTypes ==
    ASSUME TypeInv,
           \/ \E m \in Emitters : EmissionFails(m) \/ DeleteAccount(m)
           \/ \E e \in Endpoints : \/ CreateEndpoint(e)
                                   \/ \E active \in BOOLEAN : SetWebhookEndpointActive(e, active)
           \/ HourPasses
    PROVE  TypeInv'
  <1>1. Quiet \in Emission
    BY DEF Emission
  <1>2. ASSUME NEW m \in Emitters, EmissionFails(m) PROVE TypeInv'
    BY <1>1, <1>2, EmissionStepType DEF EmissionFails, Fault, TypeInv, TypeOK, endpointVars
  <1>3. ASSUME NEW m \in Emitters, DeleteAccount(m) PROVE TypeInv'
    BY <1>1, <1>3, EmissionStepType DEF DeleteAccount, TypeInv, TypeOK
  <1>4. ASSUME NEW e \in Endpoints, CreateEndpoint(e) PROVE TypeInv'
    BY <1>4, EmissionStepType DEF CreateEndpoint, TypeInv, TypeOK
  <1>5. ASSUME NEW e \in Endpoints, NEW active \in BOOLEAN, SetWebhookEndpointActive(e, active)
        PROVE  TypeInv'
    BY <1>5, EmissionStepType DEF SetWebhookEndpointActive, TypeInv, TypeOK
  <1>6. ASSUME HourPasses PROVE TypeInv'
    BY <1>6, EmissionStepType DEF HourPasses, TypeInv, TypeOK, endpointVars
  <1> QED
    BY <1>2, <1>3, <1>4, <1>5, <1>6

LEMMA TypeInvNext == TypeInv /\ [Next]_vars => TypeInv'
  <1> SUFFICES ASSUME TypeInv, [Next]_vars PROVE TypeInv'
    OBVIOUS
  <1>1. ASSUME NEW m \in Emitters, NEW event \in EventTypes, NEW c \in Connections,
               EmitConnectionEvent(m, event, c)
        PROVE  TypeInv'
    BY <1>1, EmitType
  <1>2. ASSUME NEW m \in Emitters, Dedupe(m) \/ Insert(m) PROVE TypeInv'
    BY <1>2, DedupeType, InsertType
  <1>3. ASSUME NEW r \in Runs, DeliverPending(r) \/ RunStep(r) PROVE TypeInv'
    BY <1>3, DeliverType, PostType, MarkDeliveredType, RetryType, EndRunType DEF RunStep
  <1>4. ASSUME NEW e \in Endpoints, DeleteWebhookEndpoint(e) PROVE TypeInv'
    BY <1>4, DeleteEndpointType
  <1>5. ASSUME NEW d \in Deliveries, BecomesDue(d) PROVE TypeInv'
    BY <1>5, BecomesDueType
  <1>6. CASE UNCHANGED vars
    <2>1. UNCHANGED <<endpointVars, emission, rowVars, since, runVars, historyVars, faults>>
      BY <1>6 DEF vars
    <2> QED
      BY <2>1 DEF TypeInv, TypeOK, RowsNumbered, endpointVars, rowVars, runVars, historyVars
  <1> QED
    BY <1>1, <1>2, <1>3, <1>4, <1>5, <1>6, OtherTypes DEF Next

\* Every variable keeps its type, and a row that is still to be tried, or a run
\* that remembers it, has fewer than MAX_ATTEMPTS attempts to its name
\* (webhooks.ts:241-254).
THEOREM OutboxTypeCorrect == Spec => []TypeOK
  <1>1. TypeInv => TypeOK
    BY DEF TypeInv
  <1> QED
    BY <1>1, TypeInvInit, TypeInvNext, PTL DEF Spec

----------------------------------------------------------------------------
(* Delivery *)

DeliveryOK == CountsWereTried /\ AcceptedInHand /\ GivenUpAfterAllTries /\ DeliveredWasAccepted

\* The types that the delivery proofs use.
LEMMA DeliveryTypes ==
    ASSUME TypeInv
    PROVE  /\ status \in [Deliveries -> {"none", "PENDING", "DELIVERED", "FAILED", "deleted"}]
           /\ attempts \in [Deliveries -> 0..MaxAttempts]
           /\ tries \in [Deliveries -> 0..MaxAttempts]
           /\ stage \in [Runs -> Stage]
           /\ batch \in [Runs -> SUBSET Item]
           /\ item \in [Runs -> Item \cup {None}]
           /\ \A i \in Item : i.id \in Deliveries /\ i.attempts \in 0..(MaxAttempts - 1)
           /\ MaxAttempts \in Nat /\ MaxAttempts > 0
  BY ConstantsAssumption DEF TypeInv, TypeOK, Item

LEMMA InsertDelivery ==
    ASSUME TypeInv, DeliveryOK, NEW m \in Emitters, Insert(m)
    PROVE  DeliveryOK'
  <1> DEFINE T == emission[m].targets
  <1>1. emission[m] # Quiet
    BY QuietFacts DEF Insert
  <1>2. T \in SUBSET Endpoints /\ CreateMany(m, T)
    BY <1>1, EmissionFacts DEF Insert
  <1> HIDE DEF T
  <1>3. /\ \A d \in Deliveries : d \notin New => status'[d] = status[d]
        /\ \A d \in New : d \in Deliveries /\ status[d] = "none" /\ status'[d] = "PENDING"
    BY <1>1, <1>2, CreateManyFacts DEF New
  <1>4. UNCHANGED <<attempts, stage, batch, item, tries, accepted>>
    BY <1>2 DEF Insert, CreateMany, runVars, historyVars
  <1>5. \A d \in New : attempts[d] = 0
    BY <1>3 DEF TypeInv, TypeOK, RowsNumbered
  <1>6. \A d \in Deliveries : Exists(d)' => Exists(d) \/ d \in New
    BY <1>3 DEF Exists
  <1>7. \A d \in Deliveries : d \in New => d > created
    BY DEF TypeInv, TypeOK, New, Deliveries
  <1>8. \A r \in Runs :
          /\ \A i \in batch[r] : i.id \in Deliveries /\ i.id \notin New
          /\ stage[r] \in {"accepted", "refused"} =>
               item[r].id \in Deliveries /\ item[r].id \notin New
    BY <1>7, ItemFacts DEF TypeInv, TypeOK, RowsNumbered, Item, Deliveries
  <1>9. CountsWereTried'
    BY <1>4, <1>5, <1>6, <1>8, DeliveryTypes
    DEF DeliveryOK, CountsWereTried
  <1>10. AcceptedInHand'
    BY <1>4, <1>6, <1>8 DEF DeliveryOK, AcceptedInHand
  <1>11. GivenUpAfterAllTries' /\ DeliveredWasAccepted'
    BY <1>3, <1>4 DEF DeliveryOK, GivenUpAfterAllTries, DeliveredWasAccepted
  <1> QED
    BY <1>9, <1>10, <1>11 DEF DeliveryOK

LEMMA DeliverDelivery ==
    ASSUME TypeInv, DeliveryOK, NEW r \in Runs, DeliverPending(r)
    PROVE  DeliveryOK'
  <1>1. PICK S \in Batches :
          batch' = [batch EXCEPT ![r] = {[id |-> d, attempts |-> attempts[d]] : d \in S}]
    BY DEF DeliverPending
  <1>2. S \subseteq Deliveries
    BY DEF Batches, TypeInv, TypeOK
  <1>3. /\ stage' = [stage EXCEPT ![r] = "looping"]
        /\ UNCHANGED <<status, attempts, item, tries, accepted>>
    BY DEF DeliverPending, rowVars, historyVars
  <1>4. \A x \in Runs : \A i \in batch'[x] : Exists(i.id) => i.attempts <= tries[i.id]
    BY <1>1, <1>2, DeliveryTypes DEF DeliveryOK, CountsWereTried
  <1> QED
    BY <1>3, <1>4, DeliveryTypes
    DEF DeliveryOK, CountsWereTried, AcceptedInHand, GivenUpAfterAllTries,
        DeliveredWasAccepted, Exists

LEMMA PostDelivery ==
    ASSUME TypeInv, DeliveryOK, NEW r \in Runs, Post(r)
    PROVE  DeliveryOK'
  <1>1. PICK i \in batch[r] :
          /\ batch' = [batch EXCEPT ![r] = @ \ {i}]
          /\ item' = [item EXCEPT ![r] = i]
          /\ tries' = [tries EXCEPT ![i.id] = IF @ < MaxAttempts THEN @ + 1 ELSE @]
          /\ \/ stage' = [stage EXCEPT ![r] = "accepted"] /\ accepted' = accepted \cup {i.id}
             \/ /\ stage' = [stage EXCEPT ![r] = "refused"]
                /\ accepted' \in {accepted, accepted \cup {i.id}}
    BY DEF Post
  <1>2. UNCHANGED <<status, attempts>>
    BY DEF Post, rowVars
  <1>3. i \in Item /\ i.id \in Deliveries /\ i.attempts \in 0..(MaxAttempts - 1)
    BY DeliveryTypes
  <1>4. \A d \in Deliveries : tries'[d] \in 0..MaxAttempts /\ tries[d] <= tries'[d]
    BY <1>1, <1>3, DeliveryTypes
  <1>5. Exists(i.id) => i.attempts < tries'[i.id]
    BY <1>1, <1>3, DeliveryTypes DEF DeliveryOK, CountsWereTried
  <1>6. \A d \in Deliveries : Exists(d)' <=> Exists(d)
    BY <1>2 DEF Exists
  <1>7. \A d \in Deliveries : Exists(d) => attempts[d] <= tries'[d]
    BY <1>4, DeliveryTypes DEF DeliveryOK, CountsWereTried
  <1>8. \A x \in Runs : \A j \in batch'[x] : Exists(j.id)' => j.attempts <= tries'[j.id]
    <2>1. \A x \in Runs : \A j \in batch'[x] : j \in batch[x] /\ j \in Item
      BY <1>1, DeliveryTypes
    <2> QED
      BY <2>1, <1>4, <1>6, DeliveryTypes DEF DeliveryOK, CountsWereTried
  <1>9. \A x \in Runs : stage'[x] \in {"accepted", "refused"} /\ Exists(item[x].id)' =>
          item'[x].attempts < tries'[item'[x].id]
    <2> TAKE x \in Runs
    <2>1. CASE x = r
      BY <2>1, <1>1, <1>3, <1>5, <1>6, DeliveryTypes DEF Exists
    <2>2. CASE x # r /\ stage[x] \in {"accepted", "refused"}
      <3>1. item[x] \in Item /\ item[x].id \in Deliveries /\ item[x].attempts \in Nat
        BY <2>2, ItemFacts, ConstantsAssumption
      <3>2. item'[x] = item[x]
        BY <2>2, <1>1, DeliveryTypes
      <3>3. Exists(item[x].id) => item[x].attempts < tries'[item[x].id]
        BY <2>2, <3>1, <1>4, DeliveryTypes DEF DeliveryOK, CountsWereTried
      <3> QED
        BY <3>2, <3>3, <1>2 DEF Exists
    <2>3. CASE x # r /\ stage[x] \notin {"accepted", "refused"}
      BY <2>3, <1>1, DeliveryTypes
    <2> QED
      BY <2>1, <2>2, <2>3
  <1>10. CountsWereTried'
    BY <1>2, <1>6, <1>7, <1>8, <1>9 DEF CountsWereTried
  <1>11. AcceptedInHand'
    BY <1>1, <1>2, <1>3, <1>6, ItemFacts, DeliveryTypes DEF DeliveryOK, AcceptedInHand, Exists
  <1>12. GivenUpAfterAllTries'
    BY <1>2, <1>4, DeliveryTypes DEF DeliveryOK, GivenUpAfterAllTries
  <1>13. DeliveredWasAccepted'
    BY <1>1, <1>2 DEF DeliveryOK, DeliveredWasAccepted
  <1> QED
    BY <1>10, <1>11, <1>12, <1>13 DEF DeliveryOK

\* A run records what it learned of a row: s with n attempts, all of them tried.
LEMMA UpdateDelivery ==
    ASSUME TypeInv, DeliveryOK, NEW d \in Deliveries,
           NEW s \in {"PENDING", "DELIVERED", "FAILED"}, NEW n \in 0..MaxAttempts,
           n <= tries[d], s = "FAILED" => n >= MaxAttempts, s = "DELIVERED" => d \in accepted,
           Exists(d),
           status' = [status EXCEPT ![d] = s], attempts' = [attempts EXCEPT ![d] = n],
           NEW r \in Runs, stage' = [stage EXCEPT ![r] = "looping"],
           item' = [item EXCEPT ![r] = None],
           UNCHANGED <<batch, tries, accepted>>
    PROVE  DeliveryOK'
  <1>1. \A x \in Deliveries : Exists(x)' <=> Exists(x)
    BY DeliveryTypes DEF Exists
  <1>2. \A x \in Deliveries : Exists(x) => attempts'[x] <= tries[x]
    BY DeliveryTypes DEF DeliveryOK, CountsWereTried
  <1>3. \A x \in Runs : \A i \in batch[x] : i.id \in Deliveries
    BY DeliveryTypes
  <1>4. \A x \in Runs : stage'[x] \in {"accepted", "refused"} =>
          /\ stage[x] = stage'[x] /\ item'[x] = item[x]
          /\ item[x].id \in Deliveries
    BY ItemFacts, DeliveryTypes
  <1>5. CountsWereTried'
    BY <1>1, <1>2, <1>3, <1>4 DEF DeliveryOK, CountsWereTried
  <1>6. AcceptedInHand'
    BY <1>1, <1>4 DEF DeliveryOK, AcceptedInHand
  <1>7. GivenUpAfterAllTries' /\ DeliveredWasAccepted'
    BY DeliveryTypes DEF DeliveryOK, GivenUpAfterAllTries, DeliveredWasAccepted
  <1> QED
    BY <1>5, <1>6, <1>7 DEF DeliveryOK

LEMMA MarkDeliveredDelivery ==
    ASSUME TypeInv, DeliveryOK, NEW r \in Runs, MarkDelivered(r)
    PROVE  DeliveryOK'
  <1> DEFINE d == item[r].id
             n == item[r].attempts + 1
  <1>1. stage[r] = "accepted" /\ Exists(d)
    BY DEF MarkDelivered
  <1>2. d \in Deliveries /\ n \in 0..MaxAttempts /\ n <= tries[d] /\ d \in accepted
    BY <1>1, ItemFacts, DeliveryTypes DEF DeliveryOK, CountsWereTried, AcceptedInHand
  <1>3. /\ status' = [status EXCEPT ![d] = "DELIVERED"]
        /\ attempts' = [attempts EXCEPT ![d] = n]
        /\ stage' = [stage EXCEPT ![r] = "looping"]
        /\ item' = [item EXCEPT ![r] = None]
        /\ UNCHANGED <<batch, tries, accepted>>
    BY DEF MarkDelivered, historyVars
  <1> HIDE DEF d, n
  <1> QED
    BY <1>1, <1>2, <1>3, UpdateDelivery

LEMMA RetryDelivery ==
    ASSUME TypeInv, DeliveryOK, NEW r \in Runs, Retry(r)
    PROVE  DeliveryOK'
  <1> DEFINE d == item[r].id
             n == item[r].attempts + 1
             s == IF Exhausted(n) THEN "FAILED" ELSE "PENDING"
  <1>1. stage[r] \in {"accepted", "refused"} /\ Exists(d)
    BY DEF Retry, ScheduleRetry
  <1>2. d \in Deliveries /\ n \in 0..MaxAttempts /\ n <= tries[d]
    BY <1>1, ItemFacts, DeliveryTypes DEF DeliveryOK, CountsWereTried
  <1>3. /\ s \in {"PENDING", "DELIVERED", "FAILED"} /\ s # "DELIVERED"
        /\ s = "FAILED" => n >= MaxAttempts
    BY DEF Exhausted
  <1>4. /\ status' = [status EXCEPT ![d] = s]
        /\ attempts' = [attempts EXCEPT ![d] = n]
        /\ stage' = [stage EXCEPT ![r] = "looping"]
        /\ item' = [item EXCEPT ![r] = None]
        /\ UNCHANGED <<batch, tries, accepted>>
    BY DEF Retry, ScheduleRetry, historyVars
  <1> HIDE DEF d, n, s
  <1> QED
    BY <1>1, <1>2, <1>3, <1>4, UpdateDelivery

LEMMA EndRunDelivery ==
    ASSUME TypeInv, DeliveryOK, NEW r \in Runs, EndRun(r)
    PROVE  DeliveryOK'
  BY DeliveryTypes
  DEF EndRun, DeliveryOK, CountsWereTried, AcceptedInHand, GivenUpAfterAllTries,
      DeliveredWasAccepted, Exists, rowVars, historyVars

LEMMA DeleteEndpointDelivery ==
    ASSUME TypeInv, DeliveryOK, NEW e \in Endpoints, DeleteWebhookEndpoint(e)
    PROVE  DeliveryOK'
  <1> DEFINE gone == {d \in Deliveries : Exists(d) /\ about[d].endpoint = e}
  <1>1. /\ status' = [d \in Deliveries |-> IF d \in gone THEN "deleted" ELSE status[d]]
        /\ attempts' = [d \in Deliveries |-> IF d \in gone THEN 0 ELSE attempts[d]]
        /\ tries' = [d \in Deliveries |-> IF d \in gone THEN 0 ELSE tries[d]]
        /\ accepted' = accepted \ gone
        /\ UNCHANGED <<stage, batch, item>>
    BY DEF DeleteWebhookEndpoint, runVars
  <1> HIDE DEF gone
  <1>2. \A d \in Deliveries : Exists(d)' => Exists(d) /\ d \notin gone
    BY <1>1 DEF Exists
  <1>3. \A r \in Runs : /\ \A i \in batch[r] : i.id \in Deliveries
                        /\ stage[r] \in {"accepted", "refused"} => item[r].id \in Deliveries
    BY ItemFacts, DeliveryTypes
  <1>4. CountsWereTried'
    BY <1>1, <1>2, <1>3 DEF DeliveryOK, CountsWereTried
  <1>5. AcceptedInHand'
    BY <1>1, <1>2, <1>3 DEF DeliveryOK, AcceptedInHand
  <1>6. GivenUpAfterAllTries' /\ DeliveredWasAccepted'
    BY <1>1 DEF DeliveryOK, GivenUpAfterAllTries, DeliveredWasAccepted
  <1> QED
    BY <1>4, <1>5, <1>6 DEF DeliveryOK

\* Steps that are not about rows or runs.
LEMMA OtherDelivery ==
    ASSUME DeliveryOK, UNCHANGED <<status, attempts, stage, batch, item, tries, accepted>>
    PROVE  DeliveryOK'
  BY DEF DeliveryOK, CountsWereTried, AcceptedInHand, GivenUpAfterAllTries,
         DeliveredWasAccepted, Exists

LEMMA DeliveryNext == DeliveryInv /\ [Next]_vars => DeliveryInv'
  <1> SUFFICES ASSUME TypeInv, DeliveryOK, [Next]_vars PROVE DeliveryOK'
    BY TypeInvNext DEF DeliveryInv, DeliveryOK
  <1>1. ASSUME NEW m \in Emitters, NEW event \in EventTypes, NEW c \in Connections,
               EmitConnectionEvent(m, event, c)
        PROVE  DeliveryOK'
    BY <1>1, OtherDelivery DEF EmitConnectionEvent, rowVars, runVars, historyVars
  <1>2. ASSUME NEW m \in Emitters, Dedupe(m) \/ EmissionFails(m) \/ DeleteAccount(m)
        PROVE  DeliveryOK'
    BY <1>2, OtherDelivery
    DEF Dedupe, EmissionFails, DeleteAccount, rowVars, runVars, historyVars
  <1>3. ASSUME NEW m \in Emitters, Insert(m) PROVE DeliveryOK'
    BY <1>3, InsertDelivery
  <1>4. ASSUME NEW r \in Runs, DeliverPending(r) PROVE DeliveryOK'
    BY <1>4, DeliverDelivery
  <1>5. ASSUME NEW r \in Runs, RunStep(r) PROVE DeliveryOK'
    BY <1>5, PostDelivery, MarkDeliveredDelivery, RetryDelivery, EndRunDelivery DEF RunStep
  <1>6. ASSUME NEW e \in Endpoints, CreateEndpoint(e) PROVE DeliveryOK'
    BY <1>6, OtherDelivery DEF CreateEndpoint, rowVars, runVars, historyVars
  <1>7. ASSUME NEW e \in Endpoints, NEW active \in BOOLEAN, SetWebhookEndpointActive(e, active)
        PROVE  DeliveryOK'
    BY <1>7, OtherDelivery DEF SetWebhookEndpointActive, rowVars, runVars, historyVars
  <1>8. ASSUME NEW e \in Endpoints, DeleteWebhookEndpoint(e) PROVE DeliveryOK'
    BY <1>8, DeleteEndpointDelivery
  <1>9. ASSUME NEW d \in Deliveries, BecomesDue(d) PROVE DeliveryOK'
    BY <1>9, OtherDelivery DEF BecomesDue, runVars, historyVars
  <1>10. CASE HourPasses
    BY <1>10, OtherDelivery DEF HourPasses, rowVars, runVars, historyVars
  <1>11. CASE UNCHANGED vars
    BY <1>11, OtherDelivery DEF vars, rowVars, runVars, historyVars
  <1> QED
    BY <1>1, <1>2, <1>3, <1>4, <1>5, <1>6, <1>7, <1>8, <1>9, <1>10, <1>11 DEF Next

LEMMA DeliveryInit == Init => DeliveryInv
  <1> SUFFICES ASSUME Init PROVE DeliveryInv
    OBVIOUS
  <1>1. CountsWereTried /\ AcceptedInHand
    BY DEF Init, CountsWereTried, AcceptedInHand, Exists
  <1>2. GivenUpAfterAllTries /\ DeliveredWasAccepted
    BY DEF Init, GivenUpAfterAllTries, DeliveredWasAccepted
  <1> QED
    BY <1>1, <1>2, TypeInvInit DEF DeliveryInv

\* The invariant of the delivery runs.
THEOREM DeliveryInvariance == Spec => []DeliveryInv
  BY DeliveryInit, DeliveryNext, PTL DEF Spec

\* A row is given up only after MAX_ATTEMPTS posts, however many runs overlap
\* and overwrite each other's count (webhooks.ts:241-254).
THEOREM NoRowGivenUpEarly == Spec => []GivenUpAfterAllTries
  <1>1. DeliveryInv => GivenUpAfterAllTries
    BY DEF DeliveryInv
  <1> QED
    BY <1>1, DeliveryInvariance, PTL

\* A row says DELIVERED only if its endpoint accepted it (webhooks.ts:221-225).
THEOREM DeliveredMeansAccepted == Spec => []DeliveredWasAccepted
  <1>1. DeliveryInv => DeliveredWasAccepted
    BY DEF DeliveryInv
  <1> QED
    BY <1>1, DeliveryInvariance, PTL
----------------------------------------------------------------------------
(* Emission *)

EmissionOK ==
    TargetsAlike /\ DeletesAnnounced /\ TargetsUntold
                 /\ OneExpiryPerEmitter /\ SubscribersHearAlike /\ RemovalWasAnnounced

\* The types that the emission proofs use.
LEMMA EmissionTypes ==
    ASSUME TypeInv
    PROVE  /\ endpoint \in [Endpoints -> {"none", "active", "paused", "deleted"}]
           /\ emission \in [Emitters -> Emission]
           /\ Quiet \in Emission
           /\ Quiet.pc = "idle"
           /\ clock \in Nat /\ since \in Nat
           /\ steady \subseteq Endpoints
           /\ \A d \in Deliveries : Exists(d) =>
                /\ about[d] \in About
                /\ about[d].endpoint \in Endpoints
                /\ about[d].createdAt \in Nat
  <1>1. \A d \in Deliveries : Exists(d) => d <= created
    BY ConstantsAssumption DEF TypeInv, TypeOK, RowsNumbered, Exists, Deliveries
  <1>2. \A d \in Deliveries : Exists(d) => about[d] \in About
    BY <1>1 DEF TypeInv, TypeOK
  <1>3. \A a \in About : a.endpoint \in Endpoints /\ a.createdAt \in Nat
    BY DEF About
  <1> QED
    BY <1>2, <1>3 DEF TypeInv, TypeOK, Emission, Quiet

\* The same rows exist, and no emission and no endpoint moved.
LEMMA RowsKept ==
    ASSUME EmissionOK, \A d \in Deliveries : Exists(d)' <=> Exists(d),
           UNCHANGED <<about, since, emission, endpointVars>>
    PROVE  EmissionOK'
  <1> USE DEF endpointVars
  <1>1. TargetsAlike'
    BY DEF EmissionOK, TargetsAlike, Telling
  <1>2. DeletesAnnounced' /\ TargetsUntold'
    BY DEF EmissionOK, DeletesAnnounced, TargetsUntold, Tells
  <1>3. OneExpiryPerEmitter' /\ SubscribersHearAlike' /\ RemovalWasAnnounced'
    BY DEF EmissionOK, OneExpiryPerEmitter, SubscribersHearAlike, RemovalWasAnnounced
  <1> QED
    BY <1>1, <1>2, <1>3 DEF EmissionOK

\* A step of one emitter that changes no row, no endpoint and no account: what
\* its own emission has to satisfy.
LEMMA EmissionMoves ==
    ASSUME TypeInv, EmissionOK, NEW m \in Emitters, NEW n \in Emission,
           emission' = [emission EXCEPT ![m] = n],
           UNCHANGED <<endpointVars, rowVars, since>>,
           n.pc = "dedupe" => n.event = "connection.expired",
           n.pc \in {"dedupe", "insert"} =>
               /\ \A e \in n.targets : n.event \in Subscribes[e]
               /\ \A e1, e2 \in steady :
                    /\ n.event \in Subscribes[e1]
                    /\ n.event \in Subscribes[e2]
                    /\ e1 \in n.targets
                    => e2 \in n.targets
               /\ n.event # "connection.expired" => \A e \in steady :
                    n.event \in Subscribes[e] => e \in n.targets,
           n.pc = "delete" => \A e \in steady :
               "connection.disconnected" \in Subscribes[e] =>
                   \E d \in Deliveries :
                       Tells(d, e, "connection.disconnected", n.connection),
           n.pc = "insert" /\ n.event = "connection.expired" =>
               \A d \in Deliveries, e \in n.targets :
                   /\ Tells(d, e, n.event, n.connection)
                   /\ about[d].createdAt >= since
                   => about[d].by # m
    PROVE  EmissionOK'
  <1> USE DEF endpointVars, rowVars
  <1>1. emission'[m] = n /\ \A x \in Emitters : x # m => emission'[x] = emission[x]
    BY EmissionTypes
  <1>2. TargetsAlike'
    BY <1>1 DEF EmissionOK, TargetsAlike, Telling
  <1>3. DeletesAnnounced'
    BY <1>1 DEF EmissionOK, DeletesAnnounced, Tells, Exists
  <1>4. TargetsUntold'
    BY <1>1 DEF EmissionOK, TargetsUntold, Tells, Exists
  <1>5. OneExpiryPerEmitter' /\ SubscribersHearAlike' /\ RemovalWasAnnounced'
    BY DEF EmissionOK, OneExpiryPerEmitter, SubscribersHearAlike, RemovalWasAnnounced, Exists
  <1> QED
    BY <1>2, <1>3, <1>4, <1>5 DEF EmissionOK

LEMMA QuietMoves ==
    ASSUME TypeInv, EmissionOK, NEW m \in Emitters,
           emission' = [emission EXCEPT ![m] = Quiet],
           UNCHANGED <<endpointVars, rowVars, since>>
    PROVE  EmissionOK'
  BY EmissionTypes, EmissionMoves

LEMMA EmitEmission ==
    ASSUME TypeInv, EmissionOK, NEW m \in Emitters, NEW event \in EventTypes,
           NEW c \in Connections, EmitConnectionEvent(m, event, c)
    PROVE  EmissionOK'
  <1> DEFINE endpoints == {e \in Endpoints : endpoint[e] = "active" /\ event \in Subscribes[e]}
             n == [pc |-> IF event = "connection.expired" THEN "dedupe" ELSE "insert",
                   event |-> event, connection |-> c, targets |-> endpoints]
             gone == [pc |-> "delete", event |-> event, connection |-> c, targets |-> {}]
  <1>1. UNCHANGED <<endpointVars, rowVars, since>>
    BY DEF EmitConnectionEvent
  <1>2. \A e \in steady : event \in Subscribes[e] => e \in endpoints
    BY EmissionTypes DEF EmissionOK, TargetsAlike
  <1>3. CASE endpoints # {}
    <2>1. n \in Emission
      BY DEF Emission
    <2>2. emission' = [emission EXCEPT ![m] = n]
      BY <1>3 DEF EmitConnectionEvent
    <2>3. /\ n.pc = (IF event = "connection.expired" THEN "dedupe" ELSE "insert")
          /\ n.event = event /\ n.connection = c /\ n.targets = endpoints
      OBVIOUS
    <2>4. \A e \in n.targets : event \in Subscribes[e]
      OBVIOUS
    <2> HIDE DEF n, endpoints
    <2> QED
      BY <1>1, <1>2, <2>1, <2>2, <2>3, <2>4, EmissionMoves
  <1>4. CASE endpoints = {} /\ event = "connection.disconnected"
    <2>1. gone \in Emission
      BY DEF Emission
    <2>2. emission' = [emission EXCEPT ![m] = gone]
      BY <1>4 DEF EmitConnectionEvent, Returns
    <2>3. gone.pc = "delete"
      OBVIOUS
    <2> HIDE DEF gone, endpoints
    <2> QED
      BY <1>1, <1>2, <1>4, <2>1, <2>2, <2>3, EmissionMoves
  <1>5. CASE endpoints = {} /\ event # "connection.disconnected"
    BY <1>1, <1>5, QuietMoves DEF EmitConnectionEvent, Returns
  <1> QED
    BY <1>3, <1>4, <1>5
\* A subscriber that was heard of by one is by all: the one insert tells them all.
LEMMA HeardAlike ==
    ASSUME TypeInv, EmissionOK, NEW e1 \in steady, NEW e2 \in steady,
           NEW event \in EventTypes, NEW c \in Connections,
           event \in Subscribes[e1], Heard(e2, event, c)
    PROVE  Heard(e1, event, c)
  <1>1. PICK d2 \in Deliveries :
          /\ Exists(d2)
          /\ about[d2].endpoint = e2
          /\ about[d2].event = event
          /\ about[d2].connection = c
          /\ about[d2].createdAt >= since
    BY DEF Heard
  <1>2. PICK d1 \in Deliveries :
          /\ Exists(d1)
          /\ about[d1].endpoint = e1
          /\ about[d1].event = about[d2].event
          /\ about[d1].connection = about[d2].connection
          /\ about[d1].createdAt = about[d2].createdAt
    BY <1>1 DEF EmissionOK, SubscribersHearAlike
  <1> QED
    BY <1>1, <1>2 DEF Heard

LEMMA DedupeEmission ==
    ASSUME TypeInv, EmissionOK, NEW m \in Emitters, Dedupe(m)
    PROVE  EmissionOK'
  <1> DEFINE old == emission[m]
             targets == {e \in old.targets : ~Heard(e, old.event, old.connection)}
             n == [old EXCEPT !.pc = "insert", !.targets = targets]
  <1>1. old # Quiet /\ old.pc = "dedupe" /\ UNCHANGED <<endpointVars, rowVars, since>>
    BY QuietFacts DEF Dedupe
  <1>2. old.event = "connection.expired"
    BY <1>1 DEF EmissionOK, TargetsAlike
  <1>3. old.connection \in Connections /\ old.event \in EventTypes
    BY <1>1, EmissionFacts
  <1>4. CASE targets = {}
    BY <1>1, <1>2, <1>4, QuietMoves DEF Dedupe, Returns
  <1>5. CASE targets # {}
    <2>1. old \in [pc : {"dedupe", "insert", "delete"}, event : EventTypes,
                   connection : Connections, targets : SUBSET Endpoints]
      BY <1>1 DEF Emission, TypeInv, TypeOK
    <2>2. targets \subseteq old.targets
      OBVIOUS
    <2>3. \A e \in targets, d \in Deliveries :
            ~(Tells(d, e, old.event, old.connection) /\ about[d].createdAt >= since)
      BY DEF Tells, Heard
    <2>4. \A e1, e2 \in steady :
            /\ old.event \in Subscribes[e1]
            /\ old.event \in Subscribes[e2]
            /\ e1 \in targets
            => e2 \in targets
      BY <1>1, <1>3, HeardAlike DEF EmissionOK, TargetsAlike, Telling
    <2>5. \A e \in targets : old.event \in Subscribes[e]
      BY <1>1, <2>2 DEF EmissionOK, TargetsAlike, Telling
    <2>6. emission' = [emission EXCEPT ![m] = n]
      BY <1>5, EmissionTypes DEF Dedupe
    <2> HIDE DEF targets
    <2>7. /\ n \in [pc : {"dedupe", "insert", "delete"}, event : EventTypes,
                    connection : Connections, targets : SUBSET Endpoints]
          /\ n.pc = "insert" /\ n.event = old.event /\ n.connection = old.connection
          /\ n.targets = targets
      BY <2>1, <2>2
    <2>8. n \in Emission
      BY <2>7 DEF Emission
    <2> HIDE DEF n, old
    <2> QED
      BY <1>1, <1>2, <2>3, <2>4, <2>5, <2>6, <2>7, <2>8, EmissionMoves
  <1> QED
    BY <1>4, <1>5

LEMMA DeleteAccountEmission ==
    ASSUME TypeInv, EmissionOK, NEW m \in Emitters, DeleteAccount(m)
    PROVE  EmissionOK'
  <1>1. /\ emission[m].pc = "delete"
        /\ accounts' = accounts \ {emission[m].connection}
        /\ emission' = [emission EXCEPT ![m] = Quiet]
        /\ UNCHANGED <<endpoint, steady, status, about, since>>
    BY DEF DeleteAccount, rowVars
  <1>2. emission'[m] = Quiet /\ \A x \in Emitters : x # m => emission'[x] = emission[x]
    BY <1>1, EmissionTypes
  <1>3. TargetsAlike'
    BY <1>1, <1>2, EmissionTypes DEF EmissionOK, TargetsAlike, Telling
  <1>4. DeletesAnnounced'
    BY <1>1, <1>2, EmissionTypes DEF EmissionOK, DeletesAnnounced, Tells, Exists
  <1>5. TargetsUntold'
    BY <1>1, <1>2, EmissionTypes DEF EmissionOK, TargetsUntold, Tells, Exists
  <1>6. OneExpiryPerEmitter' /\ SubscribersHearAlike'
    BY <1>1 DEF EmissionOK, OneExpiryPerEmitter, SubscribersHearAlike, Exists
  <1>7. RemovalWasAnnounced'
    BY <1>1 DEF EmissionOK, RemovalWasAnnounced, DeletesAnnounced, Tells, Exists
  <1> QED
    BY <1>3, <1>4, <1>5, <1>6, <1>7 DEF EmissionOK

LEMMA DeleteEndpointEmission ==
    ASSUME TypeInv, EmissionOK, NEW e \in Endpoints, DeleteWebhookEndpoint(e)
    PROVE  EmissionOK'
  <1>1. /\ endpoint' = [endpoint EXCEPT ![e] = "deleted"]
        /\ steady' = steady \ {e}
        /\ UNCHANGED <<accounts, emission, about, since>>
    BY DEF DeleteWebhookEndpoint
  <1>2. \A d \in Deliveries : Exists(d)' <=> Exists(d) /\ about[d].endpoint # e
    BY DEF DeleteWebhookEndpoint, Exists
  <1>3. TargetsAlike'
    BY <1>1, EmissionTypes DEF EmissionOK, TargetsAlike, Telling
  <1>4. DeletesAnnounced'
    BY <1>1, <1>2 DEF EmissionOK, DeletesAnnounced, Tells
  <1>5. TargetsUntold'
    BY <1>1, <1>2 DEF EmissionOK, TargetsUntold, Tells
  <1>6. OneExpiryPerEmitter'
    BY <1>1, <1>2 DEF EmissionOK, OneExpiryPerEmitter
  <1>7. SubscribersHearAlike'
    BY <1>1, <1>2 DEF EmissionOK, SubscribersHearAlike
  <1>8. RemovalWasAnnounced'
    BY <1>1, <1>2 DEF EmissionOK, RemovalWasAnnounced
  <1> QED
    BY <1>3, <1>4, <1>5, <1>6, <1>7, <1>8 DEF EmissionOK

\* An endpoint that was not active all along is created, paused or resumed, or an
\* hour passes: fewer endpoints and fewer rows matter.
LEMMA FewerMatter ==
    ASSUME TypeInv, EmissionOK, UNCHANGED <<accounts, emission, status, about>>,
           steady' \subseteq steady, \A e \in steady' : endpoint'[e] = "active",
           since' \in Nat, since <= since'
    PROVE  EmissionOK'
  <1>1. \A d \in Deliveries : Exists(d)' <=> Exists(d)
    BY DEF Exists
  <1>2. \A d \in Deliveries : Exists(d) /\ about[d].createdAt >= since'
          => about[d].createdAt >= since
    BY EmissionTypes
  <1>3. TargetsAlike'
    BY DEF EmissionOK, TargetsAlike, Telling
  <1>4. DeletesAnnounced'
    BY <1>1 DEF EmissionOK, DeletesAnnounced, Tells
  <1>5. TargetsUntold'
    BY <1>1, <1>2 DEF EmissionOK, TargetsUntold, Tells
  <1>6. OneExpiryPerEmitter'
    BY <1>1, <1>2 DEF EmissionOK, OneExpiryPerEmitter
  <1>7. SubscribersHearAlike' /\ RemovalWasAnnounced'
    BY <1>1 DEF EmissionOK, SubscribersHearAlike, RemovalWasAnnounced
  <1> QED
    BY <1>3, <1>4, <1>5, <1>6, <1>7 DEF EmissionOK

LEMMA EndpointEmission ==
    ASSUME TypeInv, EmissionOK,
           \/ \E e \in Endpoints : \/ CreateEndpoint(e)
                                   \/ \E active \in BOOLEAN : SetWebhookEndpointActive(e, active)
           \/ HourPasses
    PROVE  EmissionOK'
  <1> USE EmissionTypes, FewerMatter DEF rowVars
  <1>1. \A e \in steady : e \in Endpoints /\ endpoint[e] = "active"
    BY DEF EmissionOK, TargetsAlike
  <1>2. ASSUME NEW e \in Endpoints, CreateEndpoint(e) PROVE EmissionOK'
    BY <1>1, <1>2 DEF CreateEndpoint
  <1>3. ASSUME NEW e \in Endpoints, NEW active \in BOOLEAN, SetWebhookEndpointActive(e, active)
        PROVE  EmissionOK'
    BY <1>1, <1>3 DEF SetWebhookEndpointActive
  <1>4. ASSUME HourPasses PROVE EmissionOK'
    BY <1>1, <1>4 DEF HourPasses, endpointVars
  <1> QED
    BY <1>2, <1>3, <1>4
LEMMA InsertEmission ==
    ASSUME TypeInv, EmissionOK, NEW m \in Emitters, Insert(m)
    PROVE  EmissionOK'
  <1> DEFINE T == emission[m].targets
             event == emission[m].event
             c == emission[m].connection
             gone == [pc |-> "delete", event |-> event, connection |-> c, targets |-> {}]
  <1>1. emission[m] # Quiet /\ emission[m].pc = "insert"
    BY QuietFacts DEF Insert
  <1>2. T \in SUBSET Endpoints /\ CreateMany(m, T)
    BY <1>1, EmissionFacts DEF Insert
  <1>3. \A e \in T : event \in Subscribes[e]
    BY <1>1 DEF EmissionOK, TargetsAlike, Telling
  <1>4. /\ \A e1, e2 \in steady :
             event \in Subscribes[e1] /\ event \in Subscribes[e2] /\ e1 \in T => e2 \in T
        /\ event # "connection.expired" =>
             \A e \in steady : event \in Subscribes[e] => e \in T
    BY <1>1 DEF EmissionOK, TargetsAlike, Telling
  <1>5. event = "connection.expired" =>
          \A d \in Deliveries, e \in T :
              /\ Exists(d)
              /\ about[d].endpoint = e
              /\ about[d].event = event
              /\ about[d].connection = c
              /\ about[d].createdAt >= since
              => about[d].by # m
    BY <1>1 DEF EmissionOK, TargetsUntold, Tells
  <1>6. /\ event = "connection.disconnected" => emission' = [emission EXCEPT ![m] = gone]
        /\ event # "connection.disconnected" => emission' = [emission EXCEPT ![m] = Quiet]
    BY DEF Insert, Returns
  <1>7. UNCHANGED <<endpointVars, since>>
    BY DEF Insert
  <1> HIDE DEF T
  <1>8. /\ \A d \in Deliveries : d \notin New => status'[d] = status[d] /\ about'[d] = about[d]
        /\ \A d \in New :
             /\ d \in Deliveries
             /\ status[d] = "none" /\ status'[d] = "PENDING"
             /\ about'[d].endpoint \in T
             /\ about'[d].event = event
             /\ about'[d].connection = c
             /\ about'[d].createdAt = clock + 1
             /\ about'[d].by = m
        /\ \A d1, d2 \in New : about'[d1].endpoint = about'[d2].endpoint => d1 = d2
        /\ \A e \in T : \E d \in New : about'[d].endpoint = e
    BY <1>1, <1>2, CreateManyFacts DEF New
  <1> HIDE DEF event, c
  <1>9. /\ \A d \in New : Exists(d)'
        /\ \A d \in Deliveries : d \notin New => (Exists(d)' <=> Exists(d))
        /\ \A d \in Deliveries : Exists(d) => d \notin New
    BY <1>8 DEF Exists
  <1>10. \A x \in Emitters : x # m => emission'[x] = emission[x]
    BY <1>6, EmissionTypes
  <1>11. \/ emission'[m] = Quiet
         \/ event = "connection.disconnected" /\ emission'[m] = gone
    BY <1>6, EmissionTypes
  <1>12. /\ gone.pc = "delete" /\ gone.connection = c
         /\ Quiet.pc = "idle"
    BY DEF Quiet
  <1> HIDE DEF gone
  <1>13. emission'[m].pc \notin {"dedupe", "insert"}
    BY <1>11, <1>12
  <1>14. TargetsAlike'
    <2>1. \A x \in Emitters : emission'[x].pc \in {"dedupe", "insert"} => emission'[x] = emission[x]
      BY <1>10, <1>13
    <2> QED
      BY <1>7, <2>1 DEF EmissionOK, TargetsAlike, Telling, endpointVars
  <1>15. DeletesAnnounced'
    <2> SUFFICES ASSUME NEW x \in Emitters, NEW e \in steady,
                        emission'[x].pc = "delete",
                        "connection.disconnected" \in Subscribes[e]
                 PROVE  \E d \in Deliveries :
                          /\ Exists(d)'
                          /\ about'[d].endpoint = e
                          /\ about'[d].event = "connection.disconnected"
                          /\ about'[d].connection = emission'[x].connection
      BY <1>7 DEF DeletesAnnounced, Tells, endpointVars
    <2>1. CASE x = m
      BY <2>1, <1>4, <1>8, <1>9, <1>11, <1>12
    <2>2. CASE x # m
      <3>1. PICK d \in Deliveries : Tells(d, e, "connection.disconnected", emission[x].connection)
        BY <2>2, <1>10 DEF EmissionOK, DeletesAnnounced
      <3> QED
        BY <2>2, <3>1, <1>8, <1>9, <1>10 DEF Tells
    <2> QED
      BY <2>1, <2>2
  <1>16. TargetsUntold'
    <2> SUFFICES ASSUME NEW x \in Emitters, emission'[x].pc = "insert",
                        emission'[x].event = "connection.expired",
                        NEW d \in Deliveries, NEW e \in emission'[x].targets,
                        Tells(d, e, emission[x].event, emission[x].connection)',
                        about'[d].createdAt >= since
                 PROVE  about'[d].by # x
      BY <1>7 DEF TargetsUntold
    <2>1. x # m /\ emission'[x] = emission[x]
      BY <1>10, <1>13
    <2>2. CASE d \in New
      BY <2>1, <2>2, <1>8
    <2>3. CASE d \notin New
      BY <2>1, <2>3, <1>8, <1>9 DEF EmissionOK, TargetsUntold, Tells
    <2> QED
      BY <2>2, <2>3
  <1>17. OneExpiryPerEmitter'
    <2> SUFFICES ASSUME NEW d1 \in Deliveries, NEW d2 \in Deliveries, d1 # d2,
                        Exists(d1)', Exists(d2)',
                        about'[d1].event = "connection.expired",
                        about'[d2].event = "connection.expired",
                        about'[d1].endpoint = about'[d2].endpoint,
                        about'[d1].connection = about'[d2].connection,
                        about'[d1].createdAt >= since, about'[d2].createdAt >= since
                 PROVE  about'[d1].by # about'[d2].by
      BY <1>7 DEF OneExpiryPerEmitter
    <2>1. CASE d1 \in New /\ d2 \in New
      BY <2>1, <1>8
    <2>2. CASE d1 \in New /\ d2 \notin New
      BY <2>2, <1>5, <1>8, <1>9
    <2>3. CASE d1 \notin New /\ d2 \in New
      BY <2>3, <1>5, <1>8, <1>9
    <2>4. CASE d1 \notin New /\ d2 \notin New
      BY <2>4, <1>8, <1>9 DEF EmissionOK, OneExpiryPerEmitter
    <2> QED
      BY <2>1, <2>2, <2>3, <2>4
  <1>18. SubscribersHearAlike'
    <2> SUFFICES ASSUME NEW d1 \in Deliveries, NEW e \in steady, Exists(d1)',
                        about'[d1].endpoint \in steady, about'[d1].event \in Subscribes[e]
                 PROVE  \E d2 \in Deliveries :
                          /\ Exists(d2)'
                          /\ about'[d2].endpoint = e
                          /\ about'[d2].event = about'[d1].event
                          /\ about'[d2].connection = about'[d1].connection
                          /\ about'[d2].createdAt = about'[d1].createdAt
      BY <1>7 DEF SubscribersHearAlike, endpointVars
    <2>1. CASE d1 \in New
      BY <2>1, <1>3, <1>4, <1>8, <1>9
    <2>2. CASE d1 \notin New
      <3>1. PICK d2 \in Deliveries :
              /\ Exists(d2)
              /\ about[d2].endpoint = e
              /\ about[d2].event = about[d1].event
              /\ about[d2].connection = about[d1].connection
              /\ about[d2].createdAt = about[d1].createdAt
        BY <2>2, <1>8, <1>9 DEF EmissionOK, SubscribersHearAlike
      <3> QED
        BY <2>2, <3>1, <1>8, <1>9
    <2> QED
      BY <2>1, <2>2
  <1>19. RemovalWasAnnounced'
    <2> SUFFICES ASSUME NEW k \in Connections \ accounts, NEW e \in steady,
                        "connection.disconnected" \in Subscribes[e]
                 PROVE  \E d \in Deliveries :
                          /\ Exists(d)'
                          /\ about'[d].endpoint = e
                          /\ about'[d].event = "connection.disconnected"
                          /\ about'[d].connection = k
      BY <1>7 DEF RemovalWasAnnounced, endpointVars
    <2>1. PICK d \in Deliveries :
            /\ Exists(d)
            /\ about[d].endpoint = e
            /\ about[d].event = "connection.disconnected"
            /\ about[d].connection = k
      BY DEF EmissionOK, RemovalWasAnnounced
    <2> QED
      BY <2>1, <1>8, <1>9
  <1> QED
    BY <1>14, <1>15, <1>16, <1>17, <1>18, <1>19 DEF EmissionOK

\* A row that is updated still exists.
LEMMA RunEmission ==
    ASSUME TypeInv, EmissionOK, NEW r \in Runs, DeliverPending(r) \/ RunStep(r)
    PROVE  EmissionOK'
  <1>1. UNCHANGED <<about, since, emission, endpointVars>>
    BY DEF DeliverPending, RunStep, Post, MarkDelivered, Retry, EndRun, rowVars
  <1>2. \A d \in Deliveries : Exists(d)' <=> Exists(d)
    <2>1. CASE UNCHANGED status
      BY <2>1 DEF Exists
    <2>2. ASSUME NEW x \in Deliveries, NEW s \in {"PENDING", "DELIVERED", "FAILED"}, Exists(x),
                 status' = [status EXCEPT ![x] = s]
          PROVE  \A d \in Deliveries : Exists(d)' <=> Exists(d)
      BY <2>2, DeliveryTypes DEF Exists
    <2>3. CASE MarkDelivered(r)
      BY <2>2, <2>3, ItemFacts DEF MarkDelivered
    <2>4. CASE Retry(r)
      BY <2>2, <2>4, ItemFacts DEF Retry, ScheduleRetry
    <2>5. CASE DeliverPending(r) \/ Post(r) \/ EndRun(r)
      BY <2>1, <2>5 DEF DeliverPending, Post, EndRun, rowVars
    <2> QED
      BY <2>3, <2>4, <2>5 DEF RunStep
  <1> QED
    BY <1>1, <1>2, RowsKept

LEMMA EmissionNext == EmissionInv /\ [Next]_vars => EmissionInv'
  <1> SUFFICES ASSUME TypeInv, EmissionOK, [Next]_vars PROVE EmissionOK'
    BY TypeInvNext DEF EmissionInv, EmissionOK
  <1>1. ASSUME NEW m \in Emitters, NEW event \in EventTypes, NEW c \in Connections,
               EmitConnectionEvent(m, event, c)
        PROVE  EmissionOK'
    BY <1>1, EmitEmission
  <1>2. ASSUME NEW m \in Emitters, Dedupe(m) \/ Insert(m) \/ DeleteAccount(m)
        PROVE  EmissionOK'
    BY <1>2, DedupeEmission, InsertEmission, DeleteAccountEmission
  <1>3. ASSUME NEW m \in Emitters, EmissionFails(m) PROVE EmissionOK'
    BY <1>3, QuietMoves DEF EmissionFails
  <1>4. ASSUME NEW r \in Runs, DeliverPending(r) \/ RunStep(r) PROVE EmissionOK'
    BY <1>4, RunEmission
  <1>5. ASSUME NEW e \in Endpoints, CreateEndpoint(e) PROVE EmissionOK'
    BY <1>5, EndpointEmission
  <1>6. ASSUME NEW e \in Endpoints, NEW active \in BOOLEAN, SetWebhookEndpointActive(e, active)
        PROVE  EmissionOK'
    BY <1>6, EndpointEmission
  <1>7. ASSUME NEW e \in Endpoints, DeleteWebhookEndpoint(e) PROVE EmissionOK'
    BY <1>7, DeleteEndpointEmission
  <1>8. ASSUME NEW d \in Deliveries, BecomesDue(d) PROVE EmissionOK'
    BY <1>8, RowsKept DEF BecomesDue, Exists
  <1>9. CASE HourPasses
    BY <1>9, EndpointEmission
  <1>10. CASE UNCHANGED vars
    BY <1>10, RowsKept DEF vars, rowVars, Exists
  <1> QED
    BY <1>1, <1>2, <1>3, <1>4, <1>5, <1>6, <1>7, <1>8, <1>9, <1>10 DEF Next

LEMMA EmissionInit == Init => EmissionInv
  <1> SUFFICES ASSUME Init PROVE EmissionInv
    OBVIOUS
  <1>1. \A d \in Deliveries : ~Exists(d)
    BY DEF Init, Exists
  <1>2. TargetsAlike /\ DeletesAnnounced /\ TargetsUntold
    BY DEF Init, TargetsAlike, DeletesAnnounced, TargetsUntold, Telling, Quiet
  <1>3. OneExpiryPerEmitter /\ SubscribersHearAlike /\ RemovalWasAnnounced
    BY <1>1 DEF Init, OneExpiryPerEmitter, SubscribersHearAlike, RemovalWasAnnounced
  <1> QED
    BY <1>2, <1>3, TypeInvInit DEF EmissionInv

\* The invariant of the emissions.
THEOREM EmissionInvariance == Spec => []EmissionInv
  BY EmissionInit, EmissionNext, PTL DEF Spec

\* An emitter tells an endpoint of an expiry once within the hour
\* (webhooks.ts:91-102): only another one at the same time tells it again.
THEOREM OneExpiryFromOneEmitter == Spec => []OneExpiryPerEmitter
  <1>1. EmissionInv => OneExpiryPerEmitter
    BY DEF EmissionInv
  <1> QED
    BY <1>1, EmissionInvariance, PTL

\* Subscribers that were active all along have rows for the same events, for all
\* that crashes between the statements (webhooks.ts:129-136).
THEOREM SubscribersAlike == Spec => []SubscribersHearAlike
  <1>1. EmissionInv => SubscribersHearAlike
    BY DEF EmissionInv
  <1> QED
    BY <1>1, EmissionInvariance, PTL

\* A connection that is gone was announced to every subscriber that was active
\* all along (linked-account.ts:83-94).
THEOREM RemovalAnnounced == Spec => []RemovalWasAnnounced
  <1>1. EmissionInv => RemovalWasAnnounced
    BY DEF EmissionInv
  <1> QED
    BY <1>1, EmissionInvariance, PTL
----------------------------------------------------------------------------
(* What the violated AcceptedStaysDelivered takes: two runs with one row *)

\* The rows a run has read and not recorded yet.
Hands(r) ==
    {i.id : i \in batch[r]} \cup
    (IF stage[r] \in {"accepted", "refused"} THEN {item[r].id} ELSE {})

\* No two runs have the same row in their hands: what a claim on the row, which
\* deliverPending does not make (webhooks.ts:195-206), would ensure.
RunsApart == \A r1, r2 \in Runs : r1 # r2 => Hands(r1) \cap Hands(r2) = {}

\* What is in a run's hands is yet to settle, and is there once.
HandsInv ==
    /\ \A r \in Runs : \A d \in Hands(r) :
         d \in Deliveries /\ d <= created /\ status[d] \in {"PENDING", "deleted"}
    /\ \A r \in Runs :
         /\ \A i, j \in batch[r] : i.id = j.id => i = j
         /\ stage[r] \in {"accepted", "refused"} => \A i \in batch[r] : i.id # item[r].id

\* A row that is delivered or given up stays so, or goes with its endpoint.
SettledRowsStay ==
    \A d \in Deliveries :
        status[d] \in {"DELIVERED", "FAILED"} => status'[d] \in {status[d], "deleted"}

\* Steps of the runs put no row in anybody's hands but due ones in the reader's.
LEMMA HandsMove ==
    ASSUME TypeInv, NEW r \in Runs, DeliverPending(r) \/ Post(r) \/ EndRun(r)
    PROVE  /\ \A x \in Runs : x # r =>
                /\ batch'[x] = batch[x] /\ stage'[x] = stage[x] /\ item'[x] = item[x]
           /\ DeliverPending(r) =>
                /\ \A i \in batch'[r] : i.id \in due
                /\ \A i, j \in batch'[r] : i.id = j.id => i = j
                /\ stage'[r] = "looping"
           /\ Post(r) => \E i \in batch[r] : batch'[r] = batch[r] \ {i} /\ item'[r] = i
           /\ EndRun(r) => batch'[r] = {} /\ stage'[r] = "idle"
  <1> USE DeliveryTypes
  <1>1. CASE DeliverPending(r)
    <2>1. PICK S \in Batches :
            batch' = [batch EXCEPT ![r] = {[id |-> d, attempts |-> attempts[d]] : d \in S}]
      BY <1>1 DEF DeliverPending
    <2>2. batch'[r] = {[id |-> d, attempts |-> attempts[d]] : d \in S} /\ S \subseteq due
      BY <2>1 DEF Batches
    <2>3. /\ stage' = [stage EXCEPT ![r] = "looping"] /\ item' = item
      BY <1>1 DEF DeliverPending
    <2>4. ~Post(r) /\ ~EndRun(r)
      BY <1>1 DEF DeliverPending, Post, EndRun
    <2>5. /\ \A i \in batch'[r] : i.id \in due
          /\ \A i, j \in batch'[r] : i.id = j.id => i = j
      BY <2>2
    <2> QED
      BY <2>1, <2>3, <2>4, <2>5
  <1>2. CASE Post(r)
    BY <1>2 DEF Post, DeliverPending, EndRun, Fault
  <1>3. CASE EndRun(r)
    BY <1>3 DEF Post, DeliverPending, EndRun
  <1> QED
    BY <1>1, <1>2, <1>3

\* The row of an update is in the hands of the run that makes it, and only there.
LEMMA HandsUpdate ==
    ASSUME TypeInv, HandsInv, RunsApart, NEW r \in Runs, MarkDelivered(r) \/ Retry(r)
    PROVE  /\ status[item[r].id] = "PENDING"
           /\ \A d \in Deliveries : d # item[r].id => status'[d] = status[d]
           /\ \A x \in Runs : item[r].id \notin Hands(x)'
           /\ \A x \in Runs : Hands(x)' \subseteq Hands(x)
           /\ batch' = batch
           /\ \A x \in Runs : stage'[x] \in {"accepted", "refused"} =>
                stage[x] = stage'[x] /\ item'[x] = item[x]
  <1> DEFINE d == item[r].id
  <1>1. stage[r] \in {"accepted", "refused"} /\ Exists(d)
    BY DEF MarkDelivered, Retry, ScheduleRetry
  <1>2. d \in Hands(r) /\ d \in Deliveries
    BY <1>1, ItemFacts DEF Hands
  <1>3. status[d] = "PENDING"
    BY <1>1, <1>2 DEF HandsInv, Exists
  <1>4. /\ \E s \in {"PENDING", "DELIVERED", "FAILED"} : status' = [status EXCEPT ![d] = s]
        /\ stage' = [stage EXCEPT ![r] = "looping"]
        /\ item' = [item EXCEPT ![r] = None]
        /\ batch' = batch
    BY DEF MarkDelivered, Retry, ScheduleRetry
  <1>5. \A x \in Runs : stage'[x] \in {"accepted", "refused"} =>
          stage[x] = stage'[x] /\ item'[x] = item[x] /\ x # r
    BY <1>4, DeliveryTypes
  <1>6. \A x \in Runs : Hands(x)' \subseteq Hands(x)
    BY <1>4, <1>5 DEF Hands
  <1>7. \A i \in batch[r] : i.id # d
    BY <1>1 DEF HandsInv
  <1>8. stage'[r] = "looping"
    BY <1>4, DeliveryTypes
  <1>9. d \notin Hands(r)'
    BY <1>4, <1>7, <1>8 DEF Hands
  <1>10. \A x \in Runs : d \notin Hands(x)'
    BY <1>2, <1>6, <1>9 DEF RunsApart
  <1> QED
    BY <1>3, <1>4, <1>5, <1>6, <1>10, DeliveryTypes

\* Steps that are not the runs': rows are added, or go with their endpoint.
LEMMA HandsStay ==
    ASSUME TypeInv, HandsInv, UNCHANGED runVars, created <= created', created' \in Nat,
           \A d \in Deliveries : d <= created => status'[d] \in {status[d], "deleted"}
    PROVE  HandsInv'
  <1>1. \A r \in Runs : Hands(r)' = Hands(r)
    BY DEF Hands, runVars
  <1>2. \A d \in Deliveries : d <= created => d <= created'
    BY DEF TypeInv, TypeOK, Deliveries
  <1> QED
    BY <1>1, <1>2 DEF HandsInv, runVars

\* Those steps, one by one.
LEMMA OthersAdd ==
    ASSUME TypeInv, [Next]_vars, \A r \in Runs : ~DeliverPending(r) /\ ~RunStep(r)
    PROVE  /\ UNCHANGED runVars /\ created <= created' /\ created' \in Nat
           /\ \A d \in Deliveries : d <= created => status'[d] \in {status[d], "deleted"}
  <1> USE ConstantsAssumption
  <1>0. created \in Nat
    BY DEF TypeInv, TypeOK
  <1>1. ASSUME NEW m \in Emitters, Insert(m)
        PROVE  /\ UNCHANGED runVars /\ created <= created' /\ created' \in Nat
               /\ \A d \in Deliveries : d <= created => status'[d] \in {status[d], "deleted"}
    <2>1. emission[m] # Quiet
      BY <1>1, QuietFacts DEF Insert
    <2>2. emission[m].targets \in SUBSET Endpoints /\ CreateMany(m, emission[m].targets)
      BY <1>1, <2>1, EmissionFacts DEF Insert
    <2>3. /\ created' \in 0..MaxDeliveries /\ created <= created'
          /\ \A d \in Deliveries : d \notin New => status'[d] = status[d]
      BY <2>1, <2>2, CreateManyFacts
    <2>4. \A d \in Deliveries : d <= created => d \notin New
      BY <1>0 DEF New, Deliveries
    <2> QED
      BY <1>1, <2>3, <2>4 DEF Insert
  <1>2. ASSUME NEW e \in Endpoints, DeleteWebhookEndpoint(e)
        PROVE  /\ UNCHANGED <<runVars, created>>
               /\ \A d \in Deliveries : status'[d] \in {status[d], "deleted"}
    BY <1>2 DEF DeleteWebhookEndpoint
  <1>3. ASSUME \/ \E m \in Emitters :
                    \/ \E event \in EventTypes, c \in Connections : EmitConnectionEvent(m, event, c)
                    \/ Dedupe(m) \/ EmissionFails(m) \/ DeleteAccount(m)
               \/ \E e \in Endpoints :
                    \/ CreateEndpoint(e)
                    \/ \E active \in BOOLEAN : SetWebhookEndpointActive(e, active)
               \/ \E d \in Deliveries : BecomesDue(d)
               \/ HourPasses
               \/ UNCHANGED vars
        PROVE  UNCHANGED <<runVars, created, status>>
    BY <1>3 DEF EmitConnectionEvent, Dedupe, EmissionFails, DeleteAccount, CreateEndpoint,
                SetWebhookEndpointActive, BecomesDue, HourPasses, vars, rowVars
  <1> QED
    BY <1>0, <1>1, <1>2, <1>3 DEF Next

LEMMA HandsNext ==
    ASSUME TypeInv, TypeInv', HandsInv, RunsApart, [Next]_vars
    PROVE  HandsInv' /\ SettledRowsStay
  <1> USE DeliveryTypes
  <1>1. CASE \A r \in Runs : ~DeliverPending(r) /\ ~RunStep(r)
    <2>1. \A d \in Deliveries : status[d] \in {"DELIVERED", "FAILED"} => d <= created
      BY ConstantsAssumption DEF TypeInv, TypeOK, RowsNumbered, Deliveries
    <2> QED
      BY <1>1, <2>1, OthersAdd, HandsStay DEF SettledRowsStay
  <1>2. ASSUME NEW r \in Runs, DeliverPending(r) \/ Post(r) \/ EndRun(r)
        PROVE  HandsInv' /\ SettledRowsStay
    <2>1. UNCHANGED <<status, created>>
      BY <1>2 DEF DeliverPending, Post, EndRun, rowVars
    <2>2. \A d \in due : d \in Deliveries /\ d <= created /\ status[d] = "PENDING"
      BY ConstantsAssumption DEF TypeInv, TypeOK, RowsNumbered, Deliveries
    <2>3. \A x \in Runs : x # r =>
            /\ batch'[x] = batch[x] /\ stage'[x] = stage[x] /\ item'[x] = item[x]
      BY <1>2, HandsMove
    <2>4. /\ Hands(r)' \subseteq Hands(r) \cup due
          /\ \A i, j \in batch'[r] : i.id = j.id => i = j
          /\ stage'[r] \in {"accepted", "refused"} => \A i \in batch'[r] : i.id # item'[r].id
      <3>1. CASE DeliverPending(r)
        <4>1. /\ \A i \in batch'[r] : i.id \in due
              /\ \A i, j \in batch'[r] : i.id = j.id => i = j
              /\ stage'[r] = "looping"
          BY <3>1, HandsMove
        <4> QED
          BY <4>1 DEF Hands
      <3>2. CASE Post(r)
        <4>1. PICK i \in batch[r] : batch'[r] = batch[r] \ {i} /\ item'[r] = i
          BY <3>2, HandsMove
        <4>2. \A j \in batch[r] : j.id = i.id => j = i
          BY <4>1 DEF HandsInv
        <4> QED
          BY <4>1, <4>2 DEF Hands, HandsInv
      <3>3. CASE EndRun(r)
        <4>1. batch'[r] = {} /\ stage'[r] = "idle"
          BY <3>3, HandsMove
        <4> QED
          BY <4>1 DEF Hands
      <3> QED
        BY <1>2, <3>1, <3>2, <3>3
    <2>5. \A x \in Runs : x # r => Hands(x)' = Hands(x)
      BY <2>3 DEF Hands
    <2>6. \A x \in Runs : \A d \in Hands(x)' :
            d \in Deliveries /\ d <= created /\ status[d] \in {"PENDING", "deleted"}
      BY <2>2, <2>4, <2>5 DEF HandsInv
    <2>7. HandsInv'
      BY <2>1, <2>3, <2>4, <2>6 DEF HandsInv
    <2> QED
      BY <2>1, <2>7 DEF SettledRowsStay
  <1>3. ASSUME NEW r \in Runs, MarkDelivered(r) \/ Retry(r)
        PROVE  HandsInv' /\ SettledRowsStay
    <2>1. created' = created
      BY <1>3 DEF MarkDelivered, Retry
    <2>2. HandsInv'
      BY <1>3, <2>1, HandsUpdate DEF HandsInv
    <2>3. SettledRowsStay
      BY <1>3, HandsUpdate DEF SettledRowsStay
    <2> QED
      BY <2>2, <2>3
  <1> QED
    BY <1>1, <1>2, <1>3 DEF RunStep

\* As long as no two runs have the same row in their hands, a row settles once:
\* neither a retry nor a late answer takes a delivered or given-up row back into
\* the queue (webhooks.ts:214-228).
THEOREM RowsSettleOnceApart == Spec /\ []RunsApart => [][SettledRowsStay]_vars
  <1>1. Init => HandsInv
    BY DEF Init, HandsInv, Hands
  <1>2. TypeInv /\ TypeInv' /\ HandsInv /\ RunsApart /\ [Next]_vars =>
          HandsInv' /\ [SettledRowsStay]_vars
    BY HandsNext
  <1> QED
    BY <1>1, <1>2, TypeInvInit, TypeInvNext, PTL DEF Spec

\* So "Answer 2xx to accept" (INTEGRATION.md:474) is broken by an overlap of two
\* runs on one row and by nothing else.
THEOREM AcceptedOnceApart == Spec /\ []RunsApart => AcceptedStaysDelivered
  <1>1. [SettledRowsStay]_vars =>
          [\A d \in Deliveries : status[d] = "DELIVERED" => status'[d] # "PENDING"]_vars
    BY DEF SettledRowsStay
  <1> QED
    BY <1>1, RowsSettleOnceApart, PTL DEF AcceptedStaysDelivered
----------------------------------------------------------------------------
(* What the violated OneExpiryPerHour takes: two emitters of one expiry *)

\* The emitter is between the reading of an expiry's subscribers and the insert.
Expiring(m, c) ==
    /\ emission[m].pc \in {"dedupe", "insert"}
    /\ emission[m].event = "connection.expired"
    /\ emission[m].connection = c

\* One emitter at a time is at the expiry of a connection.
ExpiriesApart ==
    \A m1, m2 \in Emitters, c \in Connections :
        Expiring(m1, c) /\ Expiring(m2, c) => m1 = m2

\* Past the look for recent rows, there are still none.
NobodyToldYet ==
    \A m \in Emitters : emission[m].pc = "insert" /\ emission[m].event = "connection.expired" =>
        \A d \in Deliveries, e \in emission[m].targets :
            ~(Tells(d, e, emission[m].event, emission[m].connection) /\ about[d].createdAt >= since)

\* Steps that add no row and begin no insert.
LEMMA ToldFrame ==
    ASSUME TypeInv, since' \in Nat, since <= since',
           \A d \in Deliveries : Exists(d)' => Exists(d) /\ about'[d] = about[d]
    PROVE  /\ (\A m \in Emitters : emission'[m].pc = "insert" => emission'[m] = emission[m]) /\ NobodyToldYet
                => NobodyToldYet'
           /\ OneExpiryPerHour => OneExpiryPerHour'
  <1>1. \A d \in Deliveries : Exists(d)' /\ about'[d].createdAt >= since' =>
          Exists(d) /\ about[d].createdAt >= since /\ about'[d] = about[d]
    BY EmissionTypes
  <1>2. ASSUME \A m \in Emitters : emission'[m].pc = "insert" => emission'[m] = emission[m], NobodyToldYet
        PROVE  NobodyToldYet'
    BY <1>1, <1>2 DEF NobodyToldYet, Tells
  <1>3. OneExpiryPerHour => OneExpiryPerHour'
    BY <1>1 DEF OneExpiryPerHour
  <1> QED
    BY <1>2, <1>3

LEMMA ToldNext ==
    ASSUME TypeInv, TypeInv', NobodyToldYet, OneExpiryPerHour, ExpiriesApart, [Next]_vars
    PROVE  NobodyToldYet' /\ OneExpiryPerHour'
  <1> USE EmissionTypes, ConstantsAssumption
  <1>0. since \in Nat /\ since <= since
    OBVIOUS
  <1>1. ASSUME NEW m \in Emitters, NEW event \in EventTypes, NEW c \in Connections,
               EmitConnectionEvent(m, event, c)
        PROVE  NobodyToldYet' /\ OneExpiryPerHour'
    <2>1. UNCHANGED <<status, about, since>>
      BY <1>1 DEF EmitConnectionEvent, rowVars
    <2>2. \A x \in Emitters \ {m} : emission'[x] = emission[x]
      BY <1>1 DEF EmitConnectionEvent, Returns
    <2>3. emission'[m].pc = "insert" => emission'[m].event # "connection.expired"
      BY <1>1 DEF EmitConnectionEvent, Returns, Quiet
    <2>4. OneExpiryPerHour'
      BY <1>0, <2>1, ToldFrame DEF Exists
    <2> QED
      BY <2>1, <2>2, <2>3, <2>4 DEF NobodyToldYet, Tells, Exists
  <1>2. ASSUME NEW m \in Emitters, Dedupe(m) PROVE NobodyToldYet' /\ OneExpiryPerHour'
    <2>1. UNCHANGED <<status, about, since>>
      BY <1>2 DEF Dedupe, rowVars
    <2>2. \A x \in Emitters \ {m} : emission'[x] = emission[x]
      BY <1>2 DEF Dedupe, Returns
    <2>3. emission'[m].pc = "insert" =>
            /\ emission'[m].event = emission[m].event
            /\ emission'[m].connection = emission[m].connection
            /\ \A e \in emission'[m].targets : ~Heard(e, emission[m].event, emission[m].connection)
      <3> DEFINE targets == {e \in emission[m].targets :
                               ~Heard(e, emission[m].event, emission[m].connection)}
      <3>1. CASE Returns(m, emission[m].event, emission[m].connection)
        BY <3>1 DEF Returns, Quiet
      <3>2. CASE emission' = [emission EXCEPT ![m].pc = "insert", ![m].targets = targets]
        <4>1. emission[m] # Quiet
          BY <1>2, QuietFacts DEF Dedupe
        <4>2. emission[m] \in [pc : {"dedupe", "insert", "delete"}, event : EventTypes,
                               connection : Connections, targets : SUBSET Endpoints]
          BY <4>1 DEF Emission
        <4> HIDE DEF targets
        <4>3. /\ emission'[m].targets = targets
              /\ emission'[m].event = emission[m].event
              /\ emission'[m].connection = emission[m].connection
          BY <3>2, <4>2
        <4> QED
          BY <4>3 DEF targets
      <3> QED
        BY <1>2, <3>1, <3>2 DEF Dedupe
    <2>4. OneExpiryPerHour'
      BY <1>0, <2>1, ToldFrame DEF Exists
    <2> QED
      BY <2>1, <2>2, <2>3, <2>4 DEF NobodyToldYet, Tells, Exists, Heard
  <1>3. ASSUME NEW m \in Emitters, Insert(m) PROVE NobodyToldYet' /\ OneExpiryPerHour'
    <2>1. emission[m] # Quiet /\ emission[m].pc = "insert"
      BY <1>3, QuietFacts DEF Insert
    <2> DEFINE T == emission[m].targets
               event == emission[m].event
               c == emission[m].connection
    <2>2. T \in SUBSET Endpoints /\ CreateMany(m, T) /\ c \in Connections
      BY <1>3, <2>1, EmissionFacts DEF Insert
    <2>3. event = "connection.expired" => Expiring(m, c)
      BY <2>1 DEF Expiring
    <2>4. event = "connection.expired" =>
            \A d \in Deliveries, e \in T :
              ~(Tells(d, e, event, c) /\ about[d].createdAt >= since)
      BY <2>1 DEF NobodyToldYet
    <2>5. since' = since /\ \A x \in Emitters \ {m} : emission'[x] = emission[x]
      BY <1>3 DEF Insert, Returns
    <2>6. emission'[m].pc # "insert"
      BY <1>3 DEF Insert, Returns, Quiet
    <2>7. /\ \A d \in Deliveries : d \notin New => status'[d] = status[d] /\ about'[d] = about[d]
          /\ \A d \in New :
               /\ d \in Deliveries
               /\ about'[d].endpoint \in T
               /\ about'[d].event = event
               /\ about'[d].connection = c
          /\ \A d1, d2 \in New : about'[d1].endpoint = about'[d2].endpoint => d1 = d2
      BY <2>1, <2>2, CreateManyFacts DEF New
    <2>8. \A x \in Emitters : x # m /\ emission[x].pc = "insert"
                              /\ emission[x].event = "connection.expired"
                              /\ event = "connection.expired" => emission[x].connection # c
      BY <2>2, <2>3 DEF ExpiriesApart, Expiring
    <2> HIDE DEF T, event, c
    <2>9. \A d \in Deliveries : d \notin New => (Exists(d)' <=> Exists(d))
      BY <2>7 DEF Exists
    <2>10. NobodyToldYet'
      <3> SUFFICES ASSUME NEW x \in Emitters, emission'[x].pc = "insert",
                          emission'[x].event = "connection.expired",
                          NEW d \in Deliveries, NEW e \in emission'[x].targets,
                          Tells(d, e, emission[x].event, emission[x].connection)',
                          about'[d].createdAt >= since'
                   PROVE  FALSE
        BY DEF NobodyToldYet
      <3>1. x # m /\ emission'[x] = emission[x]
        BY <2>5, <2>6
      <3>2. CASE d \in New
        BY <2>7, <2>8, <3>1, <3>2 DEF Tells
      <3>3. CASE d \notin New
        BY <2>5, <2>7, <2>9, <3>1, <3>3 DEF NobodyToldYet, Tells
      <3> QED
        BY <3>2, <3>3
    <2>11. OneExpiryPerHour'
      <3> SUFFICES ASSUME NEW d1 \in Deliveries, NEW d2 \in Deliveries,
                          Exists(d1)', Exists(d2)',
                          about'[d1].event = "connection.expired",
                          about'[d2].event = "connection.expired",
                          about'[d1].endpoint = about'[d2].endpoint,
                          about'[d1].connection = about'[d2].connection,
                          about'[d1].createdAt >= since', about'[d2].createdAt >= since'
                   PROVE  d1 = d2
        BY DEF OneExpiryPerHour
      <3>1. CASE d1 \in New /\ d2 \in New
        BY <2>7, <3>1
      <3>2. CASE d1 \in New /\ d2 \notin New
        BY <2>4, <2>5, <2>7, <2>9, <3>2 DEF Tells
      <3>3. CASE d1 \notin New /\ d2 \in New
        BY <2>4, <2>5, <2>7, <2>9, <3>3 DEF Tells
      <3>4. CASE d1 \notin New /\ d2 \notin New
        BY <2>5, <2>7, <2>9, <3>4 DEF OneExpiryPerHour
      <3> QED
        BY <3>1, <3>2, <3>3, <3>4
    <2> QED
      BY <2>10, <2>11
  <1>4. ASSUME NEW m \in Emitters, EmissionFails(m) \/ DeleteAccount(m)
        PROVE  NobodyToldYet' /\ OneExpiryPerHour'
    <2>1. UNCHANGED <<status, about, since>>
      BY <1>4 DEF EmissionFails, DeleteAccount, rowVars
    <2>2. emission' = [emission EXCEPT ![m] = Quiet]
      BY <1>4 DEF EmissionFails, DeleteAccount
    <2>3. \A x \in Emitters : emission'[x].pc = "insert" => emission'[x] = emission[x]
      BY <2>2 DEF Quiet
    <2> QED
      BY <1>0, <2>1, <2>3, ToldFrame DEF Exists
  <1>5. ASSUME NEW r \in Runs, DeliverPending(r) \/ RunStep(r)
        PROVE  NobodyToldYet' /\ OneExpiryPerHour'
    <2>1. UNCHANGED <<about, since, emission>>
      BY <1>5 DEF DeliverPending, RunStep, Post, MarkDelivered, Retry, EndRun, rowVars
    <2>2. \A d \in Deliveries : Exists(d)' => Exists(d)
      <3>1. CASE MarkDelivered(r) \/ Retry(r)
        BY <3>1, ItemFacts, DeliveryTypes DEF MarkDelivered, Retry, ScheduleRetry, Exists
      <3>2. CASE DeliverPending(r) \/ Post(r) \/ EndRun(r)
        BY <3>2 DEF DeliverPending, Post, EndRun, rowVars, Exists
      <3> QED
        BY <1>5, <3>1, <3>2 DEF RunStep
    <2> QED
      BY <1>0, <2>1, <2>2, ToldFrame
  <1>6. ASSUME \/ \E e \in Endpoints :
                    \/ CreateEndpoint(e) \/ DeleteWebhookEndpoint(e)
                    \/ \E active \in BOOLEAN : SetWebhookEndpointActive(e, active)
               \/ \E d \in Deliveries : BecomesDue(d)
               \/ HourPasses
               \/ UNCHANGED vars
        PROVE  NobodyToldYet' /\ OneExpiryPerHour'
    <2>1. UNCHANGED <<about, emission>>
      BY <1>6 DEF CreateEndpoint, DeleteWebhookEndpoint, SetWebhookEndpointActive, BecomesDue,
                  HourPasses, vars, rowVars
    <2>2. since' \in Nat /\ since <= since'
      BY <1>6 DEF CreateEndpoint, DeleteWebhookEndpoint, SetWebhookEndpointActive, BecomesDue,
                  HourPasses, vars
    <2>3. \A d \in Deliveries : Exists(d)' => Exists(d)
      BY <1>6 DEF CreateEndpoint, DeleteWebhookEndpoint, SetWebhookEndpointActive, BecomesDue,
                  HourPasses, vars, rowVars, Exists
    <2> QED
      BY <2>1, <2>2, <2>3, ToldFrame
  <1> QED
    BY <1>1, <1>2, <1>3, <1>4, <1>5, <1>6 DEF Next

\* "At most one per connection per hour" (INTEGRATION.md:440) holds as long as no
\* two requests are at the expiry of one connection at the same time: the look
\* for recent rows and the insert are two statements (webhooks.ts:91-136), and
\* only what another request inserts between them is told twice.
THEOREM OneExpiryApart == Spec /\ []ExpiriesApart => []OneExpiryPerHour
  <1>1. Init => NobodyToldYet /\ OneExpiryPerHour
    BY DEF Init, NobodyToldYet, OneExpiryPerHour, Exists, Quiet
  <1>2. TypeInv /\ TypeInv' /\ NobodyToldYet /\ OneExpiryPerHour /\ ExpiriesApart /\ [Next]_vars =>
          NobodyToldYet' /\ OneExpiryPerHour'
    BY ToldNext
  <1> QED
    BY <1>1, <1>2, TypeInvInit, TypeInvNext, PTL DEF Spec
=============================================================================
