---------------------------- MODULE OutboxProofs ----------------------------
(***************************************************************************)
(* Webhooks implements Outbox.  Its delivery runs and emissions leave the  *)
(* promise alone except at four places: the one INSERT of an emission, the *)
(* post of a row, the update that records its outcome, and the removal of  *)
(* an endpoint.  With runs that overlap these are steps of the outbox that *)
(* may take settled rows up again; with runs that stay apart, of the one   *)
(* whose rows settle once.                                                 *)
(***************************************************************************)
EXTENDS WebhooksProofs

\* What the outbox looks like, and what its steps that nobody sees leave alone.
Seen == <<Told, status, tries, accepted, Removed>>

LEMMA QuietSteps ==
    ASSUME UNCHANGED <<about, status, tries, accepted>>,
           \A e \in Endpoints : endpoint'[e] = "deleted" <=> endpoint[e] = "deleted"
    PROVE  UNCHANGED Seen
  BY DEF Seen, Told, Removed

\* Outbox takes Bijection from the same module as Webhooks.
LEMMA SameBijections ==
    ASSUME NEW S, NEW T
    PROVE  /\ AtLeastOnce!Bijection(S, T) = Bijection(S, T)
           /\ SettledOnce!Bijection(S, T) = Bijection(S, T)
  BY DEF Bijection, Injection, Surjection, IsInjective,
         AtLeastOnce!Bijection, AtLeastOnce!Injection, AtLeastOnce!Surjection, AtLeastOnce!IsInjective,
         SettledOnce!Bijection, SettledOnce!Injection, SettledOnce!Surjection, SettledOnce!IsInjective

----------------------------------------------------------------------------
(* The four places *)

\* An emission queues its event for all of its targets at once.
LEMMA InsertEnqueues ==
    ASSUME TypeInv, TargetsAlike, NEW m \in Emitters, Insert(m)
    PROVE  AtLeastOnce!Enqueue
  <1> DEFINE T == emission[m].targets
             event == emission[m].event
             c == emission[m].connection
             to == [d \in New |-> about'[d].endpoint]
  <1>1. emission[m] # Quiet
    BY QuietFacts DEF Insert
  <1>2. T \in SUBSET Endpoints /\ event \in EventTypes /\ c \in Connections /\ CreateMany(m, T)
    BY <1>1, EmissionFacts DEF Insert
  <1>3. /\ \A e \in T : event \in Subscribes[e]
        /\ \A e \in T : endpoint[e] # "deleted"
        /\ UNCHANGED <<endpoint, tries, accepted>>
    BY DEF Insert, TargetsAlike, Telling, endpointVars, historyVars
  <1> HIDE DEF T, event, c
  <1>4. /\ \A d \in Deliveries : d \notin New => status'[d] = status[d] /\ about'[d] = about[d]
        /\ \A d \in New : status[d] = "none" /\ status'[d] = "PENDING"
        /\ \A d \in New : /\ about'[d] \in About /\ about'[d].endpoint \in T
                          /\ about'[d].event = event /\ about'[d].connection = c
        /\ \A d1, d2 \in New : about'[d1].endpoint = about'[d2].endpoint => d1 = d2
        /\ \A e \in T : \E d \in New : about'[d].endpoint = e
        /\ DOMAIN status' = Deliveries /\ DOMAIN about' = Deliveries
    BY <1>1, <1>2, CreateManyFacts DEF event, c
  <1>5. New \in SUBSET {d \in Deliveries : status[d] = "none"}
    BY <1>4 DEF New
  <1>6. to \in Bijection(New, T)
    BY <1>4 DEF Bijection, Injection, Surjection, IsInjective
  <1>7. status' = [d \in Deliveries |-> IF d \in New THEN "PENDING" ELSE status[d]]
    <2>1. status' = [d \in Deliveries |-> status'[d]]
      BY <1>2 DEF CreateMany
    <2> QED
      BY <1>4, <2>1
  <1>8. Told' = [d \in Deliveries |->
                   IF d \in New
                   THEN [endpoint |-> to[d], event |-> event, connection |-> c]
                   ELSE Told[d]]
    <2>1. \A d \in New : about'[d] # None
      BY <1>4, ConstantsAssumption
    <2> QED
      BY <1>4, <2>1 DEF Told
  <1>9. T \cap Removed = {} /\ Removed' = Removed
    BY <1>3 DEF Removed
  <1> HIDE DEF to
  <1>10. T \in SUBSET (Endpoints \ Removed)
    BY <1>2, <1>9
  <1>11. \E S \in SUBSET (Endpoints \ Removed), ev \in EventTypes, x \in Connections :
           /\ \A e \in S : ev \in Subscribes[e]
           /\ \E f \in AtLeastOnce!Bijection(New, S) :
                Told' = [d \in Deliveries |->
                   IF d \in New
                   THEN [endpoint |-> f[d], event |-> ev, connection |-> x]
                   ELSE Told[d]]
    BY <1>2, <1>3, <1>6, <1>8, <1>10, SameBijections, Zenon
  <1>12. UNCHANGED <<tries, accepted, Removed>>
    BY <1>3, <1>9
  <1> QED
    BY <1>5, <1>7, <1>11, <1>12, Zenon DEF AtLeastOnce!Enqueue

\* A run posts a row that it read: one that was inserted and may be gone.
LEMMA PostSends ==
    ASSUME TypeInv, NEW r \in Runs, Post(r)
    PROVE  \E d \in Hands(r) : d \in Deliveries /\ AtLeastOnce!Send(d)
  <1>1. PICK i \in batch[r] :
          /\ tries' = [tries EXCEPT ![i.id] = IF @ < MaxAttempts THEN @ + 1 ELSE @]
          /\ accepted' \in {accepted, accepted \cup {i.id}}
    BY DEF Post
  <1>2. i.id \in Hands(r) /\ i.id \in Deliveries
    BY DeliveryTypes DEF Hands
  <1>3. status[i.id] # "none"
    BY <1>2 DEF TypeInv, RowsNumbered, TypeOK, Deliveries
  <1>4. Exists(i.id) \/ status[i.id] = "deleted"
    BY <1>2, <1>3, DeliveryTypes DEF Exists
  <1>5. UNCHANGED <<Told, status, Removed>>
    BY DEF Post, rowVars, endpointVars, Told, Removed
  <1> QED
    BY <1>1, <1>2, <1>4, <1>5
    DEF AtLeastOnce!Send, AtLeastOnce!Open, AtLeastOnce!Exists, Exists

\* A run records a row as delivered that was received, as failed that was tried
\* often enough, and otherwise as one to try again.
LEMMA UpdateSettles ==
    ASSUME DeliveryInv, NEW r \in Runs, MarkDelivered(r) \/ Retry(r)
    PROVE  LET d == item[r].id
           IN  /\ d \in Deliveries
               /\ AtLeastOnce!Deliver(d) \/ AtLeastOnce!GiveUp(d) \/ AtLeastOnce!TryAgain(d)
  <1> DEFINE d == item[r].id
             n == item[r].attempts + 1
  <1>1. stage[r] \in {"accepted", "refused"} /\ Exists(d) /\ TypeInv
    BY DEF MarkDelivered, Retry, ScheduleRetry, DeliveryInv
  <1>2. d \in Deliveries /\ n \in Nat /\ n <= tries[d] /\ tries[d] \in Nat
    BY <1>1, ItemFacts, DeliveryTypes DEF DeliveryInv, CountsWereTried
  <1>3. AtLeastOnce!Open(d)
    BY <1>1 DEF AtLeastOnce!Open, AtLeastOnce!Exists, Exists
  <1>4. UNCHANGED <<Told, tries, accepted, Removed>>
    BY DEF MarkDelivered, Retry, endpointVars, historyVars, Told, Removed
  <1>5. CASE MarkDelivered(r)
    <2>1. d \in accepted
      BY <1>1, <1>5 DEF MarkDelivered, DeliveryInv, AcceptedInHand
    <2>2. status' = [status EXCEPT ![d] = "DELIVERED"]
      BY <1>5 DEF MarkDelivered
    <2> QED
      BY <1>2, <1>3, <1>4, <2>1, <2>2 DEF AtLeastOnce!Deliver, AtLeastOnce!Settle
  <1>6. CASE Retry(r) /\ Exhausted(n)
    <2>1. status' = [status EXCEPT ![d] = "FAILED"]
      BY <1>6 DEF Retry, ScheduleRetry
    <2>2. tries[d] >= MaxAttempts
      BY <1>2, <1>6, ConstantsAssumption DEF Exhausted
    <2> QED
      BY <1>2, <1>3, <1>4, <2>1, <2>2 DEF AtLeastOnce!GiveUp, AtLeastOnce!Settle
  <1>7. CASE Retry(r) /\ ~Exhausted(n)
    <2>1. status' = [status EXCEPT ![d] = "PENDING"]
      BY <1>7 DEF Retry, ScheduleRetry
    <2> QED
      BY <1>2, <1>3, <1>4, <2>1 DEF AtLeastOnce!TryAgain, AtLeastOnce!Settle
  <1> QED
    BY <1>5, <1>6, <1>7

\* A removed endpoint takes its rows with it.
LEMMA DeleteRemoves ==
    ASSUME TypeInv, NEW e \in Endpoints, DeleteWebhookEndpoint(e)
    PROVE  AtLeastOnce!Remove(e)
  <1> DEFINE gone == {d \in Deliveries : Exists(d) /\ about[d].endpoint = e}
  <1>1. /\ endpoint[e] # "deleted"
        /\ endpoint' = [endpoint EXCEPT ![e] = "deleted"]
        /\ status' = [d \in Deliveries |-> IF d \in gone THEN "deleted" ELSE status[d]]
        /\ tries' = [d \in Deliveries |-> IF d \in gone THEN 0 ELSE tries[d]]
        /\ accepted' = accepted \ gone
        /\ about' = about
    BY DEF DeleteWebhookEndpoint
  <1>2. \A d \in Deliveries : Exists(d) => about[d] # None
    BY DEF TypeInv, TypeOK, RowsNumbered, Exists, Deliveries
  <1>3. gone = {d \in Deliveries : AtLeastOnce!Exists(d) /\ Told[d].endpoint = e}
    BY <1>2 DEF AtLeastOnce!Exists, Exists, Told
  <1>4. e \notin Removed /\ Removed' = Removed \cup {e} /\ Told' = Told
    BY <1>1 DEF Removed, Told, TypeInv, TypeOK
  <1> HIDE DEF gone
  <1> QED
    BY <1>1, <1>3, <1>4 DEF AtLeastOnce!Remove

----------------------------------------------------------------------------
(* Every step *)

\* Steps that are not a run's look the same whether rows may reopen or not.
OthersStep ==
    \/ AtLeastOnce!Enqueue
    \/ \E e \in Endpoints : AtLeastOnce!Remove(e)
    \/ UNCHANGED Seen

\* A step is the post of a row that a run has in hand, the update of the row it
\* posted, or one of the others.
LEMMA StepSeen ==
    ASSUME DeliveryInv, TargetsAlike, [Next]_vars
    PROVE  \/ \E r \in Runs, d \in Deliveries : d \in Hands(r) /\ AtLeastOnce!Send(d)
           \/ \E r \in Runs :
                /\ MarkDelivered(r) \/ Retry(r)
                /\ item[r].id \in Deliveries
                /\ \/ AtLeastOnce!Deliver(item[r].id)
                   \/ AtLeastOnce!GiveUp(item[r].id)
                   \/ AtLeastOnce!TryAgain(item[r].id)
           \/ OthersStep
  <1>0. TypeInv
    BY DEF DeliveryInv
  <1>1. CASE \E m \in Emitters : Insert(m)
    BY <1>0, <1>1, InsertEnqueues DEF OthersStep
  <1>2. CASE \E m \in Emitters :
               \/ \E event \in EventTypes, c \in Connections : EmitConnectionEvent(m, event, c)
               \/ Dedupe(m) \/ EmissionFails(m) \/ DeleteAccount(m)
    <2>1. UNCHANGED <<about, status, tries, accepted, endpoint>>
      BY <1>2
      DEF EmitConnectionEvent, Dedupe, EmissionFails, DeleteAccount, endpointVars, rowVars, historyVars
    <2> QED
      BY <2>1, QuietSteps DEF OthersStep
  <1>3. CASE \E r \in Runs : Post(r)
    BY <1>0, <1>3, PostSends
  <1>4. CASE \E r \in Runs : MarkDelivered(r) \/ Retry(r)
    BY <1>4, UpdateSettles
  <1>5. CASE \E r \in Runs : DeliverPending(r) \/ EndRun(r)
    <2>1. UNCHANGED <<about, status, tries, accepted, endpoint>>
      BY <1>5 DEF DeliverPending, EndRun, endpointVars, rowVars, historyVars
    <2> QED
      BY <2>1, QuietSteps DEF OthersStep
  <1>6. CASE \E e \in Endpoints : DeleteWebhookEndpoint(e)
    BY <1>0, <1>6, DeleteRemoves DEF OthersStep
  <1>7. CASE \E e \in Endpoints :
               CreateEndpoint(e) \/ \E active \in BOOLEAN : SetWebhookEndpointActive(e, active)
    <2>1. PICK e \in Endpoints :
            CreateEndpoint(e) \/ \E active \in BOOLEAN : SetWebhookEndpointActive(e, active)
      BY <1>7
    <2>2. /\ UNCHANGED <<about, status, tries, accepted>>
          /\ \A x \in Endpoints : endpoint'[x] = "deleted" <=> endpoint[x] = "deleted"
      BY <1>0, <2>1
      DEF CreateEndpoint, SetWebhookEndpointActive, rowVars, historyVars, TypeInv, TypeOK
    <2> QED
      BY <2>2, QuietSteps DEF OthersStep
  <1>8. CASE (\E d \in Deliveries : BecomesDue(d)) \/ HourPasses \/ UNCHANGED vars
    <2>1. UNCHANGED <<about, status, tries, accepted, endpoint>>
      BY <1>8 DEF BecomesDue, HourPasses, vars, endpointVars, rowVars, historyVars
    <2> QED
      BY <2>1, QuietSteps DEF OthersStep
  <1> QED
    BY <1>1, <1>2, <1>3, <1>4, <1>5, <1>6, <1>7, <1>8 DEF Next, RunStep

LEMMA OutboxInit == Init => AtLeastOnce!Init /\ SettledOnce!Init
  BY DEF Init, AtLeastOnce!Init, SettledOnce!Init, Told, Removed

\* However runs, emissions, removals and failures interleave, every step is one
\* that Outbox allows (webhooks.ts:9-14): events are queued for their subscribers
\* at once or not at all, no removed endpoint gets another row, DELIVERED was
\* received and FAILED was tried as often as promised.
THEOREM OutboxImplemented == Spec => ImplementsOutbox
  <1>1. DeliveryInv /\ TargetsAlike /\ [Next]_vars => [AtLeastOnce!Next]_(AtLeastOnce!outbox)
    BY StepSeen DEF OthersStep, Seen, AtLeastOnce!Next, AtLeastOnce!outbox
  <1>2. Spec => []TargetsAlike
    BY EmissionInvariance, PTL DEF EmissionInv
  <1> QED
    BY <1>1, <1>2, OutboxInit, DeliveryInvariance, PTL DEF Spec, ImplementsOutbox, AtLeastOnce!Spec

----------------------------------------------------------------------------
(* With runs that stay apart *)

\* Whether rows may reopen or not makes no difference to queueing them.
LEMMA SameEnqueue == AtLeastOnce!Enqueue => SettledOnce!Enqueue
  <1> SUFFICES ASSUME AtLeastOnce!Enqueue PROVE SettledOnce!Enqueue
    OBVIOUS
  <1> DEFINE queued(rows, to, event, c) ==
               Told' = [d \in Deliveries |->
                   IF d \in rows
                   THEN [endpoint |-> to[d], event |-> event, connection |-> c]
                   ELSE Told[d]]
  <1>1. PICK rows \in SUBSET {d \in Deliveries : status[d] = "none"} :
          /\ status' = [d \in Deliveries |-> IF d \in rows THEN "PENDING" ELSE status[d]]
          /\ \E T \in SUBSET (Endpoints \ Removed), event \in EventTypes, c \in Connections :
               /\ \A e \in T : event \in Subscribes[e]
               /\ \E to \in AtLeastOnce!Bijection(rows, T) : queued(rows, to, event, c)
    BY Zenon DEF AtLeastOnce!Enqueue
  <1>2. PICK T \in SUBSET (Endpoints \ Removed), event \in EventTypes, c \in Connections :
          /\ \A e \in T : event \in Subscribes[e]
          /\ \E to \in AtLeastOnce!Bijection(rows, T) : queued(rows, to, event, c)
    BY <1>1
  <1>3. PICK to \in AtLeastOnce!Bijection(rows, T) : queued(rows, to, event, c)
    BY <1>2
  <1>4. to \in SettledOnce!Bijection(rows, T)
    BY <1>3, SameBijections
  <1>5. UNCHANGED <<tries, accepted, Removed>>
    BY DEF AtLeastOnce!Enqueue
  <1>6. \E S \in SUBSET (Endpoints \ Removed), ev \in EventTypes, x \in Connections :
          /\ \A e \in S : ev \in Subscribes[e]
          /\ \E f \in SettledOnce!Bijection(rows, S) : queued(rows, f, ev, x)
    <2> HIDE DEF queued
    <2>1. \E f \in SettledOnce!Bijection(rows, T) : queued(rows, f, event, c)
      BY <1>3, <1>4
    <2> WITNESS T \in SUBSET (Endpoints \ Removed), event \in EventTypes, c \in Connections
    <2> QED
      BY <1>2, <2>1
  <1> QED
    BY <1>1, <1>5, <1>6, Zenon DEF SettledOnce!Enqueue

\* What a run has in hand is unsettled, so there is nothing it could reopen.
LEMMA ApartStep ==
    ASSUME DeliveryInv, TargetsAlike, HandsInv, RunsApart, [Next]_vars
    PROVE  SettledOnce!Next \/ UNCHANGED Seen
  <1>0. TypeInv
    BY DEF DeliveryInv
  <1>1. ASSUME NEW r \in Runs, NEW d \in Deliveries, d \in Hands(r), AtLeastOnce!Send(d)
        PROVE  SettledOnce!Send(d)
    <2>1. status[d] \in {"PENDING", "deleted"}
      BY <1>1 DEF HandsInv
    <2> QED
      BY <1>1, <2>1 DEF AtLeastOnce!Send, SettledOnce!Send, SettledOnce!Open
  <1>2. ASSUME NEW r \in Runs, MarkDelivered(r) \/ Retry(r), item[r].id \in Deliveries,
               \/ AtLeastOnce!Deliver(item[r].id)
               \/ AtLeastOnce!GiveUp(item[r].id)
               \/ AtLeastOnce!TryAgain(item[r].id)
        PROVE  \/ SettledOnce!Deliver(item[r].id)
               \/ SettledOnce!GiveUp(item[r].id)
               \/ SettledOnce!TryAgain(item[r].id)
    <2>1. status[item[r].id] = "PENDING"
      BY <1>0, <1>2, HandsUpdate
    <2> QED
      BY <1>2, <2>1
      DEF AtLeastOnce!Deliver, AtLeastOnce!GiveUp, AtLeastOnce!TryAgain, AtLeastOnce!Settle,
          SettledOnce!Deliver, SettledOnce!GiveUp, SettledOnce!TryAgain, SettledOnce!Settle,
          SettledOnce!Open
  <1>3. ASSUME OthersStep PROVE SettledOnce!Next \/ UNCHANGED Seen
    <2>1. AtLeastOnce!Enqueue => SettledOnce!Enqueue
      BY SameEnqueue
    <2>2. \A e : AtLeastOnce!Remove(e) <=> SettledOnce!Remove(e)
      BY DEF AtLeastOnce!Remove, SettledOnce!Remove, AtLeastOnce!Exists, SettledOnce!Exists
    <2> QED
      BY <1>3, <2>1, <2>2 DEF OthersStep, SettledOnce!Next
  <1> QED
    BY <1>1, <1>2, <1>3, StepSeen DEF SettledOnce!Next

\* As long as no two runs have the same row in hand, the outbox is the one whose
\* rows settle once: posted while they are owed, and never again after they were
\* delivered or given up.
THEOREM RunsApartSettleOnce == Spec /\ []RunsApart => SettledOnce!Spec
  <1>1. DeliveryInv /\ TargetsAlike /\ HandsInv /\ RunsApart /\ [Next]_vars =>
          [SettledOnce!Next]_(SettledOnce!outbox)
    BY ApartStep DEF Seen, SettledOnce!outbox
  <1>2. Init => HandsInv
    BY DEF Init, HandsInv, Hands
  <1>3. DeliveryInv /\ DeliveryInv' /\ HandsInv /\ RunsApart /\ [Next]_vars => HandsInv'
    BY HandsNext DEF DeliveryInv
  <1>4. Spec => []TargetsAlike
    BY EmissionInvariance, PTL DEF EmissionInv
  <1> QED
    BY <1>1, <1>2, <1>3, <1>4, OutboxInit, DeliveryInvariance, PTL DEF Spec, SettledOnce!Spec

\* So no run is about to post, or to write to, a row that has settled: what an
\* endpoint accepted it does not hear again (INTEGRATION.md:474), except for a
\* post whose outcome could not be recorded.
THEOREM SettledRowsAreLeftAlone ==
    Spec /\ []RunsApart =>
      [](\A r \in Runs : \A d \in Hands(r) : status[d] \in {"PENDING", "deleted"})
  <1>1. Init => HandsInv
    BY DEF Init, HandsInv, Hands
  <1>2. DeliveryInv /\ DeliveryInv' /\ HandsInv /\ RunsApart /\ [Next]_vars => HandsInv'
    BY HandsNext DEF DeliveryInv
  <1>3. HandsInv => \A r \in Runs : \A d \in Hands(r) : status[d] \in {"PENDING", "deleted"}
    BY DEF HandsInv
  <1> QED
    BY <1>1, <1>2, <1>3, DeliveryInvariance, PTL DEF Spec
=============================================================================
