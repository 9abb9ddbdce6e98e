-------------------------- MODULE IdempotentWrites --------------------------
(***************************************************************************)
(* Writes with an Idempotency-Key: withUnifiedAuth (lib/api-auth.ts) from  *)
(* the lookup on, lib/idempotency.ts, and the attempts that httpRequest    *)
(* (lib/providers/core/http.ts) makes of one provider call.                *)
(*                                                                         *)
(* A request is one call of the API by one client.  It reads the stored    *)
(* key, creates a record at the provider, and stores the answer under the  *)
(* key: three steps with nothing around them that keeps another request    *)
(* with the same key out.  What withUnifiedAuth refuses before the lookup  *)
(* (key, scope, rate limit, connection, body) has changed nothing and is   *)
(* not modelled here; a 401 and its replay are TokenRefresh's.             *)
(***************************************************************************)
EXTENDS Naturals

CONSTANTS Requests,       \* API calls that may run at the same time
          Keys,           \* Idempotency-Key values
          Bodies,         \* what hashRequest tells apart: endpoint and body
          KeyOf, BodyOf,  \* what a request carries
          MaxAttempts,    \* maxAttempts of httpRequest
          MaxRecords,     \* bound: records the provider creates
          MaxFaults,      \* bound: crashes, lost or unusable answers, failed writes
          None

Records == 1..MaxRecords

\* A row of IdempotencyKey: the hash of the request and the answer given to it.
Stored == [body : Bodies, record : Records]

ASSUME ConstantsAssumption ==
    /\ KeyOf \in [Requests -> Keys]
    /\ BodyOf \in [Requests -> Bodies]
    /\ MaxAttempts \in Nat \ {0}
    /\ MaxRecords \in Nat
    /\ MaxFaults \in Nat
    /\ None \notin Stored \cup Records \cup Requests

VARIABLES
    stored,     \* per key: the row of IdempotencyKey
    stage,      \* per request: where it stands
    attempt,    \* per request: the attempt of httpRequest it is at
    result,     \* per request: the record the provider created for it
    \* the provider's side
    made,       \* per record: the request it was created for
    stray,      \* abandoned attempts the provider may still process
    \* history
    replayed,   \* per key: the answers replayed for it
    excused,    \* keys whose writes overlapped or broke off after the provider's part
    faults

requestVars == <<stage, attempt, result>>
vars == <<stored, requestVars, made, stray, replayed, excused, faults>>

Stage == {"idle", "send", "sent", "replied", "answered"}

Fault == faults < MaxFaults /\ faults' = faults + 1

Init ==
    /\ stored = [k \in Keys |-> None]
    /\ stage = [r \in Requests |-> "idle"]
    /\ attempt = [r \in Requests |-> 1]
    /\ result = [r \in Requests |-> None]
    /\ made = [n \in Records |-> None]
    /\ stray = {}
    /\ replayed = [k \in Keys |-> {}]
    /\ excused = {}
    /\ faults = 0

----------------------------------------------------------------------------
(* withUnifiedAuth: the lookup *)

\* Seeded fault: any answer stored under the key is replayed.
ReplaysAny(r) == stored[KeyOf[r]] # None

\* lookup finds the key, used for this endpoint and body.
Replays(r) ==
    /\ stored[KeyOf[r]] # None
    /\ stored[KeyOf[r]].body = BodyOf[r]

\* Seeded fault: the idempotency key is not looked up.
CallUnlooked(r) ==
    /\ stage[r] = "idle"
    /\ stage' = [stage EXCEPT ![r] = "send"]
    /\ excused' = IF \E q \in Requests \ {r} : KeyOf[q] = KeyOf[r] /\ stage[q] # "idle"
                  THEN excused \cup {KeyOf[r]} ELSE excused
    /\ UNCHANGED <<stored, attempt, result, made, stray, replayed, faults>>

\* A miss goes on to the provider.
Call(r) ==
    /\ stage[r] = "idle"
    /\ stored[KeyOf[r]] = None
    /\ stage' = [stage EXCEPT ![r] = "send"]
    /\ excused' = IF \E q \in Requests \ {r} : KeyOf[q] = KeyOf[r] /\ stage[q] # "idle"
                  THEN excused \cup {KeyOf[r]} ELSE excused
    /\ UNCHANGED <<stored, attempt, result, made, stray, replayed, faults>>

\* The stored answer is replayed.  Another body is a conflict, refused with 422,
\* which changes nothing.
Replay(r) ==
    /\ stage[r] = "idle"
    /\ Replays(r)
    /\ replayed' = [replayed EXCEPT ![KeyOf[r]] =
                      @ \cup {[record |-> stored[KeyOf[r]].record, body |-> BodyOf[r]]}]
    /\ UNCHANGED <<stored, requestVars, made, stray, excused, faults>>

----------------------------------------------------------------------------
(* httpRequest and the provider (external) *)

Respond(r, s) ==
    /\ stage' = [stage EXCEPT ![r] = s]
    /\ attempt' = [attempt EXCEPT ![r] = IF s = "idle" THEN 1 ELSE @]
    /\ result' = [result EXCEPT ![r] = IF s = "idle" THEN None ELSE @]

\* performRequest sends the call.
Send(r) ==
    /\ stage[r] = "send"
    /\ stage' = [stage EXCEPT ![r] = "sent"]
    /\ UNCHANGED <<stored, attempt, result, made, stray, replayed, excused, faults>>

\* A record of the provider's that is made for request r.
Create(r, n) ==
    /\ made[n] = None
    /\ \A x \in 1..(n - 1) : made[x] # None
    /\ made' = [made EXCEPT ![n] = r]

\* The provider creates the record.
Creates(r) ==
    /\ stage[r] = "sent"
    /\ \E n \in Records :
         /\ Create(r, n)
         /\ result' = [result EXCEPT ![r] = n]
    /\ stage' = [stage EXCEPT ![r] = "replied"]
    /\ UNCHANGED <<stored, attempt, stray, replayed, excused, faults>>

\* A 4xx: final, answered with an error that is not remembered.
Rejects(r) ==
    /\ stage[r] = "sent"
    /\ Respond(r, "idle")
    /\ UNCHANGED <<stored, made, stray, replayed, excused, faults>>

\* Seeded fault: one attempt too many.
AttemptFailsLate(r) ==
    IF attempt[r] <= MaxAttempts
    THEN /\ stage' = [stage EXCEPT ![r] = "send"]
         /\ attempt' = [attempt EXCEPT ![r] = @ + 1]
         /\ result' = [result EXCEPT ![r] = None]
    ELSE Respond(r, "idle")

\* A retryable failure: the next attempt after a pause, or after the last one an
\* error for the client.
AttemptFails(r) ==
    IF attempt[r] < MaxAttempts
    THEN /\ stage' = [stage EXCEPT ![r] = "send"]
         /\ attempt' = [attempt EXCEPT ![r] = @ + 1]
         /\ result' = [result EXCEPT ![r] = None]
    ELSE Respond(r, "idle")

\* A 429 or a 5xx of a provider that did nothing.
Unavailable(r) ==
    /\ stage[r] = "sent"
    /\ AttemptFails(r)
    /\ UNCHANGED <<stored, made, stray, replayed, excused, faults>>

\* No answer within 30 s, or a 5xx, or a broken connection, of a provider that
\* has created the record or may still do so.  A body that breaks off is no
\* ProviderError and ends the request at once.
AnswerLost(r) ==
    /\ Fault
    /\ \/ /\ stage[r] = "sent"
          /\ stray' = stray \cup {<<r, faults>>}
          /\ AttemptFails(r)
       \/ /\ stage[r] = "replied"
          /\ AttemptFails(r) \/ Respond(r, "idle")
          /\ UNCHANGED stray
    /\ excused' = excused \cup {KeyOf[r]}
    /\ UNCHANGED <<stored, made, replayed>>

\* An abandoned attempt reaches the provider after all.
StrayArrives(m) ==
    /\ m \in stray
    /\ \E n \in Records : Create(m[1], n)
    /\ stray' = stray \ {m}
    /\ UNCHANGED <<stored, requestVars, replayed, excused, faults>>

\* The handler makes its answer of the provider's.
AnswerArrives(r) ==
    /\ stage[r] = "replied"
    /\ stage' = [stage EXCEPT ![r] = "answered"]
    /\ UNCHANGED <<stored, attempt, result, made, stray, replayed, excused, faults>>

----------------------------------------------------------------------------
(* withUnifiedAuth: the handler's answer, remember, and the response *)

\* The record is there, and the handler throws: it cannot map or validate what
\* the provider answered, or a later call of the same operation fails.  The
\* client gets an error and nothing is remembered.
HandlerThrows(r) ==
    /\ stage[r] = "replied"
    /\ Fault
    /\ excused' = excused \cup {KeyOf[r]}
    /\ Respond(r, "idle")
    /\ UNCHANGED <<stored, made, stray, replayed>>

\* Seeded fault: the upsert overwrites the answer that is there.
RememberLatest(r) ==
    /\ stage[r] = "answered"
    /\ stored' = [stored EXCEPT ![KeyOf[r]] = [body |-> BodyOf[r], record |-> result[r]]]
    /\ Respond(r, "idle")
    /\ UNCHANGED <<made, stray, replayed, excused, faults>>

\* The upsert keeps the first answer; then the client is answered.
Remember(r) ==
    /\ stage[r] = "answered"
    /\ stored' = [stored EXCEPT ![KeyOf[r]] =
                    IF @ = None THEN [body |-> BodyOf[r], record |-> result[r]] ELSE @]
    /\ Respond(r, "idle")
    /\ UNCHANGED <<made, stray, replayed, excused, faults>>

\* The upsert fails: logged, and the client is answered all the same.
RememberFails(r) ==
    /\ stage[r] = "answered"
    /\ Fault
    /\ excused' = excused \cup {KeyOf[r]}
    /\ Respond(r, "idle")
    /\ UNCHANGED <<stored, made, stray, replayed>>

\* The instance dies: what it was serving is never answered.
Crash(r) ==
    /\ stage[r] # "idle"
    /\ Fault
    /\ stray' = IF stage[r] = "sent" THEN stray \cup {<<r, faults>>} ELSE stray
    /\ excused' = IF stage[r] = "send" THEN excused ELSE excused \cup {KeyOf[r]}
    /\ Respond(r, "idle")
    /\ UNCHANGED <<stored, made, replayed>>

----------------------------------------------------------------------------
Next ==
    \/ \E r \in Requests :
         \/ Call(r) \/ Replay(r)
         \/ Send(r) \/ Creates(r) \/ Rejects(r) \/ Unavailable(r) \/ AnswerLost(r)
         \/ AnswerArrives(r) \/ HandlerThrows(r)
         \/ Remember(r) \/ RememberFails(r) \/ Crash(r)
    \/ \E m \in stray : StrayArrives(m)

Spec == Init /\ [][Next]_vars

----------------------------------------------------------------------------
(* Properties *)

\* The values the state ranges over; a request that has an answer in hand holds
\* a record that was made for it.
TypeOK ==
    /\ stored \in [Keys -> Stored \cup {None}]
    /\ stage \in [Requests -> Stage]
    /\ attempt \in [Requests -> 1..MaxAttempts]
    /\ result \in [Requests -> Records \cup {None}]
    /\ \A r \in Requests : stage[r] \in {"replied", "answered"} =>
         result[r] # None /\ made[result[r]] = r
    /\ made \in [Records -> Requests \cup {None}]
    /\ stray \subseteq Requests \X Nat
    /\ replayed \in [Keys -> SUBSET [record : Records, body : Bodies]]
    /\ excused \subseteq Keys
    /\ faults \in Nat

\* The record was created under the key.
MadeUnder(n, k) == made[n] # None /\ KeyOf[made[n]] = k

\* idempotency.ts:7-9, as far as it goes: a second record under one key takes
\* two requests at the same time, an answer of the provider's that was lost or
\* that the handler threw over, a crash, or a key that could not be stored.  A
\* retry that comes after the answer to the first request, and after none of
\* these, makes no second record.  The guide calls it safe after a timeout and
\* an UPSTREAM_ERROR as well (INTEGRATION.md:280, 390, 393), where a lost answer
\* and a throw are just what the client saw.
DuplicateHasACause ==
    \A k \in Keys, m, n \in Records :
        m # n /\ MadeUnder(m, k) /\ MadeUnder(n, k) => k \in excused

\* "The first response for an Idempotency-Key is stored and replayed"
\* (idempotency.ts:8): whatever raced to store it, all replays of a key agree.
ReplaysAgree ==
    \A k \in Keys : \A a, b \in replayed[k] : a.record = b.record

\* "reusing the same key with a different body is a client error" (idempotency.
\* ts:8-9): a replayed answer is about a record made from that very body.
ReplayMatchesBody ==
    \A k \in Keys : \A a \in replayed[k] :
        made[a.record] # None /\ BodyOf[made[a.record]] = a.body

\* "A client retrying a POST after a timeout must not create a second sale"
\* (idempotency.ts:7).
OneRecordPerKey ==
    \A k \in Keys, m, n \in Records : MadeUnder(m, k) /\ MadeUnder(n, k) => m = n
=============================================================================
