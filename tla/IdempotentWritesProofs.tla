----------------------- MODULE IdempotentWritesProofs -----------------------
(***************************************************************************)
(* What IdempotentWrites promises, for any number of requests, keys and    *)
(* bodies.  The inductive invariant adds to the properties what ties them  *)
(* together: that a stored answer is about a record made from the stored   *)
(* body, that replays repeat the stored answer, and that a key whose       *)
(* writes never overlapped nor broke off has at most one request at work   *)
(* and at most one record, which is stored or in that request's hands.     *)
(***************************************************************************)
EXTENDS IdempotentWrites, TLAPS

\* A stored answer is about a record that was made from the stored body.
StoredIsMade ==
    \A k \in Keys : stored[k] # None =>
        /\ made[stored[k].record] # None
        /\ BodyOf[made[stored[k].record]] = stored[k].body

\* What was replayed is what is stored.
ReplaysStored ==
    \A k \in Keys : \A a \in replayed[k] :
        stored[k] # None /\ a = [record |-> stored[k].record, body |-> stored[k].body]

\* At most one request is at work under a key that is not excused, none once
\* its answer is stored, and no abandoned attempt is still under way.
OneAtATime ==
    \A k \in Keys \ excused :
        /\ \A q, r \in Requests :
             KeyOf[q] = k /\ KeyOf[r] = k /\ stage[q] # "idle" /\ stage[r] # "idle" => q = r
        /\ stored[k] # None => \A r \in Requests : KeyOf[r] = k => stage[r] = "idle"
        /\ \A m \in stray : KeyOf[m[1]] # k

\* A record made under such a key is stored, or its request has it in hand.
RecordInHand ==
    \A k \in Keys \ excused, n \in Records :
        MadeUnder(n, k) =>
            \/ stored[k] # None
            \/ \E r \in Requests : /\ stage[r] \in {"replied", "answered"}
                                   /\ KeyOf[r] = k
                                   /\ result[r] = n

IInv ==
    /\ TypeOK /\ StoredIsMade /\ ReplaysStored
    /\ OneAtATime /\ RecordInHand /\ DuplicateHasACause

\* The initial state satisfies the invariant.
LEMMA InitIInv == Init => IInv
  <1> SUFFICES ASSUME Init PROVE IInv
    OBVIOUS
  <1> USE ConstantsAssumption DEF Init
  <1>1. TypeOK
    BY DEF TypeOK, Stage
  <1>2. StoredIsMade /\ ReplaysStored
    BY DEF StoredIsMade, ReplaysStored
  <1>3. OneAtATime
    BY DEF OneAtATime
  <1>4. RecordInHand /\ DuplicateHasACause
    BY DEF RecordInHand, DuplicateHasACause, MadeUnder
  <1> QED
    BY <1>1, <1>2, <1>3, <1>4 DEF IInv

\* Every value keeps its type, and an answer in hand its record.
LEMMA TypeStep == TypeOK /\ [Next]_vars => TypeOK'
  <1> SUFFICES ASSUME TypeOK, [Next]_vars PROVE TypeOK'
    OBVIOUS
  <1> USE ConstantsAssumption DEF TypeOK, Stage, Fault
  <1>1. ASSUME NEW r \in Requests, Call(r) \/ Replay(r) \/ Send(r) \/ AnswerArrives(r)
        PROVE  TypeOK'
    <2>1. CASE Call(r)
      BY <2>1 DEF Call
    <2>2. CASE Replay(r)
      BY <2>2 DEF Replay, Replays, Stored, requestVars
    <2>3. CASE Send(r)
      BY <2>3 DEF Send
    <2>4. CASE AnswerArrives(r)
      BY <2>4 DEF AnswerArrives
    <2> QED
      BY <1>1, <2>1, <2>2, <2>3, <2>4
  <1>2. ASSUME NEW r \in Requests, Creates(r) PROVE TypeOK'
    BY <1>2 DEF Creates, Create, Records
  <1>3. ASSUME NEW r \in Requests, Rejects(r) \/ Unavailable(r) PROVE TypeOK'
    BY <1>3 DEF Rejects, Unavailable, AttemptFails, Respond
  <1>4. ASSUME NEW r \in Requests, AnswerLost(r) PROVE TypeOK'
    BY <1>4 DEF AnswerLost, AttemptFails, Respond
  <1>5. ASSUME NEW r \in Requests, HandlerThrows(r) \/ Remember(r) \/ RememberFails(r)
        PROVE  TypeOK'
    BY <1>5 DEF HandlerThrows, Remember, RememberFails, Respond, Stored
  <1>6. ASSUME NEW r \in Requests, Crash(r) PROVE TypeOK'
    BY <1>6 DEF Crash, Respond
  <1>7. ASSUME NEW m \in stray, StrayArrives(m) PROVE TypeOK'
    BY <1>7 DEF StrayArrives, Create, Records, requestVars
  <1>8. CASE UNCHANGED vars
    BY <1>8 DEF vars, requestVars
  <1> QED
    BY <1>1, <1>2, <1>3, <1>4, <1>5, <1>6, <1>7, <1>8 DEF Next

\* A record belongs for good to the request it was made for.
LEMMA MadeForGood ==
    ASSUME TypeOK, [Next]_vars, NEW n \in Records, made[n] # None
    PROVE  made'[n] = made[n]
  <1> USE DEF TypeOK
  <1>1. ASSUME NEW r \in Requests, NEW x \in Records, Create(r, x)
        PROVE  made'[n] = made[n]
    BY <1>1 DEF Create
  <1>2. ASSUME NEW m \in stray, StrayArrives(m) PROVE made'[n] = made[n]
    <2>1. m[1] \in Requests
      OBVIOUS
    <2> QED
      BY <1>1, <1>2, <2>1 DEF StrayArrives
  <1>3. ASSUME NEW r \in Requests, Creates(r) PROVE made'[n] = made[n]
    BY <1>1, <1>3 DEF Creates
  <1>4. CASE UNCHANGED made
    BY <1>4
  <1> QED
    BY <1>2, <1>3, <1>4
    DEF Next, vars, requestVars, Call, Replay, Send, Rejects, Unavailable, AnswerLost,
        AnswerArrives, HandlerThrows, Remember, RememberFails, Crash

\* Only Remember writes a row, and only one that was not there.
LEMMA StoredOnce ==
    ASSUME TypeOK, [Next]_vars, NEW k \in Keys
    PROVE  \/ stored'[k] = stored[k]
           \/ /\ stored[k] = None
              /\ \E r \in Requests :
                    /\ Remember(r)
                    /\ KeyOf[r] = k
                    /\ stored'[k] = [body |-> BodyOf[r], record |-> result[r]]
  <1> USE DEF TypeOK
  <1>1. ASSUME NEW r \in Requests, Remember(r), stored'[k] # stored[k]
        PROVE  /\ stored[k] = None
               /\ KeyOf[r] = k
               /\ stored'[k] = [body |-> BodyOf[r], record |-> result[r]]
    BY <1>1 DEF Remember
  <1>2. CASE UNCHANGED stored
    BY <1>2
  <1> QED
    BY <1>1, <1>2
    DEF Next, vars, requestVars, Call, Replay, Send, Creates, Rejects, Unavailable, AnswerLost,
        AnswerArrives, HandlerThrows, StrayArrives, RememberFails, Crash

\* A stored answer is about a record made from its body.
LEMMA StoredIsMadeStep == TypeOK /\ StoredIsMade /\ [Next]_vars => StoredIsMade'
  <1> SUFFICES ASSUME TypeOK, StoredIsMade, [Next]_vars, NEW k \in Keys, stored'[k] # None
               PROVE  /\ made'[stored'[k].record] # None
                      /\ BodyOf[made'[stored'[k].record]] = stored'[k].body
    BY DEF StoredIsMade
  <1>1. CASE stored'[k] = stored[k]
    <2>1. stored[k].record \in Records /\ made[stored[k].record] # None
      BY <1>1 DEF TypeOK, Stored, StoredIsMade
    <2>2. made'[stored[k].record] = made[stored[k].record]
      BY <2>1, MadeForGood
    <2> QED
      BY <1>1, <2>1, <2>2 DEF StoredIsMade
  <1>2. ASSUME NEW r \in Requests, Remember(r),
               stored'[k] = [body |-> BodyOf[r], record |-> result[r]]
        PROVE  /\ made'[stored'[k].record] # None
               /\ BodyOf[made'[stored'[k].record]] = stored'[k].body
    <2>1. made' = made /\ result[r] \in Records /\ made[result[r]] = r
      BY <1>2 DEF Remember, TypeOK
    <2> QED
      BY <1>2, <2>1, ConstantsAssumption
  <1> QED
    BY <1>1, <1>2, StoredOnce

\* A replay repeats the row, and the row does not change any more.
LEMMA ReplaysStoredStep == TypeOK /\ ReplaysStored /\ [Next]_vars => ReplaysStored'
  <1> SUFFICES ASSUME TypeOK, ReplaysStored, [Next]_vars,
                      NEW k \in Keys, NEW a \in replayed'[k]
               PROVE  /\ stored'[k] # None
                      /\ a = [record |-> stored'[k].record, body |-> stored'[k].body]
    BY DEF ReplaysStored
  <1>1. CASE a \in replayed[k]
    <2>1. stored[k] # None /\ a = [record |-> stored[k].record, body |-> stored[k].body]
      BY <1>1 DEF ReplaysStored
    <2> QED
      BY <2>1, StoredOnce
  <1>2. ASSUME NEW r \in Requests, Replay(r), a \notin replayed[k]
        PROVE  /\ stored'[k] # None
               /\ a = [record |-> stored'[k].record, body |-> stored'[k].body]
    BY <1>2, ConstantsAssumption DEF Replay, Replays, TypeOK
  <1>3. CASE UNCHANGED replayed
    BY <1>1, <1>3
  <1> QED
    BY <1>1, <1>2, <1>3
    DEF Next, vars, requestVars, Call, Send, Creates, Rejects, Unavailable, AnswerLost,
        AnswerArrives, HandlerThrows, StrayArrives, Remember, RememberFails, Crash

----------------------------------------------------------------------------
(* Keys whose writes neither overlapped nor broke off *)

\* The part of the invariant that is about one key.
Undisturbed(k) ==
    /\ \A q, r \in Requests :
         KeyOf[q] = k /\ KeyOf[r] = k /\ stage[q] # "idle" /\ stage[r] # "idle" => q = r
    /\ stored[k] # None => \A r \in Requests : KeyOf[r] = k => stage[r] = "idle"
    /\ \A m \in stray : KeyOf[m[1]] # k
    /\ \A n \in Records :
         MadeUnder(n, k) =>
            \/ stored[k] # None
            \/ \E r \in Requests : /\ stage[r] \in {"replied", "answered"}
                                   /\ KeyOf[r] = k
                                   /\ result[r] = n
    /\ \A m, n \in Records : MadeUnder(m, k) /\ MadeUnder(n, k) => m = n

LEMMA UndisturbedIsInvariant ==
    OneAtATime /\ RecordInHand /\ DuplicateHasACause
        <=> \A k \in Keys \ excused : Undisturbed(k)
  BY DEF OneAtATime, RecordInHand, DuplicateHasACause, Undisturbed

\* Every step keeps an undisturbed key undisturbed or excuses it.
LEMMA UndisturbedStep ==
    ASSUME TypeOK, [Next]_vars, NEW k \in Keys, k \notin excused',
           k \notin excused => Undisturbed(k)
    PROVE  Undisturbed(k)'
  <1> USE ConstantsAssumption DEF TypeOK, MadeUnder
  <1>0. excused \subseteq excused'
    BY DEF Next, vars, requestVars, Call, Replay, Send, Creates, Rejects, Unavailable, AnswerLost,
           AnswerArrives, HandlerThrows, StrayArrives, Remember, RememberFails,
           Crash
  <1>1. Undisturbed(k)
    BY <1>0
  <1>2. ASSUME NEW r \in Requests, Call(r) PROVE Undisturbed(k)'
    BY <1>1, <1>2 DEF Call, Undisturbed
  <1>3. ASSUME NEW r \in Requests, Replay(r) PROVE Undisturbed(k)'
    BY <1>1, <1>3 DEF Replay, requestVars, Undisturbed
  <1>4. ASSUME NEW r \in Requests, Send(r) PROVE Undisturbed(k)'
    BY <1>1, <1>4 DEF Send, Undisturbed
  <1>5. ASSUME NEW r \in Requests, Creates(r) PROVE Undisturbed(k)'
    BY <1>1, <1>5 DEF Creates, Create, Undisturbed
  <1>6. ASSUME NEW r \in Requests, Rejects(r) \/ Unavailable(r) PROVE Undisturbed(k)'
    BY <1>1, <1>6 DEF Rejects, Unavailable, AttemptFails, Respond, Undisturbed
  <1>7. ASSUME NEW r \in Requests, AnswerLost(r) PROVE Undisturbed(k)'
    BY <1>1, <1>7 DEF AnswerLost, AttemptFails, Respond, Undisturbed
  <1>8. ASSUME NEW r \in Requests, AnswerArrives(r) PROVE Undisturbed(k)'
    BY <1>1, <1>8 DEF AnswerArrives, Undisturbed
  <1>9. ASSUME NEW r \in Requests, Remember(r) PROVE Undisturbed(k)'
    <2>1. /\ UNCHANGED <<made, stray>>
          /\ stage' = [stage EXCEPT ![r] = "idle"]
          /\ result' = [result EXCEPT ![r] = None]
          /\ stage[r] = "answered"
      BY <1>9 DEF Remember, Respond
    <2>2. CASE KeyOf[r] = k
      <3>1. stored'[k] # None
        BY <1>9, <2>2 DEF Remember, Stored
      <3>2. \A q \in Requests : KeyOf[q] = k => stage'[q] = "idle"
        BY <1>1, <2>1, <2>2 DEF Undisturbed
      <3> QED
        BY <1>1, <2>1, <3>1, <3>2 DEF Undisturbed
    <2>3. CASE KeyOf[r] # k
      <3>1. stored'[k] = stored[k]
        BY <1>9, <2>3 DEF Remember
      <3> QED
        BY <1>1, <2>1, <2>3, <3>1 DEF Undisturbed
    <2> QED
      BY <2>2, <2>3
  <1>10. ASSUME NEW r \in Requests, RememberFails(r) PROVE Undisturbed(k)'
    BY <1>1, <1>10 DEF RememberFails, Respond, Undisturbed
  <1>11. ASSUME NEW r \in Requests, Crash(r) PROVE Undisturbed(k)'
    BY <1>1, <1>11 DEF Crash, Respond, Undisturbed
  <1>12. ASSUME NEW m \in stray, StrayArrives(m) PROVE Undisturbed(k)'
    BY <1>1, <1>12 DEF StrayArrives, Create, requestVars, Undisturbed
  <1>13. ASSUME NEW r \in Requests, HandlerThrows(r) PROVE Undisturbed(k)'
    BY <1>1, <1>13 DEF HandlerThrows, Respond, Undisturbed
  <1>14. CASE UNCHANGED vars
    BY <1>1, <1>14 DEF vars, requestVars, Undisturbed
  <1> QED
    BY <1>2, <1>3, <1>4, <1>5, <1>6, <1>7, <1>8, <1>9, <1>10, <1>11, <1>12, <1>13, <1>14
    DEF Next

\* The invariant is inductive.
LEMMA NextIInv == IInv /\ [Next]_vars => IInv'
  <1> SUFFICES ASSUME IInv, [Next]_vars PROVE IInv'
    OBVIOUS
  <1>1. TypeOK'
    BY TypeStep DEF IInv
  <1>2. StoredIsMade'
    BY StoredIsMadeStep DEF IInv
  <1>3. ReplaysStored'
    BY ReplaysStoredStep DEF IInv
  <1>4. \A k \in Keys \ excused : Undisturbed(k)
    BY UndisturbedIsInvariant DEF IInv
  <1>5. ASSUME NEW k \in Keys \ excused' PROVE Undisturbed(k)'
    BY <1>4, <1>5, UndisturbedStep DEF IInv
  <1>6. (OneAtATime /\ RecordInHand /\ DuplicateHasACause)'
    BY <1>5 DEF OneAtATime, RecordInHand, DuplicateHasACause, Undisturbed
  <1> QED
    BY <1>1, <1>2, <1>3, <1>6 DEF IInv

----------------------------------------------------------------------------
(* Theorems *)

\* The invariant holds of every reachable state.
THEOREM WritesInvariance == Spec => []IInv
  BY InitIInv, NextIInv, PTL DEF Spec

\* Every variable keeps its type, and an answer on its way to the client is
\* about a record made for that very request (api-auth.ts:314-327).
THEOREM WritesTypeCorrect == Spec => []TypeOK
  <1>1. IInv => TypeOK
    BY DEF IInv
  <1> QED
    BY <1>1, WritesInvariance, PTL

\* A key has two records only if its requests overlapped, an answer was lost or
\* the handler threw over it (api-auth.ts:334), an instance died or the key could
\* not be stored (idempotency.ts:7-9).
THEOREM RetriesOneByOneAreSafe == Spec => []DuplicateHasACause
  <1>1. IInv => DuplicateHasACause
    BY DEF IInv
  <1> QED
    BY <1>1, WritesInvariance, PTL

\* All replays of a key give the same answer (idempotency.ts:66-67).
THEOREM ReplaysAlwaysAgree == Spec => []ReplaysAgree
  <1>1. IInv => ReplaysAgree
    BY DEF IInv, ReplaysStored, ReplaysAgree
  <1> QED
    BY <1>1, WritesInvariance, PTL

\* A replay is about a record that was made from the body it answers
\* (idempotency.ts:38-42).
THEOREM ReplaysAnswerTheirBody == Spec => []ReplayMatchesBody
  <1>1. IInv => ReplayMatchesBody
    BY DEF IInv, ReplaysStored, StoredIsMade, ReplayMatchesBody
  <1> QED
    BY <1>1, WritesInvariance, PTL

----------------------------------------------------------------------------
(* What a second record takes, and what it cannot survive *)

\* No two requests of one key are at work at once.
KeysApart ==
    \A q, r \in Requests :
        KeyOf[q] = KeyOf[r] /\ stage[q] # "idle" /\ stage[r] # "idle" => q = r

\* A step that raises no fault and leaves the requests of each key apart excuses
\* no key.
LEMMA NothingExcusedStep ==
    ASSUME TypeOK, [Next]_vars, KeysApart', faults' = 0, faults = 0, excused = {}
    PROVE  excused' = {}
  <1> USE ConstantsAssumption DEF TypeOK
  <1>1. ASSUME NEW r \in Requests, Call(r) PROVE excused' = {}
    <2>1. ASSUME NEW q \in Requests \ {r}, KeyOf[q] = KeyOf[r], stage[q] # "idle"
          PROVE  FALSE
      <3>1. stage'[q] # "idle" /\ stage'[r] # "idle"
        BY <1>1, <2>1 DEF Call
      <3> QED
        BY <2>1, <3>1 DEF KeysApart
    <2> QED
      BY <1>1, <2>1 DEF Call
  <1>2. ASSUME NEW r \in Requests,
               AnswerLost(r) \/ HandlerThrows(r) \/ RememberFails(r) \/ Crash(r)
        PROVE  FALSE
    BY <1>2 DEF AnswerLost, HandlerThrows, RememberFails, Crash, Fault
  <1>3. CASE UNCHANGED excused
    BY <1>3
  <1> QED
    BY <1>1, <1>2, <1>3
    DEF Next, vars, requestVars, Replay, Send, Creates, Rejects, Unavailable, AnswerArrives,
        StrayArrives, Remember

\* "A client retrying a POST after a timeout must not create a second sale"
\* (idempotency.ts:7) is kept so far: one record per key if no answer is lost, no
\* handler throws once the record is there, nothing dies and no row fails to be
\* written (the faults), and a client never has two requests of one key at work.
THEOREM OneRecordPerKeyApart ==
    Spec /\ []KeysApart /\ [](faults = 0) => []OneRecordPerKey
  <1>1. Init => excused = {}
    BY DEF Init
  <1>2. /\ IInv /\ KeysApart /\ faults = 0 /\ excused = {}
        /\ [Next]_vars /\ (KeysApart /\ faults = 0)'
        => (excused = {})'
    BY NothingExcusedStep DEF IInv
  <1>3. DuplicateHasACause /\ excused = {} => OneRecordPerKey
    BY DEF DuplicateHasACause, OneRecordPerKey
  <1> QED
    BY <1>1, <1>2, <1>3, WritesInvariance, RetriesOneByOneAreSafe, PTL DEF Spec

\* The answer of k is stored and nothing of k is under way any more: no request,
\* no attempt that was given up.
Concluded(k) ==
    /\ stored[k] # None
    /\ \A r \in Requests : KeyOf[r] = k => stage[r] = "idle"
    /\ \A m \in stray : KeyOf[m[1]] # k

\* A concluded key stays concluded, and nothing more is made under it.
LEMMA ConcludedStep ==
    ASSUME TypeOK, [Next]_vars, NEW k \in Keys, Concluded(k)
    PROVE  /\ Concluded(k)'
           /\ stored'[k] = stored[k]
           /\ \A n \in Records : MadeUnder(n, k)' => MadeUnder(n, k)
  <1> USE ConstantsAssumption DEF TypeOK
  <1>0. stored'[k] = stored[k]
    BY StoredOnce DEF Concluded
  <1>1. ASSUME NEW r \in Requests, Call(r) PROVE KeyOf[r] # k
    BY <1>1 DEF Call, Concluded
  <1>2. ASSUME NEW r \in Requests, stage[r] # "idle" PROVE KeyOf[r] # k
    BY <1>2 DEF Concluded
  <1>3. \A r \in Requests : KeyOf[r] = k => stage'[r] = "idle"
    <2>1. ASSUME NEW q \in Requests, KeyOf[q] # k,
                 \A r \in Requests \ {q} : stage'[r] = stage[r]
          PROVE  \A r \in Requests : KeyOf[r] = k => stage'[r] = "idle"
      BY <2>1 DEF Concluded
    <2>2. CASE UNCHANGED stage
      BY <2>2 DEF Concluded
    <2>3. ASSUME NEW q \in Requests, Call(q) PROVE \A r \in Requests \ {q} : stage'[r] = stage[r]
      BY <2>3 DEF Call
    <2>4. ASSUME NEW q \in Requests,
                 Send(q) \/ Creates(q) \/ Rejects(q) \/ Unavailable(q) \/ AnswerLost(q)
                   \/ AnswerArrives(q) \/ HandlerThrows(q) \/ Remember(q) \/ RememberFails(q)
                   \/ Crash(q)
          PROVE  stage[q] # "idle" /\ \A r \in Requests \ {q} : stage'[r] = stage[r]
      BY <2>4 DEF Send, Creates, Rejects, Unavailable, AnswerLost, AnswerArrives,
                  HandlerThrows, Remember, RememberFails, Crash, AttemptFails, Respond
    <2> QED
      BY <1>1, <1>2, <2>1, <2>2, <2>3, <2>4
      DEF Next, vars, requestVars, Replay, StrayArrives
  <1>4. \A m \in stray' : KeyOf[m[1]] # k
    <2>1. ASSUME NEW q \in Requests, AnswerLost(q) \/ Crash(q)
          PROVE  \A m \in stray' : KeyOf[m[1]] # k
      <3>1. KeyOf[q] # k
        BY <1>2, <2>1 DEF AnswerLost, Crash
      <3>2. stray' = stray \/ stray' = stray \cup {<<q, faults>>}
        BY <2>1 DEF AnswerLost, Crash
      <3> QED
        BY <3>1, <3>2 DEF Concluded
    <2>2. CASE stray' \subseteq stray
      BY <2>2 DEF Concluded
    <2> QED
      BY <2>1, <2>2
      DEF Next, vars, requestVars, Call, Replay, Send, Creates, Rejects, Unavailable,
          AnswerArrives, HandlerThrows, StrayArrives, Remember, RememberFails
  <1>5. \A n \in Records : MadeUnder(n, k)' => MadeUnder(n, k)
    <2>1. ASSUME NEW q \in Requests, KeyOf[q] # k, NEW n \in Records, Create(q, n)
          PROVE  \A x \in Records : MadeUnder(x, k)' => MadeUnder(x, k)
      BY <2>1 DEF Create, MadeUnder
    <2>2. ASSUME NEW q \in Requests, Creates(q)
          PROVE  \A x \in Records : MadeUnder(x, k)' => MadeUnder(x, k)
      BY <1>2, <2>1, <2>2 DEF Creates
    <2>3. ASSUME NEW m \in stray, StrayArrives(m)
          PROVE  \A x \in Records : MadeUnder(x, k)' => MadeUnder(x, k)
      <3>1. m[1] \in Requests /\ KeyOf[m[1]] # k
        BY DEF Concluded
      <3> QED
        BY <2>1, <2>3, <3>1 DEF StrayArrives
    <2>4. CASE UNCHANGED made
      BY <2>4 DEF MadeUnder
    <2> QED
      BY <2>2, <2>3, <2>4
      DEF Next, vars, requestVars, Call, Replay, Send, Rejects, Unavailable, AnswerLost,
          AnswerArrives, HandlerThrows, Remember, RememberFails, Crash
  <1> QED
    BY <1>0, <1>3, <1>4, <1>5 DEF Concluded

\* Whatever is lost or dies meanwhile: once the answer of a key is stored and
\* nothing of the key is under way, its stored answer and its records are final.
\* No retry, early or late, makes another (api-auth.ts:275-297).
THEOREM StoredAnswerEndsTheKey ==
    ASSUME NEW k \in Keys, NEW n \in Records, NEW answer
    PROVE  Spec => []( Concluded(k) /\ stored[k] = answer /\ ~MadeUnder(n, k)
                       => [](Concluded(k) /\ stored[k] = answer /\ ~MadeUnder(n, k)) )
  <1>1. IInv /\ Concluded(k) /\ stored[k] = answer /\ ~MadeUnder(n, k) /\ [Next]_vars
        => (Concluded(k) /\ stored[k] = answer /\ ~MadeUnder(n, k))'
    BY ConcludedStep DEF IInv
  <1> QED
    BY <1>1, WritesInvariance, PTL DEF Spec
=============================================================================
