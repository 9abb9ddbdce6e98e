---------------------------- MODULE TokenRefresh ----------------------------
(***************************************************************************)
(* Renewing the OAuth credential of one connection (lib/token-refresh.ts)  *)
(* on behalf of provider calls (lib/providers/core/BaseProvider.ts).       *)
(*                                                                         *)
(* Several server instances share the database; each runs several callers, *)
(* a caller being one API request that holds one provider object.  A caller *)
(* whose access token is rejected, or about to expire, asks for a renewal. *)
(* Within an instance callers share one run (the inFlight map); across     *)
(* instances a run takes a Postgres advisory lock, re-reads the row, and   *)
(* only then spends the refresh token.  A reconnect writes the same row    *)
(* under the same lock.                                                    *)
(*                                                                         *)
(* One credential is modelled: the map, the lock and the row are keyed by  *)
(* its id, so two credentials do not interact.                             *)
(***************************************************************************)
EXTENDS Naturals

CONSTANTS Instances,      \* server processes
          Callers,        \* API requests, at most one renewal each at a time
          Home,           \* the instance a caller runs on
          Reconnects,     \* OAuth callbacks reconnecting this connection
          FirstGrant,     \* the grant the connection was made with
          MaxSerial,      \* bound: tokens issued after the first, per grant
          MaxFaults,      \* bound: faults of the environment, see Fault
          NoOne, NoToken

\* A reconnect is the authorization-code exchange of a grant of its own.
Grants == Reconnects \cup {FirstGrant}

ASSUME ConstantsAssumption ==
    /\ Home \in [Callers -> Instances]
    /\ MaxSerial \in Nat
    /\ MaxFaults \in Nat
    /\ FirstGrant \notin Reconnects
    /\ Callers \cap Reconnects = {}
    /\ NoOne \notin Callers \cup Reconnects
    /\ NoToken \notin [grant : Grants, serial : Nat]

(***************************************************************************)
(* The n-th access token of a grant and the n-th refresh token of a grant  *)
(* are both written as [grant, serial]; which of the two is meant is known *)
(* from where it stands.                                                   *)
(***************************************************************************)
Token == [grant : Grants, serial : Nat]
TokenOrNone == Token \cup {NoToken}
TokenAt(g, n) == [grant |-> g, serial |-> n]

\* What the token endpoint answers; a refusal carries no access token.
Refused == [access |-> NoToken, refresh |-> NoToken]
Answer == [access : Token, refresh : TokenOrNone] \cup {Refused}

VARIABLES
    row,        \* the stored credential: [exists, access, refresh]
    lock,       \* who holds the credential's advisory lock
    inFlight,   \* per instance: the caller whose run the inFlight map holds
    pc,         \* per caller: where its provider call stands
    token,      \* per caller: the access token its provider object uses
    awaiting,   \* per caller: the caller whose run it awaits
    phase,      \* per caller: where the run it started stands
    presented,  \* per caller: the refresh token its run sends
    answer,     \* per caller: the answer on its way back to its run
    reconnect,  \* per reconnect: where it stands
    \* the provider's side
    issued,     \* per grant: serial of the newest access token
    live,       \* per grant: serial of the refresh token it accepts
    revoked,    \* grants whose refresh tokens are all refused
    stray,      \* abandoned token requests it may still process
    \* history
    lost,       \* grants the store may no longer speak for
    faults      \* faults so far

callerVars == <<pc, token, awaiting>>
runVars == <<phase, presented, answer>>
providerVars == <<issued, live, revoked, stray>>
vars == <<row, lock, inFlight, callerVars, runVars, reconnect, providerVars, lost, faults>>

Renewing == {"renew401", "renewEarly"}
PC == {"idle", "ready", "attempt", "replay"} \cup Renewing
Phase == {"none", "lock", "locked", "request", "answered", "announce"}
ReconnectPC == {"idle", "waiting", "locked", "done"}

Init ==
    \* a credential with a refresh token, or one issued without (an API key)
    /\ \E r \in {TokenAt(FirstGrant, 0), NoToken} :
         row = [exists |-> TRUE, access |-> TokenAt(FirstGrant, 0), refresh |-> r]
    /\ lock = NoOne
    /\ inFlight = [i \in Instances |-> NoOne]
    /\ pc = [c \in Callers |-> "idle"]
    /\ token = [c \in Callers |-> NoToken]
    /\ awaiting = [c \in Callers |-> NoOne]
    /\ phase = [c \in Callers |-> "none"]
    /\ presented = [c \in Callers |-> NoToken]
    /\ answer = [c \in Callers |-> Refused]
    /\ reconnect = [k \in Reconnects |-> "idle"]
    /\ issued = [g \in Grants |-> 0]
    /\ live = [g \in Grants |-> 0]
    /\ revoked = {}
    /\ stray = {}
    /\ lost = {}
    /\ faults = 0

\* Timeouts, crashes, failed writes, deletions and revocations are bounded.
Fault == faults < MaxFaults /\ faults' = faults + 1

----------------------------------------------------------------------------
(* Callers: BaseProvider.request *)

\* The API request resolves its connection and reads the credential.
Begin(c) ==
    /\ pc[c] = "idle"
    /\ row.exists
    /\ pc' = [pc EXCEPT ![c] = "ready"]
    /\ token' = [token EXCEPT ![c] = row.access]
    /\ UNCHANGED <<row, lock, inFlight, awaiting, runVars, reconnect, providerVars, lost, faults>>

\* refreshCredential: join the run in flight on this instance, or start one.
RefreshCredential(c) ==
    LET pending == inFlight[Home[c]]
    IN  IF pending # NoOne
        THEN /\ awaiting' = [awaiting EXCEPT ![c] = pending]
             /\ UNCHANGED <<inFlight, phase>>
        ELSE /\ awaiting' = [awaiting EXCEPT ![c] = c]
             /\ inFlight' = [inFlight EXCEPT ![Home[c]] = c]
             /\ phase' = [phase EXCEPT ![c] = "lock"]

\* The token is within a minute of its expiry: renew before the call.
RenewEarly(c) ==
    /\ pc[c] = "ready"
    /\ pc' = [pc EXCEPT ![c] = "renewEarly"]
    /\ RefreshCredential(c)
    /\ UNCHANGED <<row, lock, token, presented, answer, reconnect, providerVars, lost, faults>>

\* The provider answers 401 to the first attempt.
Rejected(c) ==
    /\ pc[c] \in {"ready", "attempt"}
    /\ pc' = [pc EXCEPT ![c] = "renew401"]
    /\ RefreshCredential(c)
    /\ UNCHANGED <<row, lock, token, presented, answer, reconnect, providerVars, lost, faults>>

\* The call goes through; the provider object goes on with the same token.
Succeed(c) ==
    /\ pc[c] \in {"attempt", "replay"}
    /\ pc' = [pc EXCEPT ![c] = "ready"]
    /\ UNCHANGED <<row, lock, inFlight, token, awaiting, runVars, reconnect, providerVars, lost, faults>>

\* The API request ends: all calls made, another error, or a second 401.
Finish(c) ==
    /\ pc[c] \in {"ready", "attempt", "replay"}
    /\ pc' = [pc EXCEPT ![c] = "idle"]
    /\ token' = [token EXCEPT ![c] = NoToken]
    /\ UNCHANGED <<row, lock, inFlight, awaiting, runVars, reconnect, providerVars, lost, faults>>

----------------------------------------------------------------------------
(* Runs: refreshWithLock *)

\* The transaction of `who` ends: commit or rollback, its lock is released.
Unlock(who) == lock' = IF lock = who THEN NoOne ELSE lock

\* The run's promise settles for everybody who awaits it; `t` is the renewed
\* access token, NoToken a failure.  An early renewal that fails is swallowed.
Settle(c, t) ==
    LET awaited == {w \in Callers : awaiting[w] = c}
    IN  /\ phase' = [phase EXCEPT ![c] = "none"]
        /\ presented' = [presented EXCEPT ![c] = NoToken]
        /\ answer' = [answer EXCEPT ![c] = Refused]
        /\ inFlight' = [inFlight EXCEPT ![Home[c]] = NoOne]
        /\ awaiting' = [w \in Callers |-> IF w \in awaited THEN NoOne ELSE awaiting[w]]
        /\ pc' = [w \in Callers |->
                    IF w \notin awaited THEN pc[w]
                    ELSE IF pc[w] = "renewEarly" THEN "attempt"
                    ELSE IF t = NoToken THEN "idle" ELSE "replay"]
        /\ token' = [w \in Callers |->
                       IF w \notin awaited THEN token[w]
                       ELSE IF t # NoToken THEN t
                       ELSE IF pc[w] = "renew401" THEN NoToken ELSE token[w]]

\* Seeded fault: the transaction's end leaves the lock held.
ExpireLeakingLock(c) ==
    /\ phase' = [phase EXCEPT ![c] = "announce"]
    /\ UNCHANGED lock

\* The run fails with TOKEN_EXPIRED: the transaction ends, then the expiry is
\* announced before the promise rejects.
Expire(c) ==
    /\ phase' = [phase EXCEPT ![c] = "announce"]
    /\ Unlock(c)

\* Seeded fault: the run goes ahead without waiting for the lock.
TakeLockWithoutWaiting(c) ==
    /\ phase[c] = "lock"
    /\ lock' = c
    /\ phase' = [phase EXCEPT ![c] = "locked"]
    /\ UNCHANGED <<row, inFlight, callerVars, presented, answer, reconnect, providerVars, lost, faults>>

TakeLock(c) ==
    /\ phase[c] = "lock"
    /\ lock = NoOne
    /\ lock' = c
    /\ phase' = [phase EXCEPT ![c] = "locked"]
    /\ UNCHANGED <<row, inFlight, callerVars, presented, answer, reconnect, providerVars, lost, faults>>

\* The row was deleted, the server has no OAuth app configured, or the
\* transaction timed out: an error that is not announced.
ReadFails(c) ==
    /\ phase[c] = "locked"
    /\ \/ lock # c
       \/ ~row.exists
       \/ row.access = token[c] /\ row.refresh # NoToken
    /\ Unlock(c)
    /\ Settle(c, NoToken)
    /\ UNCHANGED <<row, reconnect, providerVars, lost, faults>>

\* Somebody renewed while this run waited: the stored token is the answer.
ReadRenewed(c) ==
    /\ phase[c] = "locked"
    /\ lock = c
    /\ row.exists
    /\ row.access # token[c]
    /\ Unlock(c)
    /\ Settle(c, row.access)
    /\ UNCHANGED <<row, reconnect, providerVars, lost, faults>>

\* An API key, or a grant without a refresh token, cannot be renewed.
ReadUnrenewable(c) ==
    /\ phase[c] = "locked"
    /\ lock = c
    /\ row.exists
    /\ row.access = token[c]
    /\ row.refresh = NoToken
    /\ Expire(c)
    /\ UNCHANGED <<row, inFlight, callerVars, presented, answer, reconnect, providerVars, lost, faults>>

\* Seeded fault: the row is not compared with the token found expired.
PresentWithoutComparing(c) ==
    /\ phase[c] = "locked"
    /\ lock = c
    /\ row.exists
    /\ row.refresh # NoToken
    /\ phase' = [phase EXCEPT ![c] = "request"]
    /\ presented' = [presented EXCEPT ![c] = row.refresh]
    /\ UNCHANGED <<row, lock, inFlight, callerVars, answer, reconnect, providerVars, lost, faults>>

\* Seeded fault: a request goes out without a refresh token.
PresentUnchecked(c) ==
    /\ phase[c] = "locked"
    /\ lock = c
    /\ row.exists
    /\ row.access = token[c]
    /\ phase' = [phase EXCEPT ![c] = "request"]
    /\ presented' = [presented EXCEPT ![c] = row.refresh]
    /\ UNCHANGED <<row, lock, inFlight, callerVars, answer, reconnect, providerVars, lost, faults>>

\* requestNewTokens sends the stored refresh token.
Present(c) ==
    /\ phase[c] = "locked"
    /\ lock = c
    /\ row.exists
    /\ row.access = token[c]
    /\ row.refresh # NoToken
    /\ phase' = [phase EXCEPT ![c] = "request"]
    /\ presented' = [presented EXCEPT ![c] = row.refresh]
    /\ UNCHANGED <<row, lock, inFlight, callerVars, answer, reconnect, providerVars, lost, faults>>

\* Seeded fault: a rotated refresh token is not written.
SaveAccessOnly(c) ==
    /\ phase[c] = "answered"
    /\ answer[c] # Refused
    /\ lock = c
    /\ row.exists
    /\ row' = [exists  |-> TRUE,
               access  |-> answer[c].access,
               refresh |-> row.refresh]
    /\ Unlock(c)
    /\ Settle(c, answer[c].access)
    /\ UNCHANGED <<reconnect, providerVars, lost, faults>>

\* The tokens are written and the transaction commits.
Save(c) ==
    /\ phase[c] = "answered"
    /\ answer[c] # Refused
    /\ lock = c
    /\ row.exists
    /\ row' = [exists  |-> TRUE,
               access  |-> answer[c].access,
               refresh |-> IF answer[c].refresh # NoToken
                           THEN answer[c].refresh ELSE row.refresh]
    /\ Unlock(c)
    /\ Settle(c, answer[c].access)
    /\ UNCHANGED <<reconnect, providerVars, lost, faults>>

\* Seeded fault: a failed write is logged and the new token handed out.
SaveFailsSilently(c) ==
    /\ phase[c] = "answered"
    /\ answer[c] # Refused
    /\ IF lock = c /\ row.exists THEN Fault ELSE UNCHANGED faults
    /\ Unlock(c)
    /\ Settle(c, answer[c].access)
    /\ lost' = lost \cup {presented[c].grant}
    /\ UNCHANGED <<row, reconnect, providerVars>>

\* The write or the commit fails: database error, row deleted meanwhile, or a
\* transaction that timed out.  The new tokens existed only here.
SaveFails(c) ==
    /\ phase[c] = "answered"
    /\ answer[c] # Refused
    /\ IF lock = c /\ row.exists THEN Fault ELSE UNCHANGED faults
    /\ Unlock(c)
    /\ Settle(c, NoToken)
    /\ lost' = lost \cup {presented[c].grant}
    /\ UNCHANGED <<row, reconnect, providerVars>>

\* A non-OK status from the token endpoint.
RefusalArrives(c) ==
    /\ phase[c] = "answered"
    /\ answer[c] = Refused
    /\ Expire(c)
    /\ UNCHANGED <<row, inFlight, callerVars, presented, answer, reconnect, providerVars, lost, faults>>

\* announceExpiry has queued connection.expired, or failed to; either way the
\* promise then rejects.
Announce(c) ==
    /\ phase[c] = "announce"
    /\ Settle(c, NoToken)
    /\ UNCHANGED <<row, lock, reconnect, providerVars, lost, faults>>

\* The 10 s limit on the token request, or the network, ends it.  A request
\* under way may still reach the provider; an answer under way is dropped.
Abandon(c) ==
    /\ Fault
    /\ \/ phase[c] = "request" /\ UNCHANGED <<stray, lost>>
       \/ /\ phase[c] = "request"
          /\ stray' = stray \cup {<<c, presented[c]>>}
          /\ lost' = lost \cup {presented[c].grant}
       \/ /\ phase[c] = "answered"
          /\ lost' = lost \cup {presented[c].grant}
          /\ UNCHANGED stray
    /\ Unlock(c)
    /\ Settle(c, NoToken)
    /\ UNCHANGED <<row, reconnect, issued, live, revoked>>

\* The transaction's own timeout.  Waiting for the lock it ends the run; past
\* it the lock is released while the token request goes on.
TransactionTimeout(c) ==
    /\ Fault
    /\ \/ /\ phase[c] = "lock"
          /\ Settle(c, NoToken)
          /\ UNCHANGED <<row, lock, reconnect, providerVars, lost>>
       \/ /\ phase[c] \in {"locked", "request", "answered"}
          /\ lock = c
          /\ lock' = NoOne
          /\ lost' = IF phase[c] = "locked" THEN lost ELSE lost \cup {presented[c].grant}
          /\ UNCHANGED <<row, inFlight, callerVars, runVars, reconnect, providerVars>>

----------------------------------------------------------------------------
(* The provider's token endpoint (external) *)

Accepts(t) == t.grant \notin revoked /\ t.serial = live[t.grant]

\* New tokens for refresh token t, with rotation or without.  `a` is the answer.
Renew(t, a) ==
    /\ Accepts(t)
    /\ issued[t.grant] < MaxSerial
    /\ LET fresh == TokenAt(t.grant, issued[t.grant] + 1)
       IN  /\ issued' = [issued EXCEPT ![t.grant] = fresh.serial]
           /\ \/ /\ live' = [live EXCEPT ![t.grant] = fresh.serial]
                 /\ a = [access |-> fresh, refresh |-> fresh]
              \/ /\ a = [access |-> fresh, refresh |-> NoToken]
                 /\ UNCHANGED live
    /\ UNCHANGED revoked

\* A refresh token it does not accept; reuse may revoke the whole grant.
Refuse(t) ==
    /\ ~Accepts(t)
    /\ revoked' \in {revoked, revoked \cup {t.grant}}
    /\ UNCHANGED <<issued, live>>

AnswersTo(t) ==
    {[access |-> TokenAt(t.grant, issued[t.grant] + 1), refresh |-> r] :
        r \in {TokenAt(t.grant, issued[t.grant] + 1), NoToken}}

\* The request of a running renewal reaches the token endpoint.
TokenEndpoint(c) ==
    /\ phase[c] = "request"
    /\ \/ \E a \in AnswersTo(presented[c]) :
            /\ Renew(presented[c], a)
            /\ answer' = [answer EXCEPT ![c] = a]
       \/ /\ Refuse(presented[c])
          /\ answer' = [answer EXCEPT ![c] = Refused]
    /\ phase' = [phase EXCEPT ![c] = "answered"]
    /\ UNCHANGED <<row, lock, inFlight, callerVars, presented, reconnect, stray, lost, faults>>

\* A 5xx: any status that is not OK counts as an expired session.
TokenEndpointDown(c) ==
    /\ phase[c] = "request"
    /\ Expire(c)
    /\ UNCHANGED <<row, inFlight, callerVars, presented, answer, reconnect, providerVars, lost, faults>>

\* A request whose sender gave up or crashed arrives late; nobody reads the answer.
StrayArrives(m) ==
    /\ m \in stray
    /\ stray' = stray \ {m}
    /\ \/ \E a \in AnswersTo(m[2]) : Renew(m[2], a)
       \/ Refuse(m[2])
       \/ UNCHANGED <<issued, live, revoked>>    \* lost on the way
    /\ UNCHANGED <<row, lock, inFlight, callerVars, runVars, reconnect, lost, faults>>

\* The customer removes the app at the provider.
Revoke(g) ==
    /\ Fault
    /\ g \notin revoked
    /\ revoked' = revoked \cup {g}
    /\ lost' = lost \cup {g}
    /\ UNCHANGED <<row, lock, inFlight, callerVars, runVars, reconnect, issued, live, stray>>

----------------------------------------------------------------------------
(* Other writers of the row, and crashes *)

\* The callback exchanged its code (a provider may revoke the older grants) and
\* persistNewCredential found the existing row.
ReconnectBegin(k) ==
    /\ reconnect[k] = "idle"
    /\ row.exists
    /\ reconnect' = [reconnect EXCEPT ![k] = "waiting"]
    /\ \/ UNCHANGED <<revoked, lost>>
       \/ LET older == {FirstGrant} \cup {j \in Reconnects : reconnect[j] # "idle"}
          IN  /\ revoked' = revoked \cup older
              /\ lost' = lost \cup older
    /\ UNCHANGED <<row, lock, inFlight, callerVars, runVars, issued, live, stray, faults>>

\* Seeded fault: the reconnect does not take the lock.
ReconnectWithoutLock(k) ==
    /\ reconnect[k] = "waiting"
    /\ reconnect' = [reconnect EXCEPT ![k] = "locked"]
    /\ UNCHANGED <<row, lock, inFlight, callerVars, runVars, providerVars, lost, faults>>

ReconnectLock(k) ==
    /\ reconnect[k] = "waiting"
    /\ lock = NoOne
    /\ lock' = k
    /\ reconnect' = [reconnect EXCEPT ![k] = "locked"]
    /\ UNCHANGED <<row, inFlight, callerVars, runVars, providerVars, lost, faults>>

ReconnectWrite(k) ==
    /\ reconnect[k] = "locked"
    /\ row.exists
    /\ \E r \in {TokenAt(k, 0), NoToken} :
         row' = [exists |-> TRUE, access |-> TokenAt(k, 0), refresh |-> r]
    /\ Unlock(k)
    /\ reconnect' = [reconnect EXCEPT ![k] = "done"]
    /\ UNCHANGED <<inFlight, callerVars, runVars, providerVars, lost, faults>>

\* The write fails (row deleted, timeout, crash): the row keeps the old grant.
ReconnectFails(k) ==
    /\ reconnect[k] \in {"waiting", "locked"}
    /\ IF row.exists THEN Fault ELSE UNCHANGED faults
    /\ Unlock(k)
    /\ reconnect' = [reconnect EXCEPT ![k] = "done"]
    /\ UNCHANGED <<row, inFlight, callerVars, runVars, providerVars, lost>>

\* The connection is deleted; its credential goes with it, lock or no lock.
Disconnect ==
    /\ Fault
    /\ row.exists
    /\ row' = [row EXCEPT !.exists = FALSE]
    /\ UNCHANGED <<lock, inFlight, callerVars, runVars, reconnect, providerVars, lost>>

\* An instance dies: its map, its callers and its transactions are gone.
Crash(i) ==
    LET here == {c \in Callers : Home[c] = i}
        sent == {c \in here : phase[c] = "request"}
        open == {c \in here : phase[c] \in {"request", "answered"}}
        Reset(f, v) == [c \in Callers |-> IF c \in here THEN v ELSE f[c]]
    IN  /\ Fault
        /\ \E c \in here : pc[c] # "idle"
        /\ inFlight' = [inFlight EXCEPT ![i] = NoOne]
        /\ lock' = IF lock \in here THEN NoOne ELSE lock
        /\ pc' = Reset(pc, "idle")
        /\ token' = Reset(token, NoToken)
        /\ awaiting' = Reset(awaiting, NoOne)
        /\ phase' = Reset(phase, "none")
        /\ presented' = Reset(presented, NoToken)
        /\ answer' = Reset(answer, Refused)
        /\ stray' = stray \cup {<<c, presented[c]>> : c \in sent}
        /\ lost' = lost \cup {presented[c].grant : c \in open}
        /\ UNCHANGED <<row, reconnect, issued, live, revoked>>

----------------------------------------------------------------------------
CallerStep(c) ==
    Begin(c) \/ RenewEarly(c) \/ Rejected(c) \/ Succeed(c) \/ Finish(c)

\* What the run does by itself, given the lock.
RunStep(c) ==
    \/ ReadFails(c) \/ ReadRenewed(c) \/ ReadUnrenewable(c) \/ Present(c)
    \/ Save(c) \/ SaveFails(c) \/ RefusalArrives(c) \/ Announce(c)

\* A token request ends: answered in time, or abandoned at 10 s.
RequestStep(c) == TokenEndpoint(c) \/ TokenEndpointDown(c) \/ Abandon(c)

ReconnectStep(k) == ReconnectLock(k) \/ ReconnectWrite(k) \/ ReconnectFails(k)

Next ==
    \/ \E c \in Callers :
         \/ CallerStep(c) \/ TakeLock(c) \/ RunStep(c)
         \/ RequestStep(c) \/ TransactionTimeout(c)
    \/ \E m \in stray : StrayArrives(m)
    \/ \E g \in Grants : Revoke(g)
    \/ \E k \in Reconnects : ReconnectBegin(k) \/ ReconnectStep(k)
    \/ \E i \in Instances : Crash(i)
    \/ Disconnect

Spec == Init /\ [][Next]_vars

(***************************************************************************)
(* The server runs what it started: a run takes its next step, its token   *)
(* request ends within the 10 s limit, Postgres queues lock waiters in     *)
(* order (hence strong fairness), and a reconnect does not stop half way.  *)
(* Callers, the provider's whims, crashes and deletions are never forced.  *)
(***************************************************************************)
Fairness ==
    /\ \A c \in Callers :
         /\ WF_vars(RunStep(c))
         /\ WF_vars(RequestStep(c))
         /\ SF_vars(TakeLock(c))
    /\ \A k \in Reconnects : WF_vars(ReconnectStep(k))

FairSpec == Spec /\ Fairness

----------------------------------------------------------------------------
(* Properties *)

\* The values the state ranges over: the row lives in one table of Postgres,
\* inFlight and the callers' fields in the memory of the instances.
TypeOK ==
    /\ row \in [exists : BOOLEAN, access : Token, refresh : TokenOrNone]
    /\ lock \in Callers \cup Reconnects \cup {NoOne}
    /\ inFlight \in [Instances -> Callers \cup {NoOne}]
    /\ pc \in [Callers -> PC]
    /\ token \in [Callers -> TokenOrNone]
    /\ awaiting \in [Callers -> Callers \cup {NoOne}]
    /\ phase \in [Callers -> Phase]
    /\ presented \in [Callers -> TokenOrNone]
    /\ \A c \in Callers : phase[c] \in {"request", "answered"} => presented[c] \in Token
    /\ answer \in [Callers -> Answer]
    /\ reconnect \in [Reconnects -> ReconnectPC]
    /\ issued \in [Grants -> Nat]
    /\ live \in [Grants -> Nat]
    /\ revoked \subseteq Grants
    /\ stray \subseteq Callers \X Token
    /\ lost \subseteq Grants
    /\ faults \in Nat

\* The rationale of token-refresh.ts:16-30.  A refresh token under way to the
\* provider is one it still accepts, however many instances and callers found
\* the same access token expired at once.  The exceptions are the grants in
\* `lost`: an answer never saved, or a revocation.
SpentOnce ==
    \A c \in Callers :
        phase[c] = "request" => \/ Accepts(presented[c])
                                \/ presented[c].grant \in lost

\* "a healthy account answers 'please reconnect'" (token-refresh.ts:20-21) does
\* not happen: the provider refuses a renewal only of a grant in `lost`.
HealthyNeverRefused ==
    \A c \in Callers :
        phase[c] = "answered" /\ answer[c] = Refused => presented[c].grant \in lost

\* The stored refresh token is the one the provider accepts, except while the
\* holder of the lock has its successor in hand.
StoreTracksProvider ==
    \/ row.refresh = NoToken
    \/ row.refresh.grant \in lost
    \/ Accepts(row.refresh)
    \/ \E c \in Callers : lock = c /\ phase[c] = "answered" /\ answer[c] # Refused

\* token-refresh.ts:273-278: a refresh in flight when the user reconnects never
\* writes the old grant's tokens over the new ones.  Only a reconnect changes
\* the grant of the row, and it does so holding the lock.
GrantChangedByReconnectOnly ==
    [][row'.access.grant # row.access.grant =>
         \E k \in Reconnects : lock = k /\ row'.access.grant = k]_vars

\* "A waiter that finds the token already renewed uses it" (token-refresh.ts:
\* 28-30): while a transaction holds the lock and a refresh token of the row is
\* under way, the row still holds the access token the run set out to renew.
RenewsStoredToken ==
    \A c \in Callers :
        lock = c /\ phase[c] \in {"request", "answered"} =>
            row.access = token[c] /\ row.refresh = presented[c]

\* No caller is ahead of the store: a token a run hands out (token-refresh.ts:
\* 197) was committed first, so losing the process never loses a token in use.
NoCallerAhead ==
    \A c \in Callers :
        /\ pc[c] # "idle"
        /\ row.exists
        /\ token[c].grant = row.access.grant
        => token[c].serial <= row.access.serial

\* The tokens the lock's holder is renewing.
Basis ==
    IF lock \in Callers /\ phase[lock] \in {"request", "answered"}
    THEN [access |-> token[lock], refresh |-> presented[lock]]
    ELSE [access |-> NoToken, refresh |-> NoToken]

\* The reconnects that have had their one chance to write.
Over == {k \in Reconnects : reconnect[k] = "done"}

Store == INSTANCE CredentialStore WITH holder <- lock, basis <- Basis, over <- Over

\* The rationale of token-refresh.ts:16-30, 262-278 as a whole: map, lock,
\* re-read, time limits and crashes come to a cell written under a lease, where a
\* renewal replaces exactly the tokens it set out from, by later ones, and only
\* a reconnect the grant.
ImplementsStore == Store!Spec

\* Every renewal comes to an end: nobody waits forever on the lock, on the
\* provider, or on a promise whose run is over (token-refresh.ts:95).
RenewalSettles ==
    \A c \in Callers : pc[c] \in Renewing ~> pc[c] \notin Renewing

\* BaseProvider.ts:115-116, "the credential is refreshed once and the exact
\* same call is replayed with the new token": a 401 on one token is never
\* answered with a replay of that same token.
ReplayIsFresh ==
    [][\A c \in Callers :
         pc[c] = "renew401" /\ pc'[c] = "replay" => token'[c] # token[c]]_vars
=============================================================================
