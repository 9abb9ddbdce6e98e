------------------------- MODULE TokenRefreshProofs -------------------------
(***************************************************************************)
(* Proofs about TokenRefresh, for any set of instances, callers and        *)
(* reconnects and any bounds.                                              *)
(***************************************************************************)
EXTENDS TokenRefresh, TLAPS

\* The refresh token the row will hold once the answer of c is saved.
Successor(c) ==
    IF answer[c].refresh # NoToken THEN answer[c].refresh ELSE presented[c]

\* The lock is held by somebody whose transaction is open and past it.
LockHeld ==
    /\ \A c \in Callers : lock = c => phase[c] \in {"locked", "request", "answered"}
    /\ \A k \in Reconnects : (lock = k) <=> (reconnect[k] = "locked")

\* A caller with a run of its own awaits that run, whoever awaits one is
\* renewing, and a caller that is not idle has a token.
RunsAreAwaited ==
    /\ \A c \in Callers : phase[c] # "none" => awaiting[c] = c
    /\ \A c \in Callers : awaiting[c] # NoOne => pc[c] \in Renewing
    /\ \A c \in Callers : pc[c] # "idle" => token[c] \in Token

\* A run past the lock either still holds it, or its grant is lost: its
\* transaction timed out under way.
OpenOrLost ==
    /\ \A c \in Callers :
         phase[c] \in {"request", "answered"} =>
            lock = c \/ presented[c].grant \in lost
    /\ \A m \in stray : m[2].grant \in lost
    /\ revoked \subseteq lost

\* The row's two tokens are of one grant, and a grant not yet written by its
\* reconnect is untouched at the provider.
RowGrant ==
    /\ row.refresh # NoToken => row.refresh.grant = row.access.grant
    /\ \A k \in Reconnects :
         reconnect[k] # "done" =>
            /\ row.access.grant # k
            /\ live[k] = 0 \/ k \in lost

\* The answer in hand of a run continues the grant it presented, and unless
\* that grant is lost, saving it stores the refresh token the provider accepts.
AnswerContinues ==
    \A c \in Callers :
        phase[c] = "answered" /\ answer[c] # Refused =>
            /\ answer[c].access.grant = presented[c].grant
            /\ Successor(c).grant = presented[c].grant
            /\ Successor(c).serial = live[presented[c].grant] \/ presented[c].grant \in lost

\* The row's refresh token is live, unless the holder of the lock has its
\* successor, or the grant is lost.
RowLive ==
    \/ row.refresh = NoToken
    \/ row.refresh.grant \in lost
    \/ row.refresh.serial = live[row.refresh.grant]
    \/ \E c \in Callers : lock = c /\ phase[c] = "answered" /\ answer[c] # Refused

IInv ==
    /\ TypeOK
    /\ LockHeld
    /\ RunsAreAwaited
    /\ OpenOrLost
    /\ RowGrant
    /\ AnswerContinues
    /\ RowLive
    /\ SpentOnce
    /\ HealthyNeverRefused
    /\ RenewsStoredToken

----------------------------------------------------------------------------
(* Type correctness *)

LEMMA TokenFacts ==
    /\ \A g \in Grants, n \in Nat :
         TokenAt(g, n) \in Token /\ TokenAt(g, n).grant = g /\ TokenAt(g, n).serial = n
    /\ NoToken \notin Token
    /\ \A t \in Token : t.grant \in Grants /\ t.serial \in Nat
    /\ Token \subseteq TokenOrNone /\ NoToken \in TokenOrNone
    /\ \A t \in TokenOrNone : t # NoToken => t \in Token
  BY ConstantsAssumption DEF Token, TokenAt, TokenOrNone

LEMMA AnswerFacts ==
    /\ Refused \in Answer
    /\ \A a \in Answer :
         a # Refused => a.access \in Token /\ a.refresh \in TokenOrNone
    /\ \A t \in Token, r \in TokenOrNone :
         /\ [access |-> t, refresh |-> r] \in Answer
         /\ [access |-> t, refresh |-> r] # Refused
  BY TokenFacts DEF Answer, Refused

LEMMA TypeInit == Init => TypeOK
  BY ConstantsAssumption, TokenFacts, AnswerFacts
  DEF Init, TypeOK, PC, Phase, ReconnectPC, Grants

\* The variables a settling run writes keep their types.
LEMMA SettleType ==
    ASSUME TypeOK, NEW c \in Callers, NEW t \in TokenOrNone, Settle(c, t)
    PROVE  /\ phase' \in [Callers -> Phase]
           /\ presented' \in [Callers -> TokenOrNone]
           /\ \A d \in Callers : phase'[d] \in {"request", "answered"} => presented'[d] \in Token
           /\ answer' \in [Callers -> Answer]
           /\ inFlight' \in [Instances -> Callers \cup {NoOne}]
           /\ awaiting' \in [Callers -> Callers \cup {NoOne}]
           /\ pc' \in [Callers -> PC]
           /\ token' \in [Callers -> TokenOrNone]
  BY ZenonT(40), ConstantsAssumption, TokenFacts, AnswerFacts DEF TypeOK, Settle, PC, Phase

LEMMA UnlockType ==
    ASSUME TypeOK, NEW who, Unlock(who)
    PROVE  lock' \in Callers \cup Reconnects \cup {NoOne}
  BY DEF TypeOK, Unlock

LEMMA RefreshCredentialType ==
    ASSUME TypeOK, NEW c \in Callers, RefreshCredential(c), UNCHANGED presented
    PROVE  /\ phase' \in [Callers -> Phase]
           /\ \A d \in Callers : phase'[d] \in {"request", "answered"} => presented'[d] \in Token
           /\ inFlight' \in [Instances -> Callers \cup {NoOne}]
           /\ awaiting' \in [Callers -> Callers \cup {NoOne}]
  BY ConstantsAssumption DEF TypeOK, RefreshCredential, Phase

\* What the provider may do with a token of ours.
LEMMA ProviderType ==
    ASSUME TypeOK, NEW t \in Token
    PROVE  /\ \A a \in AnswersTo(t) :
                /\ a \in Answer /\ a # Refused
                /\ Renew(t, a) => /\ issued' \in [Grants -> Nat]
                                  /\ live' \in [Grants -> Nat]
                                  /\ revoked' \subseteq Grants
           /\ Refuse(t) => /\ issued' \in [Grants -> Nat]
                           /\ live' \in [Grants -> Nat]
                           /\ revoked' \subseteq Grants
  <1>1. t.grant \in Grants /\ issued[t.grant] + 1 \in Nat
    BY TokenFacts DEF TypeOK
  <1>2. /\ TokenAt(t.grant, issued[t.grant] + 1) \in Token
        /\ TokenAt(t.grant, issued[t.grant] + 1).serial = issued[t.grant] + 1
    BY <1>1, TokenFacts
  <1>3. \A a \in AnswersTo(t) : a \in Answer /\ a # Refused
    BY <1>2, TokenFacts, AnswerFacts DEF AnswersTo
  <1>4. ASSUME NEW a \in AnswersTo(t), Renew(t, a)
        PROVE  issued' \in [Grants -> Nat] /\ live' \in [Grants -> Nat] /\ revoked' \subseteq Grants
    BY <1>1, <1>2, <1>4 DEF Renew, TypeOK
  <1>5. Refuse(t) => issued' \in [Grants -> Nat] /\ live' \in [Grants -> Nat] /\ revoked' \subseteq Grants
    BY <1>1 DEF Refuse, TypeOK
  <1> QED
    BY <1>3, <1>4, <1>5

LEMMA TypeNext == TypeOK /\ [Next]_vars => TypeOK'
  <1> SUFFICES ASSUME TypeOK, [Next]_vars PROVE TypeOK'
    OBVIOUS
  <1> USE ConstantsAssumption, TokenFacts, AnswerFacts
  <1>1. ASSUME NEW c \in Callers, Begin(c) PROVE TypeOK'
    BY <1>1 DEF Begin, TypeOK, PC, callerVars, runVars, providerVars
  <1>2. ASSUME NEW c \in Callers, RenewEarly(c) PROVE TypeOK'
    BY <1>2, RefreshCredentialType DEF RenewEarly, TypeOK, PC, Renewing, callerVars, runVars, providerVars
  <1>3. ASSUME NEW c \in Callers, Rejected(c) PROVE TypeOK'
    BY <1>3, RefreshCredentialType DEF Rejected, TypeOK, PC, Renewing, callerVars, runVars, providerVars
  <1>4. ASSUME NEW c \in Callers, Succeed(c) PROVE TypeOK'
    BY <1>4 DEF Succeed, TypeOK, PC, callerVars, runVars, providerVars
  <1>5. ASSUME NEW c \in Callers, Finish(c) PROVE TypeOK'
    BY <1>5 DEF Finish, TypeOK, PC, callerVars, runVars, providerVars
  <1>6. ASSUME NEW c \in Callers, TakeLock(c) PROVE TypeOK'
    BY <1>6 DEF TakeLock, TypeOK, Phase, callerVars, runVars, providerVars
  <1>7. ASSUME NEW c \in Callers, ReadFails(c) PROVE TypeOK'
    BY <1>7, SettleType, UnlockType DEF ReadFails, TypeOK, callerVars, runVars, providerVars
  <1>8. ASSUME NEW c \in Callers, ReadRenewed(c) PROVE TypeOK'
    BY <1>8, SettleType, UnlockType DEF ReadRenewed, TypeOK, callerVars, runVars, providerVars
  <1>9. ASSUME NEW c \in Callers, ReadUnrenewable(c) PROVE TypeOK'
    BY <1>9, UnlockType DEF ReadUnrenewable, Expire, TypeOK, Phase, callerVars, runVars, providerVars
  <1>10. ASSUME NEW c \in Callers, Present(c) PROVE TypeOK'
    BY <1>10 DEF Present, TypeOK, Phase, callerVars, runVars, providerVars
  <1>11. ASSUME NEW c \in Callers, Save(c) PROVE TypeOK'
    <2>1. answer[c].access \in Token /\ answer[c].refresh \in TokenOrNone
      BY <1>11 DEF Save, TypeOK
    <2>2. row' \in [exists : BOOLEAN, access : Token, refresh : TokenOrNone]
      BY <1>11, <2>1 DEF Save, TypeOK
    <2>3. Settle(c, answer[c].access) /\ answer[c].access \in TokenOrNone /\ Unlock(c)
      BY <1>11, <2>1 DEF Save
    <2> QED
      BY <1>11, <2>2, <2>3, SettleType, UnlockType DEF Save, TypeOK, providerVars
  <1>12. ASSUME NEW c \in Callers, SaveFails(c) PROVE TypeOK'
    <2>1. presented[c].grant \in Grants
      BY <1>12 DEF SaveFails, TypeOK
    <2>2. faults' \in Nat
      BY <1>12 DEF SaveFails, TypeOK, Fault
    <2>3. Settle(c, NoToken) /\ Unlock(c)
      BY <1>12 DEF SaveFails
    <2> QED
      BY <1>12, <2>1, <2>2, <2>3, SettleType, UnlockType DEF SaveFails, TypeOK, providerVars
  <1>13. ASSUME NEW c \in Callers, RefusalArrives(c) PROVE TypeOK'
    BY <1>13, UnlockType DEF RefusalArrives, Expire, TypeOK, Phase, callerVars, runVars, providerVars
  <1>14. ASSUME NEW c \in Callers, Announce(c) PROVE TypeOK'
    BY <1>14, SettleType DEF Announce, TypeOK, callerVars, runVars, providerVars
  <1>15. ASSUME NEW c \in Callers, Abandon(c) PROVE TypeOK'
    <2>1. presented[c] \in Token /\ presented[c].grant \in Grants
      BY <1>15 DEF Abandon, TypeOK
    <2>2. faults' \in Nat
      BY <1>15 DEF Abandon, TypeOK, Fault
    <2>3. stray' \subseteq Callers \X Token /\ lost' \subseteq Grants
      BY <1>15, <2>1 DEF Abandon, TypeOK
    <2>4. Settle(c, NoToken) /\ Unlock(c)
      BY <1>15 DEF Abandon
    <2> QED
      BY <1>15, <2>2, <2>3, <2>4, SettleType, UnlockType DEF Abandon, TypeOK
  <1>16. ASSUME NEW c \in Callers, TransactionTimeout(c) PROVE TypeOK'
    <2>1. faults' \in Nat
      BY <1>16 DEF TransactionTimeout, TypeOK, Fault
    <2>2. CASE phase[c] = "lock"
      BY <1>16, <2>1, <2>2, SettleType DEF TransactionTimeout, TypeOK, providerVars
    <2>3. CASE phase[c] # "lock"
      <3>1. lost' \subseteq Grants /\ lock' \in Callers \cup Reconnects \cup {NoOne}
        BY <1>16, <2>3 DEF TransactionTimeout, TypeOK
      <3> QED
        BY <1>16, <2>1, <2>3, <3>1 DEF TransactionTimeout, TypeOK, callerVars, runVars, providerVars
    <2> QED
      BY <2>2, <2>3
  <1>17. ASSUME NEW c \in Callers, TokenEndpoint(c) PROVE TypeOK'
    <2>1. presented[c] \in Token
      BY <1>17 DEF TokenEndpoint, TypeOK
    <2>2. /\ issued' \in [Grants -> Nat] /\ live' \in [Grants -> Nat] /\ revoked' \subseteq Grants
          /\ answer' \in [Callers -> Answer]
      <3>1. CASE \E a \in AnswersTo(presented[c]) :
                   Renew(presented[c], a) /\ answer' = [answer EXCEPT ![c] = a]
        BY <2>1, <3>1, ProviderType DEF TypeOK
      <3>2. CASE Refuse(presented[c]) /\ answer' = [answer EXCEPT ![c] = Refused]
        BY <2>1, <3>2, ProviderType DEF TypeOK
      <3> QED
        BY <1>17, <3>1, <3>2 DEF TokenEndpoint
    <2>3. phase' \in [Callers -> Phase]
      BY <1>17 DEF TokenEndpoint, TypeOK, Phase
    <2>4. \A d \in Callers : phase'[d] \in {"request", "answered"} => presented'[d] \in Token
      BY <1>17, <2>1 DEF TokenEndpoint, TypeOK
    <2> QED
      BY <1>17, <2>2, <2>3, <2>4 DEF TokenEndpoint, TypeOK, callerVars
  <1>18. ASSUME NEW c \in Callers, TokenEndpointDown(c) PROVE TypeOK'
    BY <1>18, UnlockType DEF TokenEndpointDown, Expire, TypeOK, Phase, callerVars, runVars, providerVars
  <1>19. ASSUME NEW m \in stray, StrayArrives(m) PROVE TypeOK'
    BY <1>19, ProviderType DEF StrayArrives, TypeOK, callerVars, runVars
  <1>20. ASSUME NEW k \in Reconnects, ReconnectBegin(k) PROVE TypeOK'
    BY <1>20, UnlockType DEF ReconnectBegin, Grants, TypeOK, ReconnectPC, Fault, callerVars, runVars, providerVars
  <1>21. ASSUME NEW k \in Reconnects, ReconnectLock(k) PROVE TypeOK'
    BY <1>21, UnlockType DEF ReconnectLock, Grants, TypeOK, ReconnectPC, Fault, callerVars, runVars, providerVars
  <1>22. ASSUME NEW k \in Reconnects, ReconnectWrite(k) PROVE TypeOK'
    BY <1>22, UnlockType DEF ReconnectWrite, Grants, TypeOK, ReconnectPC, Fault, callerVars, runVars, providerVars
  <1>23. ASSUME NEW k \in Reconnects, ReconnectFails(k) PROVE TypeOK'
    BY <1>23, UnlockType DEF ReconnectFails, Grants, TypeOK, ReconnectPC, Fault, callerVars, runVars, providerVars
  <1>24. ASSUME NEW g \in Grants, Revoke(g) PROVE TypeOK'
    BY <1>24 DEF Revoke, TypeOK, Fault, callerVars, runVars
  <1>25. ASSUME NEW i \in Instances, Crash(i) PROVE TypeOK'
    <2>1. \A c \in Callers : phase[c] \in {"request", "answered"} => presented[c].grant \in Grants
      BY DEF TypeOK
    <2>2. lost' \subseteq Grants /\ faults' \in Nat
      BY <1>25, <2>1 DEF Crash, Fault, TypeOK
    <2>3. stray' \subseteq Callers \X Token
      BY <1>25 DEF Crash, TypeOK
    <2>4. pc' \in [Callers -> PC] /\ phase' \in [Callers -> Phase]
      BY <1>25 DEF Crash, TypeOK, PC, Phase
    <2>5. presented' \in [Callers -> TokenOrNone] /\ token' \in [Callers -> TokenOrNone]
      BY <1>25 DEF Crash, TypeOK
    <2>6. \A d \in Callers : phase'[d] \in {"request", "answered"} => presented'[d] \in Token
      BY <1>25 DEF Crash, TypeOK
    <2>7. answer' \in [Callers -> Answer] /\ awaiting' \in [Callers -> Callers \cup {NoOne}]
      BY <1>25 DEF Crash, TypeOK
    <2> QED
      BY <1>25, <2>2, <2>3, <2>4, <2>5, <2>6, <2>7 DEF Crash, TypeOK
  <1>26. CASE Disconnect
    <2>1. row' \in [exists : BOOLEAN, access : Token, refresh : TokenOrNone]
      BY <1>26 DEF Disconnect, TypeOK
    <2> QED
      BY <1>26, <2>1 DEF Disconnect, TypeOK, Fault, callerVars, runVars, providerVars
  <1>27. CASE UNCHANGED vars
    BY <1>27 DEF vars, TypeOK, callerVars, runVars, providerVars
  <1> QED
    BY <1>1, <1>2, <1>3, <1>4, <1>5, <1>6, <1>7, <1>8, <1>9, <1>10, <1>11, <1>12, <1>13, <1>14, <1>15, <1>16, <1>17, <1>18, <1>19, <1>20, <1>21, <1>22, <1>23, <1>24, <1>25, <1>26, <1>27
    DEF Next, CallerStep, RunStep, RequestStep, ReconnectStep

\* Every reachable state has the types the code declares.
THEOREM TypeCorrect == Spec => []TypeOK
  BY TypeInit, TypeNext, PTL DEF Spec

----------------------------------------------------------------------------
(* The inductive invariant *)

LEMMA InvInit == Init => IInv
  <1> SUFFICES ASSUME Init PROVE IInv
    OBVIOUS
  <1>1. TypeOK
    BY TypeInit
  <1>2. LockHeld
    BY ConstantsAssumption DEF Init, LockHeld
  <1>3. RunsAreAwaited /\ OpenOrLost /\ AnswerContinues
    BY DEF Init, RunsAreAwaited, OpenOrLost, AnswerContinues
  <1>4. RowGrant /\ RowLive
    BY ConstantsAssumption, TokenFacts DEF Init, RowGrant, RowLive, Grants
  <1>5. SpentOnce /\ HealthyNeverRefused /\ RenewsStoredToken
    BY DEF Init, SpentOnce, HealthyNeverRefused, RenewsStoredToken
  <1> QED
    BY <1>1, <1>2, <1>3, <1>4, <1>5 DEF IInv

\* The run of d goes on as it was.
Carried(d) ==
    /\ phase'[d] = phase[d]
    /\ presented'[d] = presented[d]
    /\ answer'[d] = answer[d]
    /\ token'[d] = token[d]

\* A settling run leaves the other runs alone, and their stale tokens too: a
\* caller whose run is under way awaits its own run and no other.
LEMMA SettleFrame ==
    ASSUME TypeOK, RunsAreAwaited, NEW c \in Callers, NEW t \in TokenOrNone,
           phase[c] # "none", Settle(c, t)
    PROVE  /\ phase'[c] = "none"
           /\ \A d \in Callers \ {c} : phase'[d] = phase[d]
           /\ \A d \in Callers \ {c} : phase[d] # "none" => Carried(d)
           /\ RunsAreAwaited'
  <1> USE ConstantsAssumption, TokenFacts DEF TypeOK, RunsAreAwaited
  <1>1. phase'[c] = "none" /\ \A d \in Callers \ {c} : phase'[d] = phase[d]
    BY DEF Settle
  <1>2. ASSUME NEW d \in Callers \ {c}, phase[d] # "none" PROVE Carried(d)
    <2>1. awaiting[d] # c
      BY <1>2
    <2> QED
      BY <2>1 DEF Settle, Carried
  <1>3. ASSUME NEW d \in Callers, phase'[d] # "none" PROVE awaiting'[d] = d
    <2>1. d # c /\ awaiting[d] = d
      BY <1>1, <1>3
    <2> QED
      BY <2>1 DEF Settle
  <1>4. ASSUME NEW d \in Callers, awaiting'[d] # NoOne PROVE pc'[d] \in Renewing
    <2>1. awaiting[d] # c /\ awaiting[d] # NoOne
      BY <1>4 DEF Settle
    <2> QED
      BY <2>1 DEF Settle
  <1>5. ASSUME NEW d \in Callers, pc'[d] # "idle" PROVE token'[d] \in Token
    <2>1. CASE awaiting[d] # c
      BY <1>5, <2>1 DEF Settle
    <2>2. CASE awaiting[d] = c
      <3>1. pc[d] \in Renewing /\ token[d] \in Token
        BY <2>2 DEF Renewing
      <3> QED
        BY <1>5, <2>2, <3>1 DEF Settle, Renewing
    <2> QED
      BY <2>1, <2>2
  <1> QED
    BY <1>1, <1>2, <1>3, <1>4, <1>5

(***************************************************************************)
(* Most steps touch neither the row's tokens nor the provider: they start, *)
(* end or stall a run.  All the invariant asks of them is that a run which *)
(* goes on goes on unchanged, and that one which stops with a refresh      *)
(* token spent, or loses its lock doing so, is recorded in `lost`.         *)
(***************************************************************************)
QuietStep ==
    /\ row'.access = row.access /\ row'.refresh = row.refresh
    /\ UNCHANGED live
    /\ lost \subseteq lost' /\ revoked' \subseteq lost'
    /\ \A m \in stray' : m[2].grant \in lost'
    /\ \A k \in Reconnects : reconnect[k] = "done" => reconnect'[k] = "done"
    /\ \A d \in Callers :
         /\ phase'[d] \in {"request", "answered"} =>
              Carried(d) /\ (lock = d => lock' = d \/ presented[d].grant \in lost')
         /\ lock' = d => lock = d \/ phase'[d] = "locked"
         /\ lock = d /\ phase[d] = "answered" /\ answer[d] # Refused =>
              (lock' = d /\ Carried(d)) \/ presented[d].grant \in lost'

LEMMA QuietStepInv ==
    ASSUME IInv, TypeOK', LockHeld', RunsAreAwaited', QuietStep
    PROVE  IInv'
  <1> USE DEF IInv, QuietStep, Carried
  <1>1. OpenOrLost'
    BY DEF OpenOrLost
  <1>2. RowGrant'
    BY DEF RowGrant
  <1>3. AnswerContinues'
    BY DEF AnswerContinues, Successor
  <1>4. RowLive'
    BY DEF RowLive, RenewsStoredToken
  <1>5. SpentOnce'
    BY DEF SpentOnce, Accepts
  <1>6. HealthyNeverRefused'
    BY DEF HealthyNeverRefused
  <1>7. RenewsStoredToken'
    BY DEF RenewsStoredToken
  <1> QED
    BY <1>1, <1>2, <1>3, <1>4, <1>5, <1>6, <1>7

LEMMA UnlockFrame ==
    ASSUME TypeOK, NEW c \in Callers \cup Reconnects, Unlock(c)
    PROVE  \A x \in Callers \cup Reconnects : lock' = x <=> lock = x /\ x # c
  BY ConstantsAssumption DEF Unlock, TypeOK

\* A run that settles with nothing saved, its spent token, if any, recorded.
LEMMA EndedRun ==
    ASSUME IInv, NEW c \in Callers, NEW t \in TokenOrNone,
           phase[c] # "none", Settle(c, t), Unlock(c),
           UNCHANGED <<row, reconnect, live, revoked>>, lost \subseteq lost',
           \A m \in stray' : m[2].grant \in lost',
           phase[c] = "answered" /\ answer[c] # Refused => presented[c].grant \in lost'
    PROVE  LockHeld' /\ RunsAreAwaited' /\ QuietStep
  <1> USE DEF IInv
  <1>1. RunsAreAwaited'
    BY SettleFrame
  <1>2. \A x \in Callers \cup Reconnects : lock' = x <=> lock = x /\ x # c
    BY UnlockFrame
  <1>3. ASSUME NEW d \in Callers
        PROVE  /\ d # c => phase'[d] = phase[d] /\ (phase[d] # "none" => Carried(d))
               /\ d = c => phase'[d] = "none"
    BY SettleFrame
  <1>4. LockHeld'
    BY <1>2, <1>3, ConstantsAssumption DEF LockHeld
  <1>5. QuietStep
    BY <1>2, <1>3 DEF QuietStep, OpenOrLost
  <1> QED
    BY <1>1, <1>4, <1>5

\* Quiet steps, action by action.
LEMMA QuietActions ==
    ASSUME IInv, TypeOK',
           \/ \E c \in Callers :
                \/ CallerStep(c) \/ TakeLock(c) \/ TransactionTimeout(c)
                \/ ReadFails(c) \/ ReadRenewed(c) \/ ReadUnrenewable(c)
                \/ SaveFails(c) \/ RefusalArrives(c) \/ Announce(c)
                \/ TokenEndpointDown(c) \/ Abandon(c)
           \/ \E g \in Grants : Revoke(g)
           \/ \E k \in Reconnects : ReconnectBegin(k) \/ ReconnectLock(k) \/ ReconnectFails(k)
           \/ \E i \in Instances : Crash(i)
           \/ Disconnect
           \/ UNCHANGED vars
    PROVE  LockHeld' /\ RunsAreAwaited' /\ QuietStep
  <1> USE ConstantsAssumption, TokenFacts DEF IInv
  <1>1. ASSUME NEW c \in Callers, Begin(c) PROVE LockHeld' /\ RunsAreAwaited' /\ QuietStep
    <2>1. phase[c] = "none"
      BY <1>1 DEF Begin, RunsAreAwaited, Renewing
    <2>2. RunsAreAwaited' /\ LockHeld'
      BY <1>1 DEF Begin, RunsAreAwaited, LockHeld, TypeOK, Renewing, runVars
    <2>3. QuietStep
      BY <1>1, <2>1 DEF Begin, QuietStep, Carried, OpenOrLost, TypeOK, runVars, providerVars
    <2> QED
      BY <2>1, <2>2, <2>3
  <1>2. ASSUME NEW c \in Callers, RenewEarly(c) PROVE LockHeld' /\ RunsAreAwaited' /\ QuietStep
    <2>1. phase[c] = "none"
      BY <1>2 DEF RenewEarly, RunsAreAwaited, Renewing
    <2>2. \A d \in Callers : Carried(d) \/ (d = c /\ phase'[c] = "lock")
      BY <1>2, <2>1 DEF RenewEarly, Carried, RefreshCredential, TypeOK
    <2>3. \A d \in Callers \ {c} : pc'[d] = pc[d] /\ awaiting'[d] = awaiting[d]
      BY <1>2 DEF RenewEarly, RefreshCredential, TypeOK
    <2>4. pc'[c] \in Renewing /\ token' = token
      BY <1>2 DEF RenewEarly, TypeOK, Renewing
    <2>5. phase'[c] # "none" => awaiting'[c] = c
      BY <1>2, <2>1 DEF RenewEarly, RefreshCredential, TypeOK
    <2>6. RunsAreAwaited'
      BY <1>2, <2>1, <2>2, <2>3, <2>4, <2>5 DEF RenewEarly, RunsAreAwaited, Carried, Renewing
    <2>7. LockHeld' /\ QuietStep
      BY <1>2, <2>1, <2>2 DEF RenewEarly, LockHeld, QuietStep, OpenOrLost, Carried, providerVars
    <2> QED
      BY <2>1, <2>2, <2>3, <2>4, <2>5, <2>6, <2>7
  <1>3. ASSUME NEW c \in Callers, Rejected(c) PROVE LockHeld' /\ RunsAreAwaited' /\ QuietStep
    <2>1. phase[c] = "none"
      BY <1>3 DEF Rejected, RunsAreAwaited, Renewing
    <2>2. \A d \in Callers : Carried(d) \/ (d = c /\ phase'[c] = "lock")
      BY <1>3, <2>1 DEF Rejected, Carried, RefreshCredential, TypeOK
    <2>3. \A d \in Callers \ {c} : pc'[d] = pc[d] /\ awaiting'[d] = awaiting[d]
      BY <1>3 DEF Rejected, RefreshCredential, TypeOK
    <2>4. pc'[c] \in Renewing /\ token' = token
      BY <1>3 DEF Rejected, TypeOK, Renewing
    <2>5. phase'[c] # "none" => awaiting'[c] = c
      BY <1>3, <2>1 DEF Rejected, RefreshCredential, TypeOK
    <2>6. RunsAreAwaited'
      BY <1>3, <2>1, <2>2, <2>3, <2>4, <2>5 DEF Rejected, RunsAreAwaited, Carried, Renewing
    <2>7. LockHeld' /\ QuietStep
      BY <1>3, <2>1, <2>2 DEF Rejected, LockHeld, QuietStep, OpenOrLost, Carried, providerVars
    <2> QED
      BY <2>1, <2>2, <2>3, <2>4, <2>5, <2>6, <2>7
  <1>4. ASSUME NEW c \in Callers, Succeed(c) PROVE LockHeld' /\ RunsAreAwaited' /\ QuietStep
    <2>1. RunsAreAwaited'
      BY <1>4 DEF Succeed, RunsAreAwaited, TypeOK, Expire, Renewing, callerVars, runVars, providerVars
    <2>2. LockHeld'
      BY <1>4 DEF Succeed, LockHeld, Unlock, Expire, TypeOK, callerVars, runVars, providerVars
    <2>3. QuietStep
      BY <1>4 DEF Succeed, QuietStep, Carried, Unlock, LockHeld, OpenOrLost, RenewsStoredToken, TypeOK, Expire, callerVars, runVars, providerVars
    <2> QED
      BY <2>1, <2>2, <2>3
  <1>5. ASSUME NEW c \in Callers, Finish(c) PROVE LockHeld' /\ RunsAreAwaited' /\ QuietStep
    <2>1. phase[c] = "none"
      BY <1>5 DEF Finish, RunsAreAwaited, Renewing
    <2>2. RunsAreAwaited' /\ LockHeld'
      BY <1>5 DEF Finish, RunsAreAwaited, LockHeld, TypeOK, Renewing, runVars
    <2>3. QuietStep
      BY <1>5, <2>1 DEF Finish, QuietStep, Carried, OpenOrLost, TypeOK, runVars, providerVars
    <2> QED
      BY <2>1, <2>2, <2>3
  <1>6. ASSUME NEW c \in Callers, TakeLock(c) PROVE LockHeld' /\ RunsAreAwaited' /\ QuietStep
    <2>1. RunsAreAwaited'
      BY <1>6 DEF TakeLock, RunsAreAwaited, TypeOK, Expire, Renewing, callerVars, runVars, providerVars
    <2>2. LockHeld'
      BY <1>6 DEF TakeLock, LockHeld, Unlock, Expire, TypeOK, callerVars, runVars, providerVars
    <2>3. QuietStep
      BY <1>6 DEF TakeLock, QuietStep, Carried, Unlock, LockHeld, OpenOrLost, RenewsStoredToken, TypeOK, Expire, callerVars, runVars, providerVars
    <2> QED
      BY <2>1, <2>2, <2>3
  <1>7. ASSUME NEW c \in Callers, ReadUnrenewable(c) PROVE LockHeld' /\ RunsAreAwaited' /\ QuietStep
    <2>1. RunsAreAwaited'
      BY <1>7 DEF ReadUnrenewable, RunsAreAwaited, TypeOK, Expire, Renewing, callerVars, runVars, providerVars
    <2>2. LockHeld'
      BY <1>7 DEF ReadUnrenewable, LockHeld, Unlock, Expire, TypeOK, callerVars, runVars, providerVars
    <2>3. QuietStep
      BY <1>7 DEF ReadUnrenewable, QuietStep, Carried, Unlock, LockHeld, OpenOrLost, RenewsStoredToken, TypeOK, Expire, callerVars, runVars, providerVars
    <2> QED
      BY <2>1, <2>2, <2>3
  <1>8. ASSUME NEW c \in Callers, RefusalArrives(c) PROVE LockHeld' /\ RunsAreAwaited' /\ QuietStep
    <2>1. RunsAreAwaited'
      BY <1>8 DEF RefusalArrives, RunsAreAwaited, TypeOK, Expire, Renewing, callerVars, runVars, providerVars
    <2>2. LockHeld'
      BY <1>8 DEF RefusalArrives, LockHeld, Unlock, Expire, TypeOK, callerVars, runVars, providerVars
    <2>3. QuietStep
      BY <1>8 DEF RefusalArrives, QuietStep, Carried, Unlock, LockHeld, OpenOrLost, RenewsStoredToken, TypeOK, Expire, callerVars, runVars, providerVars
    <2> QED
      BY <2>1, <2>2, <2>3
  <1>9. ASSUME NEW c \in Callers, TokenEndpointDown(c) PROVE LockHeld' /\ RunsAreAwaited' /\ QuietStep
    <2>1. RunsAreAwaited'
      BY <1>9 DEF TokenEndpointDown, RunsAreAwaited, TypeOK, Expire, Renewing, callerVars, runVars, providerVars
    <2>2. LockHeld'
      BY <1>9 DEF TokenEndpointDown, LockHeld, Unlock, Expire, TypeOK, callerVars, runVars, providerVars
    <2>3. QuietStep
      BY <1>9 DEF TokenEndpointDown, QuietStep, Carried, Unlock, LockHeld, OpenOrLost, RenewsStoredToken, TypeOK, Expire, callerVars, runVars, providerVars
    <2> QED
      BY <2>1, <2>2, <2>3
  <1>10. ASSUME NEW c \in Callers, ReadFails(c) PROVE LockHeld' /\ RunsAreAwaited' /\ QuietStep
    <2>1. Settle(c, NoToken) /\ Unlock(c) /\ phase[c] # "none" /\ NoToken \in TokenOrNone
      BY <1>10 DEF ReadFails, Unlock, LockHeld, TypeOK
    <2>2. /\ UNCHANGED <<row, reconnect, live, revoked>> /\ lost \subseteq lost'
          /\ \A m \in stray' : m[2].grant \in lost'
          /\ phase[c] = "answered" /\ answer[c] # Refused => presented[c].grant \in lost'
      BY <1>10 DEF ReadFails, OpenOrLost, providerVars
    <2>3. LockHeld' /\ RunsAreAwaited' /\ QuietStep
      BY <1>10, <2>1, <2>2, EndedRun
    <2> QED
      BY <2>1, <2>2, <2>3
  <1>11. ASSUME NEW c \in Callers, ReadRenewed(c) PROVE LockHeld' /\ RunsAreAwaited' /\ QuietStep
    <2>1. Settle(c, row.access) /\ Unlock(c) /\ phase[c] # "none" /\ row.access \in TokenOrNone
      BY <1>11 DEF ReadRenewed, Unlock, LockHeld, TypeOK
    <2>2. /\ UNCHANGED <<row, reconnect, live, revoked>> /\ lost \subseteq lost'
          /\ \A m \in stray' : m[2].grant \in lost'
          /\ phase[c] = "answered" /\ answer[c] # Refused => presented[c].grant \in lost'
      BY <1>11 DEF ReadRenewed, OpenOrLost, providerVars
    <2>3. LockHeld' /\ RunsAreAwaited' /\ QuietStep
      BY <1>11, <2>1, <2>2, EndedRun
    <2> QED
      BY <2>1, <2>2, <2>3
  <1>12. ASSUME NEW c \in Callers, SaveFails(c) PROVE LockHeld' /\ RunsAreAwaited' /\ QuietStep
    <2>1. Settle(c, NoToken) /\ Unlock(c) /\ phase[c] # "none" /\ NoToken \in TokenOrNone
      BY <1>12 DEF SaveFails, Unlock, LockHeld, TypeOK
    <2>2. /\ UNCHANGED <<row, reconnect, live, revoked>> /\ lost \subseteq lost'
          /\ \A m \in stray' : m[2].grant \in lost'
          /\ phase[c] = "answered" /\ answer[c] # Refused => presented[c].grant \in lost'
      BY <1>12 DEF SaveFails, OpenOrLost, providerVars
    <2>3. LockHeld' /\ RunsAreAwaited' /\ QuietStep
      BY <1>12, <2>1, <2>2, EndedRun
    <2> QED
      BY <2>1, <2>2, <2>3
  <1>13. ASSUME NEW c \in Callers, Announce(c) PROVE LockHeld' /\ RunsAreAwaited' /\ QuietStep
    <2>1. Settle(c, NoToken) /\ Unlock(c) /\ phase[c] # "none" /\ NoToken \in TokenOrNone
      BY <1>13 DEF Announce, Unlock, LockHeld, TypeOK
    <2>2. /\ UNCHANGED <<row, reconnect, live, revoked>> /\ lost \subseteq lost'
          /\ \A m \in stray' : m[2].grant \in lost'
          /\ phase[c] = "answered" /\ answer[c] # Refused => presented[c].grant \in lost'
      BY <1>13 DEF Announce, OpenOrLost, providerVars
    <2>3. LockHeld' /\ RunsAreAwaited' /\ QuietStep
      BY <1>13, <2>1, <2>2, EndedRun
    <2> QED
      BY <2>1, <2>2, <2>3
  <1>14. ASSUME NEW c \in Callers, Abandon(c) PROVE LockHeld' /\ RunsAreAwaited' /\ QuietStep
    <2>1. Settle(c, NoToken) /\ Unlock(c) /\ phase[c] # "none" /\ NoToken \in TokenOrNone
      BY <1>14 DEF Abandon, Unlock, LockHeld, TypeOK
    <2>2. /\ UNCHANGED <<row, reconnect, live, revoked>> /\ lost \subseteq lost'
          /\ \A m \in stray' : m[2].grant \in lost'
          /\ phase[c] = "answered" /\ answer[c] # Refused => presented[c].grant \in lost'
      BY <1>14 DEF Abandon, OpenOrLost, providerVars
    <2>3. LockHeld' /\ RunsAreAwaited' /\ QuietStep
      BY <1>14, <2>1, <2>2, EndedRun
    <2> QED
      BY <2>1, <2>2, <2>3
  <1>15. ASSUME NEW c \in Callers, TransactionTimeout(c)
        PROVE  LockHeld' /\ RunsAreAwaited' /\ QuietStep
    <2>1. CASE phase[c] = "lock"
      <3>1. Settle(c, NoToken) /\ phase[c] # "none" /\ lock # c /\ lock' = lock
        BY <1>15, <2>1 DEF TransactionTimeout, LockHeld
      <3>2. RunsAreAwaited'
        BY <3>1, SettleFrame
      <3>3. LockHeld'
        BY <1>15, <2>1, <3>1, SettleFrame DEF TransactionTimeout, LockHeld
      <3>4. QuietStep
        BY <1>15, <2>1, <3>1, SettleFrame DEF TransactionTimeout, QuietStep, OpenOrLost, providerVars
      <3> QED
        BY <3>2, <3>3, <3>4
    <2>2. CASE phase[c] # "lock"
      <3>1. /\ lock = c /\ lock' = NoOne /\ UNCHANGED <<row, callerVars, runVars, reconnect, providerVars>>
            /\ lost \subseteq lost'
            /\ phase[c] # "locked" => presented[c].grant \in lost'
        BY <1>15, <2>2 DEF TransactionTimeout
      <3>2. LockHeld' /\ RunsAreAwaited'
        BY <3>1 DEF LockHeld, RunsAreAwaited, callerVars, runVars
      <3>3. QuietStep
        BY <3>1 DEF QuietStep, Carried, OpenOrLost, callerVars, runVars, providerVars
      <3> QED
        BY <3>2, <3>3
    <2> QED
      BY <2>1, <2>2
  <1>16. ASSUME NEW g \in Grants, Revoke(g) PROVE LockHeld' /\ RunsAreAwaited' /\ QuietStep
    <2>1. RunsAreAwaited'
      BY <1>16 DEF Revoke, RunsAreAwaited, TypeOK, Expire, Renewing, callerVars, runVars, providerVars
    <2>2. LockHeld'
      BY <1>16 DEF Revoke, LockHeld, Unlock, Expire, TypeOK, callerVars, runVars, providerVars
    <2>3. QuietStep
      BY <1>16 DEF Revoke, QuietStep, Carried, Unlock, LockHeld, OpenOrLost, RenewsStoredToken, TypeOK, Expire, callerVars, runVars, providerVars
    <2> QED
      BY <2>1, <2>2, <2>3
  <1>17. ASSUME NEW k \in Reconnects, ReconnectBegin(k) PROVE LockHeld' /\ RunsAreAwaited' /\ QuietStep
    <2>1. RunsAreAwaited'
      BY <1>17 DEF ReconnectBegin, RunsAreAwaited, TypeOK, Expire, Renewing, callerVars, runVars, providerVars
    <2>2. LockHeld'
      BY <1>17 DEF ReconnectBegin, LockHeld, Unlock, Expire, TypeOK, callerVars, runVars, providerVars
    <2>3. QuietStep
      BY <1>17 DEF ReconnectBegin, QuietStep, Carried, Unlock, LockHeld, OpenOrLost, RenewsStoredToken, TypeOK, Expire, callerVars, runVars, providerVars
    <2> QED
      BY <2>1, <2>2, <2>3
  <1>18. ASSUME NEW k \in Reconnects, ReconnectLock(k) PROVE LockHeld' /\ RunsAreAwaited' /\ QuietStep
    <2>1. RunsAreAwaited'
      BY <1>18 DEF ReconnectLock, RunsAreAwaited, TypeOK, Expire, Renewing, callerVars, runVars, providerVars
    <2>2. LockHeld'
      BY <1>18 DEF ReconnectLock, LockHeld, Unlock, Expire, TypeOK, callerVars, runVars, providerVars
    <2>3. QuietStep
      BY <1>18 DEF ReconnectLock, QuietStep, Carried, Unlock, LockHeld, OpenOrLost, RenewsStoredToken, TypeOK, Expire, callerVars, runVars, providerVars
    <2> QED
      BY <2>1, <2>2, <2>3
  <1>19. ASSUME NEW k \in Reconnects, ReconnectFails(k) PROVE LockHeld' /\ RunsAreAwaited' /\ QuietStep
    <2>1. RunsAreAwaited'
      BY <1>19 DEF ReconnectFails, RunsAreAwaited, TypeOK, Expire, Renewing, callerVars, runVars, providerVars
    <2>2. LockHeld'
      BY <1>19 DEF ReconnectFails, LockHeld, Unlock, Expire, TypeOK, callerVars, runVars, providerVars
    <2>3. QuietStep
      BY <1>19 DEF ReconnectFails, QuietStep, Carried, Unlock, LockHeld, OpenOrLost, RenewsStoredToken, TypeOK, Expire, callerVars, runVars, providerVars
    <2> QED
      BY <2>1, <2>2, <2>3
  <1>20. ASSUME NEW i \in Instances, Crash(i)
        PROVE  LockHeld' /\ RunsAreAwaited' /\ QuietStep
    <2>1. ASSUME NEW d \in Callers, Home[d] = i
          PROVE  /\ phase'[d] = "none" /\ awaiting'[d] = NoOne /\ pc'[d] = "idle" /\ lock' # d
                 /\ phase[d] \in {"request", "answered"} => presented[d].grant \in lost'
      BY <1>20, <2>1 DEF Crash, TypeOK
    <2>2. ASSUME NEW d \in Callers, Home[d] # i
          PROVE  Carried(d) /\ awaiting'[d] = awaiting[d] /\ pc'[d] = pc[d] /\ (lock' = d <=> lock = d)
      BY <1>20, <2>2 DEF Crash, TypeOK, Carried
    <2>3. LockHeld'
      <3>1. \A k \in Reconnects : lock' = k <=> lock = k
        BY <1>20 DEF Crash
      <3> QED
        BY <1>20, <2>1, <2>2, <3>1 DEF Crash, LockHeld, Carried
    <2>4. RunsAreAwaited'
      BY <2>1, <2>2 DEF RunsAreAwaited, Carried
    <2>5. \A m \in stray' : m[2].grant \in lost'
      BY <1>20, <2>1 DEF Crash, OpenOrLost
    <2>6. lost \subseteq lost' /\ UNCHANGED <<row, live, revoked, reconnect>>
      BY <1>20 DEF Crash
    <2>7. QuietStep
      BY <2>1, <2>2, <2>5, <2>6 DEF QuietStep, OpenOrLost
    <2> QED
      BY <2>3, <2>4, <2>7
  <1>21. ASSUME Disconnect PROVE LockHeld' /\ RunsAreAwaited' /\ QuietStep
    <2>1. RunsAreAwaited'
      BY <1>21 DEF Disconnect, RunsAreAwaited, TypeOK, Expire, Renewing, callerVars, runVars, providerVars
    <2>2. LockHeld'
      BY <1>21 DEF Disconnect, LockHeld, Unlock, Expire, TypeOK, callerVars, runVars, providerVars
    <2>3. QuietStep
      BY <1>21 DEF Disconnect, QuietStep, Carried, Unlock, LockHeld, OpenOrLost, RenewsStoredToken, TypeOK, Expire, callerVars, runVars, providerVars
    <2> QED
      BY <2>1, <2>2, <2>3
  <1>22. ASSUME UNCHANGED vars PROVE LockHeld' /\ RunsAreAwaited' /\ QuietStep
    <2>1. RunsAreAwaited'
      BY <1>22 DEF vars, RunsAreAwaited, TypeOK, Expire, Renewing, callerVars, runVars, providerVars
    <2>2. LockHeld'
      BY <1>22 DEF vars, LockHeld, Unlock, Expire, TypeOK, callerVars, runVars, providerVars
    <2>3. QuietStep
      BY <1>22 DEF vars, QuietStep, Carried, Unlock, LockHeld, OpenOrLost, RenewsStoredToken, TypeOK, Expire, callerVars, runVars, providerVars
    <2> QED
      BY <2>1, <2>2, <2>3
  <1> QED
    BY <1>1, <1>2, <1>3, <1>4, <1>5, <1>6, <1>7, <1>8, <1>9, <1>10, <1>11, <1>12, <1>13, <1>14, <1>15, <1>16, <1>17, <1>18, <1>19, <1>20, <1>21, <1>22 DEF CallerStep

----------------------------------------------------------------------------
(* The steps that spend, store or replace a refresh token *)

\* The holder's refresh token is live when it is sent: nobody else can have
\* its successor in hand.
LEMMA PresentInv ==
    ASSUME IInv, TypeOK', NEW c \in Callers, Present(c)
    PROVE  IInv'
  <1> USE DEF IInv
  <1>1. /\ phase[c] = "locked" /\ lock = c /\ phase'[c] = "request"
        /\ presented'[c] = row.refresh /\ row.refresh \in Token /\ row.access = token[c]
    BY TokenFacts DEF Present, TypeOK
  <1>2. \A d \in Callers \ {c} : Carried(d)
    BY DEF Present, Carried, TypeOK, callerVars
  <1>3. UNCHANGED <<row, lock, token, pc, awaiting, answer, reconnect, live, revoked, stray, lost>>
    BY DEF Present, callerVars, providerVars
  <1>4. row.refresh.grant \in lost \/ Accepts(row.refresh)
    BY <1>1, TokenFacts DEF RowLive, OpenOrLost, Accepts
  <1>5. LockHeld' /\ RunsAreAwaited'
    BY <1>1, <1>2, <1>3 DEF LockHeld, RunsAreAwaited, Carried
  <1>6. OpenOrLost' /\ RowGrant'
    BY <1>1, <1>2, <1>3 DEF OpenOrLost, RowGrant, Carried
  <1>7. AnswerContinues' /\ HealthyNeverRefused'
    BY <1>1, <1>2, <1>3 DEF AnswerContinues, Successor, HealthyNeverRefused, Carried
  <1>8. RowLive'
    BY <1>1, <1>3, <1>4, TokenFacts DEF RowLive, Accepts
  <1>9. SpentOnce'
    BY <1>1, <1>2, <1>3, <1>4 DEF SpentOnce, Accepts, Carried
  <1>10. RenewsStoredToken'
    BY <1>1, <1>2, <1>3 DEF RenewsStoredToken, Carried
  <1> QED
    BY <1>5, <1>6, <1>7, <1>8, <1>9, <1>10

\* What the provider does to a token changes nothing for another grant, and a
\* token it refuses although it accepts it does not exist.
LEMMA ProviderFrame ==
    ASSUME TypeOK, NEW t \in Token
    PROVE  /\ \A a \in AnswersTo(t) : Renew(t, a) =>
                /\ \A g \in Grants \ {t.grant} : live'[g] = live[g]
                /\ revoked' = revoked
                /\ a # Refused
                /\ a.access.grant = t.grant
                /\ IF a.refresh # NoToken
                   THEN a.refresh.grant = t.grant /\ a.refresh.serial = live'[t.grant]
                   ELSE t.serial = live'[t.grant]
           /\ Refuse(t) => ~Accepts(t) /\ live' = live /\ revoked' \subseteq revoked \cup {t.grant}
  <1>1. t.grant \in Grants /\ issued[t.grant] + 1 \in Nat
    BY TokenFacts DEF TypeOK
  <1>2. TokenAt(t.grant, issued[t.grant] + 1) \in Token
    BY <1>1, TokenFacts
  <1>3. ASSUME NEW a \in AnswersTo(t), Renew(t, a)
        PROVE  /\ \A g \in Grants \ {t.grant} : live'[g] = live[g]
               /\ revoked' = revoked
               /\ a # Refused
               /\ a.access.grant = t.grant
               /\ IF a.refresh # NoToken
                  THEN a.refresh.grant = t.grant /\ a.refresh.serial = live'[t.grant]
                  ELSE t.serial = live'[t.grant]
    <2> DEFINE fresh == TokenAt(t.grant, issued[t.grant] + 1)
    <2>1. fresh # NoToken /\ fresh.grant = t.grant
      BY <1>1, <1>2, TokenFacts
    <2>2. t.serial = live[t.grant] /\ revoked' = revoked
      BY <1>3 DEF Renew, Accepts
    <2>3. \/ live' = [live EXCEPT ![t.grant] = fresh.serial] /\ a = [access |-> fresh, refresh |-> fresh]
          \/ live' = live /\ a = [access |-> fresh, refresh |-> NoToken]
      BY <1>3 DEF Renew
    <2>4. live'[t.grant] = fresh.serial \/ live' = live
      BY <1>1, <2>3 DEF TypeOK
    <2> HIDE DEF fresh
    <2> QED
      BY <1>1, <2>1, <2>2, <2>3 DEF TypeOK, Refused
  <1>4. Refuse(t) => ~Accepts(t) /\ live' = live /\ revoked' \subseteq revoked \cup {t.grant}
    BY DEF Refuse
  <1> QED
    BY <1>3, <1>4

LEMMA TokenEndpointInv ==
    ASSUME IInv, TypeOK', NEW c \in Callers, TokenEndpoint(c)
    PROVE  IInv'
  <1> USE DEF IInv
  <1> DEFINE p == presented[c]
  <1>1. /\ phase[c] = "request" /\ phase'[c] = "answered" /\ p \in Token /\ p.grant \in Grants
        /\ presented'[c] = p /\ (p.grant \in lost \/ Accepts(p))
        /\ \A d \in Callers \ {c} : Carried(d)
    BY TokenFacts DEF TokenEndpoint, TypeOK, SpentOnce, callerVars, Carried
  <1>2. UNCHANGED <<row, lock, token, pc, awaiting, presented, reconnect, stray, lost>>
    BY DEF TokenEndpoint, callerVars
  <1>3. /\ \A g \in Grants \ {p.grant} : live'[g] = live[g]
        /\ revoked' \subseteq lost
        /\ answer'[c] = Refused => p.grant \in lost
        /\ answer'[c] # Refused =>
             /\ answer'[c].access.grant = p.grant
             /\ Successor(c)'.grant = p.grant /\ Successor(c)'.serial = live'[p.grant]
        /\ \/ answer'[c] # Refused
           \/ p.grant \in lost
    <2>1. CASE \E a \in AnswersTo(p) : Renew(p, a) /\ answer' = [answer EXCEPT ![c] = a]
      <3>1. PICK a \in AnswersTo(p) : Renew(p, a) /\ answer' = [answer EXCEPT ![c] = a]
        BY <2>1
      <3>2. answer'[c] = a
        BY <3>1 DEF TypeOK
      <3> QED
        BY <1>1, <1>2, <3>1, <3>2, ProviderFrame DEF Successor, OpenOrLost
    <2>2. CASE Refuse(p) /\ answer' = [answer EXCEPT ![c] = Refused]
      BY <1>1, <2>2, ProviderFrame DEF TypeOK, OpenOrLost
    <2> QED
      BY <2>1, <2>2 DEF TokenEndpoint
  <1>4. lock = c => row.refresh = p
    BY <1>1 DEF RenewsStoredToken
  <1>5. lock = c \/ p.grant \in lost
    BY <1>1 DEF OpenOrLost
  <1> HIDE DEF p
  <1>6. LockHeld' /\ RunsAreAwaited'
    BY <1>1, <1>2 DEF LockHeld, RunsAreAwaited, Carried
  <1>7. OpenOrLost'
    BY <1>1, <1>2, <1>3, <1>5 DEF OpenOrLost, Carried
  <1>8. RowGrant'
    <2>1. ASSUME NEW k \in Reconnects, reconnect[k] # "done" PROVE live'[k] = 0 \/ k \in lost
      <3>1. CASE k # p.grant
        BY <1>3, <2>1, <3>1 DEF RowGrant, Grants
      <3>2. CASE k = p.grant
        BY <1>1, <1>4, <1>5, <2>1, <3>2, TokenFacts DEF RowGrant
      <3> QED
        BY <3>1, <3>2
    <2> QED
      BY <1>2, <2>1 DEF RowGrant
  <1>9. AnswerContinues'
    <2>1. ASSUME NEW d \in Callers \ {c}, phase[d] = "answered", answer[d] # Refused
          PROVE  Successor(d).serial = live'[presented[d].grant] \/ presented[d].grant \in lost
      <3>1. presented[d].grant \in lost \/ presented[d].grant # p.grant
        BY <1>1, <1>5, <2>1 DEF OpenOrLost
      <3> QED
        BY <1>3, <2>1, <3>1, TokenFacts DEF AnswerContinues, TypeOK
    <2> QED
      BY <1>1, <1>2, <1>3, <2>1 DEF AnswerContinues, Successor, Carried
  <1>10. RowLive'
    <2>1. CASE lock = c
      BY <1>1, <1>2, <1>3, <1>4, <2>1 DEF RowLive
    <2>2. CASE lock # c
      <3>1. p.grant \in lost
        BY <1>5, <2>2
      <3>2. row.refresh \in Token => row.refresh.grant \in lost \/ live'[row.refresh.grant] = live[row.refresh.grant]
        BY <1>3, <3>1, TokenFacts
      <3>3. \A d \in Callers : lock = d => Carried(d)
        BY <1>1, <2>2
      <3> QED
        BY <1>2, <3>2, <3>3, TokenFacts DEF RowLive, Carried, TypeOK
    <2> QED
      BY <2>1, <2>2
  <1>11. SpentOnce'
    <2>1. ASSUME NEW d \in Callers, phase'[d] = "request"
          PROVE  Accepts(presented[d])' \/ presented[d].grant \in lost
      <3>1. d # c /\ phase[d] = "request" /\ presented'[d] = presented[d] /\ presented[d] \in Token
        BY <1>1, <2>1 DEF Carried, TypeOK
      <3>2. presented[d].grant \in lost \/ presented[d].grant # p.grant
        BY <1>1, <1>5, <3>1 DEF OpenOrLost
      <3> QED
        BY <1>3, <3>1, <3>2, TokenFacts DEF SpentOnce, Accepts
    <2> QED
      BY <1>2, <2>1 DEF SpentOnce
  <1>12. HealthyNeverRefused' /\ RenewsStoredToken'
    BY <1>1, <1>2, <1>3 DEF HealthyNeverRefused, RenewsStoredToken, Carried
  <1> QED
    BY <1>6, <1>7, <1>8, <1>9, <1>10, <1>11, <1>12

\* A stray request is of a grant already lost.
LEMMA StrayArrivesInv ==
    ASSUME IInv, TypeOK', NEW m \in stray, StrayArrives(m)
    PROVE  IInv'
  <1> USE DEF IInv
  <1>1. m[2] \in Token /\ m[2].grant \in lost
    BY DEF OpenOrLost, TypeOK
  <1>2. /\ UNCHANGED <<row, lock, pc, token, awaiting, phase, presented, answer, reconnect, lost>>
        /\ stray' \subseteq stray
    BY DEF StrayArrives, callerVars, runVars
  <1>3. /\ \A g \in Grants : g \in lost \/ live'[g] = live[g]
        /\ revoked' \subseteq lost
    <2>1. CASE \E a \in AnswersTo(m[2]) : Renew(m[2], a)
      BY <1>1, <2>1, ProviderFrame DEF OpenOrLost
    <2>2. CASE Refuse(m[2])
      BY <1>1, <2>2, ProviderFrame DEF OpenOrLost
    <2>3. CASE UNCHANGED <<issued, live, revoked>>
      BY <2>3 DEF OpenOrLost
    <2> QED
      BY <2>1, <2>2, <2>3 DEF StrayArrives
  <1>4. LockHeld' /\ RunsAreAwaited' /\ OpenOrLost'
    BY <1>2, <1>3 DEF LockHeld, RunsAreAwaited, OpenOrLost
  <1>5. RowGrant'
    BY <1>2, <1>3 DEF RowGrant, Grants
  <1>6. AnswerContinues'
    BY <1>2, <1>3, TokenFacts DEF AnswerContinues, Successor, TypeOK
  <1>7. RowLive'
    BY <1>2, <1>3, TokenFacts DEF RowLive, TypeOK
  <1>8. SpentOnce'
    BY <1>2, <1>3, TokenFacts DEF SpentOnce, Accepts, TypeOK
  <1>9. HealthyNeverRefused' /\ RenewsStoredToken'
    BY <1>2 DEF HealthyNeverRefused, RenewsStoredToken
  <1> QED
    BY <1>4, <1>5, <1>6, <1>7, <1>8, <1>9

\* The row takes over the answer, and with it the live refresh token.
LEMMA SaveInv ==
    ASSUME IInv, TypeOK', NEW c \in Callers, Save(c)
    PROVE  IInv'
  <1> USE DEF IInv
  <1>1. /\ phase[c] = "answered" /\ answer[c] # Refused /\ lock = c
        /\ answer[c].access \in Token /\ row.refresh = presented[c] /\ presented[c] \in Token
    BY AnswerFacts DEF Save, TypeOK, RenewsStoredToken
  <1>2. row'.access = answer[c].access /\ row'.refresh = Successor(c)
    BY <1>1 DEF Save, Successor
  <1>3. /\ RunsAreAwaited' /\ phase'[c] = "none"
        /\ \A d \in Callers \ {c} : phase'[d] = phase[d] /\ (phase[d] # "none" => Carried(d))
    BY <1>1, SettleFrame, TokenFacts DEF Save
  <1>4. \A x \in Callers \cup Reconnects : lock' # x
    BY <1>1, ConstantsAssumption DEF Save, Unlock
  <1>5. UNCHANGED <<reconnect, live, revoked, stray, lost>>
    BY DEF Save, providerVars
  <1>6. \A d \in Callers \ {c} :
          phase[d] \in {"request", "answered"} => presented[d].grant \in lost
    BY <1>1 DEF OpenOrLost
  <1>7. /\ Successor(c).grant = row.refresh.grant /\ answer[c].access.grant = row.refresh.grant
        /\ Successor(c).serial = live[row.refresh.grant] \/ row.refresh.grant \in lost
        /\ row.refresh.grant = row.access.grant
    BY <1>1, TokenFacts DEF AnswerContinues, RowGrant
  <1>8. LockHeld'
    BY <1>1, <1>4, <1>5, ConstantsAssumption DEF LockHeld
  <1>9. OpenOrLost'
    BY <1>3, <1>5, <1>6 DEF OpenOrLost, Carried
  <1>10. RowGrant'
    BY <1>2, <1>5, <1>7 DEF RowGrant
  <1>11. AnswerContinues'
    BY <1>3, <1>5 DEF AnswerContinues, Successor, Carried
  <1>12. RowLive'
    BY <1>2, <1>5, <1>7 DEF RowLive
  <1>13. SpentOnce' /\ HealthyNeverRefused'
    BY <1>3, <1>5 DEF SpentOnce, HealthyNeverRefused, Accepts, Carried
  <1>14. RenewsStoredToken'
    BY <1>4 DEF RenewsStoredToken
  <1> QED
    BY <1>3, <1>8, <1>9, <1>10, <1>11, <1>12, <1>13, <1>14

\* A reconnect replaces the pair while no transaction is past the lock.
LEMMA ReconnectWriteInv ==
    ASSUME IInv, TypeOK', NEW k \in Reconnects, ReconnectWrite(k)
    PROVE  IInv'
  <1> USE DEF IInv
  <1>1. /\ reconnect[k] = "locked" /\ lock = k /\ row'.access = TokenAt(k, 0)
        /\ row'.refresh \in {TokenAt(k, 0), NoToken}
        /\ reconnect' = [reconnect EXCEPT ![k] = "done"]
    BY DEF ReconnectWrite, LockHeld
  <1>2. UNCHANGED <<pc, token, awaiting, phase, presented, answer, live, revoked, stray, lost>>
    BY DEF ReconnectWrite, callerVars, runVars, providerVars
  <1>3. \A x \in Callers \cup Reconnects : lock' # x
    BY <1>1, ConstantsAssumption DEF ReconnectWrite, Unlock
  <1>4. TokenAt(k, 0).grant = k /\ TokenAt(k, 0).serial = 0
    BY DEF TokenAt
  <1>5. \A c \in Callers : lock # c
    BY <1>1, ConstantsAssumption
  <1>6. LockHeld' /\ RunsAreAwaited'
    BY <1>1, <1>2, <1>3 DEF LockHeld, RunsAreAwaited, TypeOK
  <1>7. OpenOrLost'
    BY <1>2, <1>5 DEF OpenOrLost
  <1>8. RowGrant'
    BY <1>1, <1>2, <1>4 DEF RowGrant, TypeOK
  <1>9. RowLive'
    BY <1>1, <1>2, <1>4 DEF RowLive, RowGrant
  <1>10. AnswerContinues' /\ SpentOnce' /\ HealthyNeverRefused'
    BY <1>2 DEF AnswerContinues, Successor, SpentOnce, Accepts, HealthyNeverRefused
  <1>11. RenewsStoredToken'
    BY <1>3 DEF RenewsStoredToken
  <1> QED
    BY <1>6, <1>7, <1>8, <1>9, <1>10, <1>11

----------------------------------------------------------------------------
(* Theorems *)

LEMMA InvNext == IInv /\ [Next]_vars => IInv'
  <1> SUFFICES ASSUME IInv, [Next]_vars PROVE IInv'
    OBVIOUS
  <1>1. TypeOK'
    BY TypeNext DEF IInv
  <1>2. CASE \E c \in Callers : Present(c) \/ Save(c) \/ TokenEndpoint(c)
    BY <1>1, <1>2, PresentInv, SaveInv, TokenEndpointInv
  <1>3. CASE \E m \in stray : StrayArrives(m)
    BY <1>1, <1>3, StrayArrivesInv
  <1>4. CASE \E k \in Reconnects : ReconnectWrite(k)
    BY <1>1, <1>4, ReconnectWriteInv
  <1>5. \/ \E c \in Callers : Present(c) \/ Save(c) \/ TokenEndpoint(c)
        \/ \E m \in stray : StrayArrives(m)
        \/ \E k \in Reconnects : ReconnectWrite(k)
        \/ LockHeld' /\ RunsAreAwaited' /\ QuietStep
    BY <1>1, QuietActions DEF Next, RunStep, RequestStep, ReconnectStep
  <1> QED
    BY <1>1, <1>2, <1>3, <1>4, <1>5, QuietStepInv

\* The inductive invariant holds in every reachable state.
THEOREM Invariance == Spec => []IInv
  BY InvInit, InvNext, PTL DEF Spec

\* However many instances and callers race to renew an expired token, the
\* refresh token sent is one the provider accepts, or of a lost grant.
THEOREM RefreshTokenSpentOnce == Spec => []SpentOnce
  <1>1. IInv => SpentOnce
    BY DEF IInv
  <1> QED
    BY <1>1, Invariance, PTL

\* A connection whose every answer was saved is never told to reconnect.
THEOREM HealthyConnectionNeverRefused == Spec => []HealthyNeverRefused
  <1>1. IInv => HealthyNeverRefused
    BY DEF IInv
  <1> QED
    BY <1>1, Invariance, PTL

\* While a renewal is under way nobody renews or replaces the pair beneath it.
THEOREM RowStableUnderRenewal == Spec => []RenewsStoredToken
  <1>1. IInv => RenewsStoredToken
    BY DEF IInv
  <1> QED
    BY <1>1, Invariance, PTL

\* The store and the provider agree on the live refresh token.
THEOREM StoreAgreesWithProvider == Spec => []StoreTracksProvider
  <1>1. IInv => StoreTracksProvider
    BY TokenFacts DEF IInv, RowLive, OpenOrLost, StoreTracksProvider, Accepts
  <1> QED
    BY <1>1, Invariance, PTL

\* A refresh in flight never writes an old grant over a reconnect: the row's
\* grant changes only by a reconnect that holds the lock.
THEOREM ReconnectHasLastWord == Spec => GrantChangedByReconnectOnly
  <1> DEFINE Changed == row'.access.grant # row.access.grant =>
                          \E k \in Reconnects : lock = k /\ row'.access.grant = k
  <1>1. IInv /\ [Next]_vars => Changed
    <2> SUFFICES ASSUME IInv, [Next]_vars PROVE Changed
      OBVIOUS
    <2>1. TypeOK'
      BY TypeNext DEF IInv
    <2>2. ASSUME NEW c \in Callers, Save(c) PROVE Changed
      <3>1. row'.access = answer[c].access
        BY <2>2 DEF Save
      <3>2. answer[c].access.grant = row.access.grant
        BY <2>2, TokenFacts
        DEF Save, IInv, TypeOK, AnswerContinues, RenewsStoredToken, RowGrant
      <3> QED
        BY <3>1, <3>2
    <2>3. ASSUME NEW k \in Reconnects, ReconnectWrite(k) PROVE Changed
      BY <2>3 DEF ReconnectWrite, IInv, LockHeld, TokenAt
    <2>4. CASE \/ \E c \in Callers : Present(c) \/ TokenEndpoint(c)
               \/ \E m \in stray : StrayArrives(m)
      BY <2>4 DEF Present, TokenEndpoint, StrayArrives
    <2>5. CASE QuietStep
      BY <2>5 DEF QuietStep
    <2> QED
      BY <2>1, <2>2, <2>3, <2>4, <2>5, QuietActions DEF Next, RunStep, RequestStep, ReconnectStep
  <1> QED
    BY <1>1, Invariance, PTL DEF Spec, GrantChangedByReconnectOnly
----------------------------------------------------------------------------
(* Serials: nobody is ahead of the row, and the row not of the provider *)

SerialInv ==
    /\ row.access.serial <= issued[row.access.grant]
    /\ \A c \in Callers :
         /\ pc[c] # "idle" /\ token[c].grant = row.access.grant =>
              token[c].serial <= row.access.serial
         /\ phase[c] = "answered" /\ answer[c] # Refused =>
              /\ answer[c].access.serial <= issued[answer[c].access.grant]
              /\ lock = c => row.access.serial < answer[c].access.serial
              /\ answer[c].refresh \in {NoToken, answer[c].access}
    /\ \A k \in Reconnects, c \in Callers :
         reconnect[k] # "done" /\ pc[c] # "idle" => token[c].grant # k

\* A quiet step hands out no token but the row's, and takes no answer in.
SerialStep ==
    /\ row'.access = row.access
    /\ UNCHANGED issued
    /\ \A k \in Reconnects : reconnect[k] = "done" => reconnect'[k] = "done"
    /\ \A c \in Callers :
         /\ pc'[c] # "idle" => token'[c] = row.access \/ (pc[c] # "idle" /\ token'[c] = token[c])
         /\ phase'[c] = "answered" =>
              phase[c] = "answered" /\ answer'[c] = answer[c] /\ (lock' = c => lock = c)

LEMMA SerialStepInv ==
    ASSUME IInv, SerialInv, TypeOK', SerialStep
    PROVE  SerialInv'
  <1> USE DEF SerialStep, SerialInv
  <1>1. row.access \in Token /\ row.access.serial \in Nat
    BY TokenFacts DEF IInv, TypeOK
  <1>2. \A k \in Reconnects : reconnect[k] # "done" => row.access.grant # k
    BY DEF IInv, RowGrant
  <1> QED
    BY <1>1, <1>2

\* What settling does to the tokens in use: the awaited one, or no new one.
LEMMA SettleTokens ==
    ASSUME TypeOK, RunsAreAwaited, NEW c \in Callers, NEW t \in TokenOrNone, Settle(c, t)
    PROVE  \A d \in Callers :
             /\ pc'[d] # "idle" => \/ t # NoToken /\ token'[d] = t
                                   \/ pc[d] # "idle" /\ token'[d] = token[d]
             /\ phase'[d] = "answered" => phase[d] = "answered" /\ answer'[d] = answer[d] /\ d # c
  BY ConstantsAssumption, TokenFacts DEF Settle, TypeOK, RunsAreAwaited, Renewing

LEMMA SerialQuiet ==
    ASSUME IInv,
           \/ \E c \in Callers :
                \/ CallerStep(c) \/ TakeLock(c) \/ TransactionTimeout(c) \/ Present(c)
                \/ ReadFails(c) \/ ReadRenewed(c) \/ ReadUnrenewable(c)
                \/ SaveFails(c) \/ RefusalArrives(c) \/ Announce(c)
                \/ TokenEndpointDown(c) \/ Abandon(c)
           \/ \E g \in Grants : Revoke(g)
           \/ \E k \in Reconnects : ReconnectBegin(k) \/ ReconnectLock(k) \/ ReconnectFails(k)
           \/ \E i \in Instances : Crash(i)
           \/ Disconnect
           \/ UNCHANGED vars
    PROVE  SerialStep
  <1> USE ConstantsAssumption, TokenFacts DEF IInv, SerialStep
  <1>1. ASSUME NEW c \in Callers, CallerStep(c) PROVE SerialStep
    <2>1. CASE Begin(c)
      BY <2>1 DEF Begin, TypeOK, runVars, providerVars
    <2>2. CASE RenewEarly(c)
      BY <2>2 DEF RenewEarly, RefreshCredential, TypeOK, providerVars
    <2>3. CASE Rejected(c)
      BY <2>3 DEF Rejected, RefreshCredential, TypeOK, providerVars
    <2>4. CASE Succeed(c)
      BY <2>4 DEF Succeed, TypeOK, runVars, providerVars
    <2>5. CASE Finish(c)
      BY <2>5 DEF Finish, TypeOK, runVars, providerVars
    <2> QED
      BY <1>1, <2>1, <2>2, <2>3, <2>4, <2>5 DEF CallerStep
  <1>2. ASSUME NEW c \in Callers,
               TakeLock(c) \/ Present(c) \/ ReadUnrenewable(c) \/ RefusalArrives(c) \/ TokenEndpointDown(c)
        PROVE SerialStep
    <2>1. /\ row' = row /\ issued' = issued /\ reconnect' = reconnect /\ answer' = answer
          /\ pc' = pc /\ token' = token
      BY <1>2 DEF TakeLock, Present, ReadUnrenewable, RefusalArrives, TokenEndpointDown,
                  callerVars, providerVars
    <2>2. \A d \in Callers : phase'[d] = "answered" => phase[d] = "answered"
      BY <1>2 DEF TakeLock, Present, ReadUnrenewable, RefusalArrives, TokenEndpointDown, Expire, TypeOK
    <2>3. \A d \in Callers : phase'[d] = "answered" /\ lock' = d => lock = d
      BY <1>2 DEF TakeLock, Present, ReadUnrenewable, RefusalArrives, TokenEndpointDown, Expire,
                  Unlock, TypeOK
    <2> QED
      BY <2>1, <2>2, <2>3
  <1>3. ASSUME NEW c \in Callers, TransactionTimeout(c) PROVE SerialStep
    <2>1. CASE phase[c] = "lock" /\ Settle(c, NoToken)
               /\ UNCHANGED <<row, lock, reconnect, providerVars, lost>>
      BY <2>1, SettleTokens DEF providerVars
    <2>2. CASE lock' = NoOne
               /\ UNCHANGED <<row, inFlight, callerVars, runVars, reconnect, providerVars>>
      BY <2>2 DEF callerVars, runVars, providerVars, TypeOK
    <2> QED
      BY <1>3, <2>1, <2>2 DEF TransactionTimeout
  <1>4. ASSUME NEW c \in Callers, NEW t \in {NoToken, row.access}, Settle(c, t),
               Unlock(c) \/ lock' = lock, UNCHANGED <<row, reconnect, issued>>
        PROVE SerialStep
    <2>1. t \in TokenOrNone
      BY DEF TypeOK
    <2>2. \A d \in Callers \ {c} : lock' = d => lock = d
      BY <1>4 DEF Unlock, TypeOK
    <2> QED
      BY <1>4, <2>1, <2>2, SettleTokens
  <1>5. ASSUME NEW c \in Callers,
               ReadFails(c) \/ ReadRenewed(c) \/ SaveFails(c) \/ Announce(c) \/ Abandon(c)
        PROVE SerialStep
    BY <1>4, <1>5 DEF ReadFails, ReadRenewed, SaveFails, Announce, Abandon, providerVars
  <1>6. ASSUME NEW g \in Grants, Revoke(g) PROVE SerialStep
    BY <1>6 DEF Revoke, callerVars, runVars
  <1>7. ASSUME NEW k \in Reconnects, ReconnectBegin(k) \/ ReconnectLock(k) \/ ReconnectFails(k)
        PROVE SerialStep
    <2>1. /\ row' = row /\ issued' = issued /\ answer' = answer /\ phase' = phase
          /\ pc' = pc /\ token' = token
      BY <1>7 DEF ReconnectBegin, ReconnectLock, ReconnectFails, callerVars, runVars, providerVars
    <2>2. \A j \in Reconnects : reconnect[j] = "done" => reconnect'[j] = "done"
      BY <1>7 DEF ReconnectBegin, ReconnectLock, ReconnectFails, TypeOK
    <2>3. \A d \in Callers : lock' = d => lock = d
      BY <1>7 DEF ReconnectBegin, ReconnectLock, ReconnectFails, Unlock, TypeOK
    <2> QED
      BY <2>1, <2>2, <2>3
  <1>8. ASSUME NEW i \in Instances, Crash(i) PROVE SerialStep
    <2>1. row' = row /\ issued' = issued /\ reconnect' = reconnect
      BY <1>8 DEF Crash
    <2>2. ASSUME NEW d \in Callers
          PROVE  /\ pc'[d] # "idle" => pc[d] # "idle" /\ token'[d] = token[d]
                 /\ phase'[d] = "answered" => phase[d] = "answered" /\ answer'[d] = answer[d]
                 /\ lock' = d => lock = d
      BY <1>8 DEF Crash, TypeOK
    <2> QED
      BY <2>1, <2>2
  <1>9. CASE Disconnect
    BY <1>9 DEF Disconnect, callerVars, runVars, providerVars, TypeOK
  <1>10. CASE UNCHANGED vars
    BY <1>10 DEF vars, callerVars, runVars, providerVars
  <1> QED
    BY <1>1, <1>2, <1>3, <1>5, <1>6, <1>7, <1>8, <1>9, <1>10

LEMMA SerialNext ==
    ASSUME IInv, SerialInv, [Next]_vars
    PROVE  SerialInv'
  <1> USE ConstantsAssumption, TokenFacts
  <1>1. TypeOK'
    BY TypeNext DEF IInv
  <1>2. ASSUME NEW c \in Callers, Save(c) PROVE SerialInv'
    <2>1. /\ row'.access = answer[c].access /\ answer[c].access \in Token
          /\ answer[c].access.grant = row.access.grant
          /\ row.access.serial < answer[c].access.serial
          /\ row.access.serial \in Nat /\ answer[c].access.serial \in Nat
      BY <1>2, AnswerFacts
      DEF Save, IInv, TypeOK, AnswerContinues, RenewsStoredToken, RowGrant, SerialInv
    <2>2. \A d \in Callers :
            /\ pc'[d] # "idle" => \/ token'[d] = answer[c].access
                                  \/ pc[d] # "idle" /\ token'[d] = token[d]
            /\ phase'[d] = "answered" => phase[d] = "answered" /\ answer'[d] = answer[d] /\ d # c
      BY <1>2, <2>1, SettleTokens DEF Save, IInv
    <2>3. issued' = issued /\ reconnect' = reconnect
      BY <1>2 DEF Save, providerVars
    <2>4. \A d \in Callers : lock' = d => FALSE
      BY <1>2 DEF Save, Unlock
    <2>5. \A d \in Callers :
            pc[d] # "idle" /\ token[d].grant = row.access.grant => token[d] \in Token /\ token[d].serial \in Nat
      BY DEF IInv, RunsAreAwaited
    <2>6. \A k \in Reconnects : reconnect[k] # "done" => row.access.grant # k
      BY DEF IInv, RowGrant
    <2>7. answer[c].access.serial <= issued[answer[c].access.grant]
      BY <1>2 DEF Save, SerialInv
    <2> QED
      BY <2>1, <2>2, <2>3, <2>4, <2>5, <2>6, <2>7 DEF SerialInv
  <1>3. ASSUME NEW k \in Reconnects, ReconnectWrite(k) PROVE SerialInv'
    <2>1. row'.access = TokenAt(k, 0) /\ row'.access.grant = k /\ row'.access.serial = 0
      BY <1>3 DEF ReconnectWrite, Grants
    <2>2. /\ issued' = issued /\ answer' = answer /\ phase' = phase /\ pc' = pc /\ token' = token
          /\ reconnect' = [reconnect EXCEPT ![k] = "done"] /\ reconnect[k] = "locked"
      BY <1>3 DEF ReconnectWrite, callerVars, runVars, providerVars
    <2>3. \A d \in Callers : ~(lock' = d)
      BY <1>3 DEF ReconnectWrite, Unlock, IInv, LockHeld
    <2>4. issued[k] \in Nat
      BY DEF IInv, TypeOK, Grants
    <2> QED
      BY <2>1, <2>2, <2>3, <2>4 DEF SerialInv, IInv, TypeOK
  <1>4. ASSUME NEW t \in Token, NEW a \in AnswersTo(t), Renew(t, a)
        PROVE  /\ a.access = TokenAt(t.grant, issued[t.grant] + 1)
               /\ a.refresh \in {NoToken, a.access}
               /\ issued'[t.grant] = issued[t.grant] + 1
               /\ \A g \in Grants \ {t.grant} : issued'[g] = issued[g]
               /\ \A g \in Grants : issued[g] <= issued'[g]
    <2>1. a.access = TokenAt(t.grant, issued[t.grant] + 1) /\ a.refresh \in {NoToken, a.access}
      BY DEF AnswersTo
    <2>2. t.grant \in Grants /\ issued \in [Grants -> Nat]
      BY DEF IInv, TypeOK
    <2>3. issued' = [issued EXCEPT ![t.grant] = issued[t.grant] + 1]
      BY <1>4, <2>2 DEF Renew, TokenAt
    <2> QED
      BY <2>1, <2>2, <2>3
  <1>5. ASSUME \A g \in Grants : issued[g] <= issued'[g],
               UNCHANGED <<row, lock, pc, token, reconnect>>,
               NEW c \in Callers,
               \A d \in Callers \ {c} : phase'[d] = phase[d] /\ answer'[d] = answer[d],
               phase'[c] = "answered" /\ answer'[c] # Refused =>
                  /\ answer'[c].access.serial <= issued'[answer'[c].access.grant]
                  /\ lock = c => row.access.serial < answer'[c].access.serial
                  /\ answer'[c].refresh \in {NoToken, answer'[c].access}
        PROVE  SerialInv'
    <2>1. issued \in [Grants -> Nat] /\ issued' \in [Grants -> Nat]
      BY <1>1 DEF IInv, TypeOK
    <2>2. row.access.grant \in Grants /\ row.access.serial \in Nat
      BY DEF IInv, TypeOK
    <2>3. \A d \in Callers : answer[d] # Refused =>
            answer[d].access.grant \in Grants /\ answer[d].access.serial \in Nat
      BY AnswerFacts DEF IInv, TypeOK
    <2>4. row.access.serial <= issued'[row.access.grant]
      BY <1>5, <2>1, <2>2 DEF SerialInv
    <2>5. ASSUME NEW d \in Callers, phase'[d] = "answered", answer'[d] # Refused
          PROVE  /\ answer'[d].access.serial <= issued'[answer'[d].access.grant]
                 /\ lock = d => row.access.serial < answer'[d].access.serial
                 /\ answer'[d].refresh \in {NoToken, answer'[d].access}
      <3>1. CASE d = c
        BY <1>5, <2>5, <3>1
      <3>2. CASE d # c
        <4>1. phase[d] = "answered" /\ answer[d] # Refused /\ answer'[d] = answer[d]
          BY <1>5, <2>5, <3>2
        <4>2. answer[d].access.serial <= issued[answer[d].access.grant]
          BY <4>1 DEF SerialInv
        <4> QED
          BY <1>5, <2>1, <2>3, <4>1, <4>2 DEF SerialInv
      <3> QED
        BY <3>1, <3>2
    <2> QED
      BY <1>5, <2>4, <2>5 DEF SerialInv
  <1>6. ASSUME NEW c \in Callers, TokenEndpoint(c) PROVE SerialInv'
    <2>1. presented[c] \in Token /\ presented[c].grant \in Grants
      BY <1>6 DEF TokenEndpoint, IInv, TypeOK
    <2>2. UNCHANGED <<row, lock, pc, token, reconnect>>
      BY <1>6 DEF TokenEndpoint, callerVars
    <2>3. /\ \A d \in Callers \ {c} : phase'[d] = phase[d] /\ answer'[d] = answer[d]
          /\ phase[c] = "request"
      BY <1>6 DEF TokenEndpoint, IInv, TypeOK
    <2>4. CASE Refuse(presented[c]) /\ answer' = [answer EXCEPT ![c] = Refused]
      <3>1. \A g \in Grants : issued[g] <= issued'[g]
        BY <2>4 DEF Refuse, IInv, TypeOK
      <3>2. answer'[c] = Refused
        BY <2>4 DEF IInv, TypeOK
      <3> QED
        BY <1>5, <2>2, <2>3, <3>1, <3>2
    <2>5. ASSUME NEW a \in AnswersTo(presented[c]), Renew(presented[c], a),
                 answer' = [answer EXCEPT ![c] = a]
          PROVE SerialInv'
      <3>1. answer'[c] = a /\ issued[presented[c].grant] \in Nat
        BY <2>1, <2>5 DEF IInv, TypeOK
      <3>2. /\ a.access.grant = presented[c].grant
            /\ a.refresh \in {NoToken, a.access}
            /\ a.access.serial = issued[presented[c].grant] + 1
            /\ issued'[presented[c].grant] = issued[presented[c].grant] + 1
            /\ \A g \in Grants : issued[g] <= issued'[g]
        BY <1>4, <2>1, <2>5, <3>1
      <3>3. ASSUME lock = c PROVE row.access.serial < a.access.serial
        <4>1. presented[c] = row.refresh /\ row.refresh # NoToken
          BY <2>1, <2>3, <3>3 DEF IInv, RenewsStoredToken
        <4>2. row.access.grant = presented[c].grant
          BY <4>1 DEF IInv, RowGrant
        <4>3. row.access.serial \in Nat /\ row.access.serial <= issued[presented[c].grant]
          BY <4>2 DEF IInv, TypeOK, SerialInv
        <4> QED
          BY <3>1, <3>2, <4>3
      <3> QED
        BY <1>5, <2>2, <2>3, <3>1, <3>2, <3>3
    <2> QED
      BY <1>6, <2>4, <2>5 DEF TokenEndpoint
  <1>7. ASSUME NEW m \in stray, StrayArrives(m) PROVE SerialInv'
    <2>1. m[2] \in Token /\ m[2].grant \in Grants
      BY DEF IInv, TypeOK
    <2>2. UNCHANGED <<row, lock, pc, token, reconnect, phase, answer>>
      BY <1>7 DEF StrayArrives, callerVars, runVars
    <2>3. \A g \in Grants : issued[g] <= issued'[g]
      <3>1. CASE \E a \in AnswersTo(m[2]) : Renew(m[2], a)
        BY <1>4, <2>1, <3>1
      <3>2. CASE UNCHANGED issued
        BY <3>2 DEF IInv, TypeOK
      <3> QED
        BY <1>7, <3>1, <3>2 DEF StrayArrives, Refuse
    <2>4. CASE Callers = {}
      <3>1. issued' \in [Grants -> Nat] /\ issued \in [Grants -> Nat]
            /\ row.access.grant \in Grants /\ row.access.serial \in Nat
        BY <1>1 DEF IInv, TypeOK
      <3> QED
        BY <2>2, <2>3, <2>4, <3>1 DEF SerialInv
    <2>5. ASSUME NEW c \in Callers PROVE SerialInv'
      <3>1. phase[c] = "answered" /\ answer[c] # Refused =>
              /\ answer[c].access.serial <= issued'[answer[c].access.grant]
              /\ lock = c => row.access.serial < answer[c].access.serial
              /\ answer[c].refresh \in {NoToken, answer[c].access}
        <4>1. answer[c] # Refused => answer[c].access.grant \in Grants /\ answer[c].access.serial \in Nat
          BY AnswerFacts DEF IInv, TypeOK
        <4>2. issued' \in [Grants -> Nat] /\ issued \in [Grants -> Nat]
          BY <1>1 DEF IInv, TypeOK
        <4> QED
          BY <2>3, <4>1, <4>2 DEF SerialInv
      <3> QED
        BY <1>5, <2>2, <2>3, <3>1
    <2> QED
      BY <2>4, <2>5
  <1>8. ASSUME SerialStep PROVE SerialInv'
    BY <1>1, <1>8, SerialStepInv
  <1>9. \/ \E c \in Callers : Save(c) \/ TokenEndpoint(c)
        \/ \E m \in stray : StrayArrives(m)
        \/ \E k \in Reconnects : ReconnectWrite(k)
        \/ SerialStep
    BY SerialQuiet DEF Next, RunStep, RequestStep, ReconnectStep
  <1> QED
    BY <1>2, <1>3, <1>6, <1>7, <1>8, <1>9

LEMMA SerialInvariance == Spec => [](IInv /\ SerialInv)
  <1>1. Init => SerialInv
    BY ConstantsAssumption, TokenFacts DEF Init, SerialInv, Grants
  <1>2. SerialInv /\ IInv /\ [Next]_vars => SerialInv'
    BY SerialNext
  <1> QED
    BY <1>1, <1>2, Invariance, PTL DEF Spec

\* Whatever a run hands out was committed first: no caller goes on with a token
\* that only the memory of a process knows.
THEOREM CommittedBeforeUse == Spec => []NoCallerAhead
  <1>1. SerialInv => NoCallerAhead
    BY DEF SerialInv, NoCallerAhead
  <1> QED
    BY <1>1, SerialInvariance, PTL
----------------------------------------------------------------------------
(* TokenRefresh implements CredentialStore *)

Here == <<row, lock, Basis, Over>>

\* Steps that write nothing: the lock stays, with its holder's run as it was, is
\* given back, or is taken.
LockStep ==
    /\ row' = row
    /\ \/ lock' = NoOne
       \/ lock' = lock /\ \A c \in Callers : lock = c => phase'[c] = phase[c]
       \/ /\ lock = NoOne
          /\ lock' \in Callers \cup Reconnects
          /\ lock' \in Callers => phase'[lock'] = "locked"

LEMMA LockSteps ==
    ASSUME IInv,
           \/ \E c \in Callers :
                \/ CallerStep(c) \/ TakeLock(c) \/ TransactionTimeout(c)
                \/ ReadFails(c) \/ ReadRenewed(c) \/ ReadUnrenewable(c)
                \/ SaveFails(c) \/ RefusalArrives(c) \/ Announce(c)
                \/ TokenEndpointDown(c) \/ Abandon(c)
           \/ \E g \in Grants : Revoke(g)
           \/ \E k \in Reconnects : ReconnectBegin(k) \/ ReconnectLock(k)
           \/ \E i \in Instances : Crash(i)
           \/ UNCHANGED vars
    PROVE  LockStep
  <1> USE ConstantsAssumption DEF IInv, LockStep
  <1>1. ASSUME NEW c \in Callers, CallerStep(c) PROVE LockStep
    <2>1. row' = row /\ lock' = lock
      BY <1>1 DEF CallerStep, Begin, RenewEarly, Rejected, Succeed, Finish
    <2>2. lock # c
      BY <1>1 DEF CallerStep, Begin, RenewEarly, Rejected, Succeed, Finish, LockHeld,
                  RunsAreAwaited, Renewing
    <2>3. \A d \in Callers \ {c} : phase'[d] = phase[d]
      BY <1>1 DEF CallerStep, Begin, RenewEarly, Rejected, Succeed, Finish, RefreshCredential,
                  runVars, TypeOK
    <2> QED
      BY <2>1, <2>2, <2>3
  <1>2. ASSUME NEW c \in Callers, TakeLock(c) PROVE LockStep
    BY <1>2 DEF TakeLock, TypeOK
  <1>3. ASSUME NEW c \in Callers, NEW t \in TokenOrNone, Settle(c, t), phase[c] # "none", row' = row,
               Unlock(c) \/ (lock' = lock /\ lock # c)
        PROVE  LockStep
    <2>1. \A d \in Callers \ {c} : phase'[d] = phase[d]
      BY <1>3, SettleFrame
    <2> QED
      BY <1>3, <2>1 DEF Unlock
  <1>4. ASSUME NEW c \in Callers,
               ReadFails(c) \/ ReadRenewed(c) \/ SaveFails(c) \/ Announce(c) \/ Abandon(c)
        PROVE  LockStep
    <2>1. NoToken \in TokenOrNone /\ row.access \in TokenOrNone
      BY TokenFacts DEF TypeOK
    <2>2. phase[c] = "announce" => lock # c
      BY DEF LockHeld
    <2> QED
      BY <1>3, <1>4, <2>1, <2>2 DEF ReadFails, ReadRenewed, SaveFails, Announce, Abandon
  <1>5. ASSUME NEW c \in Callers, ReadUnrenewable(c) \/ RefusalArrives(c) \/ TokenEndpointDown(c)
        PROVE  LockStep
    <2>1. row' = row /\ Unlock(c) /\ \A d \in Callers \ {c} : phase'[d] = phase[d]
      BY <1>5 DEF ReadUnrenewable, RefusalArrives, TokenEndpointDown, Expire, TypeOK
    <2> QED
      BY <2>1 DEF Unlock
  <1>6. ASSUME NEW c \in Callers, TransactionTimeout(c) PROVE LockStep
    <2>1. CASE lock' = NoOne /\ UNCHANGED row
      BY <2>1
    <2>2. CASE phase[c] = "lock" /\ Settle(c, NoToken) /\ UNCHANGED <<row, lock>>
      BY <1>3, <2>2, TokenFacts DEF LockHeld
    <2> QED
      BY <1>6, <2>1, <2>2 DEF TransactionTimeout
  <1>7. ASSUME NEW g \in Grants, Revoke(g) PROVE LockStep
    BY <1>7 DEF Revoke, runVars
  <1>8. ASSUME NEW k \in Reconnects, ReconnectBegin(k) \/ ReconnectLock(k)
        PROVE  LockStep
    <2>1. row' = row /\ phase' = phase
      BY <1>8 DEF ReconnectBegin, ReconnectLock, runVars
    <2>2. lock' = lock \/ (lock = NoOne /\ lock' = k)
      BY <1>8 DEF ReconnectBegin, ReconnectLock
    <2> QED
      BY <2>1, <2>2
  <1>9. ASSUME NEW i \in Instances, Crash(i) PROVE LockStep
    <2>1. row' = row /\ phase' = [c \in Callers |-> IF Home[c] = i THEN "none" ELSE phase[c]]
      BY <1>9 DEF Crash
    <2>2. lock' = NoOne \/ (lock' = lock /\ \A c \in Callers : lock = c => Home[c] # i)
      BY <1>9 DEF Crash
    <2> QED
      BY <2>1, <2>2
  <1>10. CASE UNCHANGED vars
    BY <1>10 DEF vars, runVars
  <1> QED
    BY <1>1, <1>2, <1>4, <1>5, <1>6, <1>7, <1>8, <1>9, <1>10

\* Nobody but the reconnect itself ends its chance to write.
LEMMA OverStays ==
    ASSUME TypeOK, [Next]_vars,
           \A k \in Reconnects : ~ReconnectWrite(k) /\ ~ReconnectFails(k)
    PROVE  Over' = Over
  <1>1. ASSUME UNCHANGED reconnect PROVE Over' = Over
    BY <1>1 DEF Over
  <1>2. ASSUME NEW c \in Callers,
               \/ CallerStep(c) \/ TakeLock(c) \/ RunStep(c)
               \/ RequestStep(c) \/ TransactionTimeout(c)
        PROVE  UNCHANGED reconnect
    <2>1. CASE CallerStep(c)
      BY <2>1 DEF CallerStep, Begin, RenewEarly, Rejected, Succeed, Finish
    <2>2. CASE RunStep(c)
      BY <2>2 DEF RunStep, ReadFails, ReadRenewed, ReadUnrenewable, Present, Save, SaveFails,
                  RefusalArrives, Announce
    <2>3. CASE TakeLock(c) \/ RequestStep(c) \/ TransactionTimeout(c)
      BY <2>3 DEF TakeLock, RequestStep, TokenEndpoint, TokenEndpointDown, Abandon,
                  TransactionTimeout
    <2> QED
      BY <1>2, <2>1, <2>2, <2>3
  <1>3. ASSUME NEW k \in Reconnects, ReconnectBegin(k) \/ ReconnectLock(k) PROVE Over' = Over
    <2>1. /\ reconnect[k] # "done" /\ reconnect'[k] # "done"
          /\ \A j \in Reconnects \ {k} : reconnect'[j] = reconnect[j]
      BY <1>3 DEF ReconnectBegin, ReconnectLock, TypeOK
    <2> QED
      BY <2>1 DEF Over
  <1>4. ASSUME \/ \E m \in stray : StrayArrives(m)
               \/ \E g \in Grants : Revoke(g)
               \/ \E i \in Instances : Crash(i)
               \/ Disconnect
               \/ UNCHANGED vars
        PROVE  UNCHANGED reconnect
    BY <1>4 DEF StrayArrives, Revoke, Crash, Disconnect, vars
  <1> QED
    BY <1>1, <1>2, <1>3, <1>4 DEF Next, ReconnectStep

LEMMA LockStepRefines ==
    ASSUME IInv, QuietStep, LockStep, Over' = Over
    PROVE  [Store!Next]_Here
  <1> USE ConstantsAssumption DEF IInv, LockStep, Here
  <1>1. CASE lock' = NoOne
    <2>1. Basis' = [access |-> NoToken, refresh |-> NoToken]
      BY <1>1 DEF Basis
    <2>2. Store!LetGo
      BY <1>1, <2>1 DEF Store!LetGo, Store!NoBasis
    <2> QED
      BY <2>2 DEF Store!Next
  <1>2. CASE lock' = lock /\ \A c \in Callers : lock = c => phase'[c] = phase[c]
    <2>1. Basis' = Basis
      BY <1>2 DEF Basis, QuietStep, Carried
    <2> QED
      BY <1>2, <2>1
  <1>3. CASE /\ lock = NoOne
             /\ lock' \in Callers \cup Reconnects
             /\ lock' \in Callers => phase'[lock'] = "locked"
    <2>1. Basis' = Basis
      BY <1>3 DEF Basis
    <2>2. Store!Take(lock')
      BY <1>3, <2>1 DEF Store!Take
    <2> QED
      BY <1>3, <2>2 DEF Store!Next
  <1> QED
    BY <1>1, <1>2, <1>3

LEMMA InitRefines == Init => Store!Init
  <1> SUFFICES ASSUME Init PROVE Store!Init
    OBVIOUS
  <1>1. Basis = [access |-> NoToken, refresh |-> NoToken] /\ lock = NoOne /\ Over = {}
    BY ConstantsAssumption DEF Init, Basis, Over
  <1>2. row \in Store!Granted(FirstGrant)
    BY DEF Init, Store!Granted, Store!First, TokenAt
  <1> QED
    BY <1>1, <1>2 DEF Store!Init, Store!NoBasis

LEMMA NextRefines ==
    ASSUME IInv, IInv', SerialInv, [Next]_vars
    PROVE  [Store!Next]_Here
  <1> USE ConstantsAssumption, TokenFacts
  <1>1. ASSUME NEW c \in Callers, Present(c) PROVE Store!Read(c)
    <2>1. /\ row' = row /\ lock' = c /\ lock = c /\ token' = token /\ Over' = Over
          /\ row.exists /\ row.refresh # NoToken /\ row.access = token[c]
      BY <1>1 DEF Present, callerVars, Over
    <2>2. phase'[c] = "request" /\ presented'[c] = row.refresh
      BY <1>1 DEF Present, IInv, TypeOK
    <2>3. Basis' = [access |-> row.access, refresh |-> row.refresh]
      BY <2>1, <2>2 DEF Basis
    <2> QED
      BY <2>1, <2>3 DEF Store!Read, Store!Tokens
  <1>2. ASSUME NEW c \in Callers, TokenEndpoint(c) PROVE UNCHANGED Here
    <2>1. /\ row' = row /\ lock' = lock /\ token' = token /\ presented' = presented
          /\ Over' = Over /\ phase[c] = "request" /\ phase'[c] = "answered"
          /\ \A d \in Callers \ {c} : phase'[d] = phase[d]
      BY <1>2 DEF TokenEndpoint, callerVars, IInv, TypeOK, Over
    <2> QED
      BY <2>1 DEF Basis, Here
  <1>3. ASSUME NEW m \in stray, StrayArrives(m) PROVE UNCHANGED Here
    BY <1>3 DEF StrayArrives, callerVars, runVars, Basis, Over, Here
  <1>4. ASSUME NEW c \in Callers, Save(c) PROVE Store!Renew(c)
    <2>1. /\ phase[c] = "answered" /\ answer[c] # Refused /\ lock = c /\ row.exists
          /\ row' = [exists  |-> TRUE, access |-> answer[c].access,
                     refresh |-> IF answer[c].refresh # NoToken
                                 THEN answer[c].refresh ELSE row.refresh]
          /\ lock' = NoOne /\ Over' = Over
      BY <1>4 DEF Save, Unlock, Over
    <2>2. Basis = [access |-> row.access, refresh |-> row.refresh]
      BY <2>1 DEF Basis, IInv, RenewsStoredToken
    <2>3. Basis' = [access |-> NoToken, refresh |-> NoToken]
      BY <2>1 DEF Basis
    <2>4. /\ answer[c].access.grant = row.access.grant
          /\ row.access.serial < answer[c].access.serial
          /\ answer[c].refresh \in {NoToken, answer[c].access}
      BY <2>1 DEF IInv, AnswerContinues, RenewsStoredToken, RowGrant, SerialInv, TypeOK
    <2>5. row'.refresh \in {row.refresh, row'.access} /\ row'.access = answer[c].access /\ row'.exists
      BY <2>1, <2>4
    <2>6. row.access.serial \in Nat /\ answer[c].access.serial \in Nat
      BY <2>1, AnswerFacts DEF IInv, TypeOK
    <2> QED
      BY <2>1, <2>2, <2>3, <2>4, <2>5, <2>6 DEF Store!Renew, Store!Tokens, Store!NoBasis
  <1>5. ASSUME NEW k \in Reconnects, ReconnectWrite(k) PROVE Store!Replace(k)
    <2>1. lock = k /\ row.exists /\ k \notin Over
      BY <1>5 DEF ReconnectWrite, IInv, LockHeld, Over
    <2>2. lock' = NoOne
      BY <1>5, <2>1 DEF ReconnectWrite, Unlock
    <2>3. row' \in Store!Granted(k)
      BY <1>5 DEF ReconnectWrite, Store!Granted, Store!First, TokenAt
    <2>4. Basis' = Basis
      BY <2>1, <2>2 DEF Basis
    <2>5. Over' = Over \cup {k}
      BY <1>5 DEF ReconnectWrite, IInv, TypeOK, Over
    <2> QED
      BY <2>1, <2>2, <2>3, <2>4, <2>5 DEF Store!Replace
  <1>6. CASE Disconnect
    <2>1. Basis' = Basis /\ lock' = lock /\ Over' = Over
      BY <1>6 DEF Disconnect, callerVars, runVars, Basis, Over
    <2>2. Store!Delete
      BY <1>6, <2>1 DEF Disconnect, Store!Delete
    <2> QED
      BY <2>2 DEF Store!Next
  <1>7. ASSUME NEW k \in Reconnects, ReconnectFails(k) PROVE Store!GiveUp(k)
    <2>1. row' = row /\ phase' = phase /\ token' = token /\ presented' = presented
      BY <1>7 DEF ReconnectFails, callerVars, runVars
    <2>2. lock' = IF lock = k THEN NoOne ELSE lock
      BY <1>7 DEF ReconnectFails, Unlock
    <2>3. Basis' = Basis
      BY <2>1, <2>2 DEF Basis
    <2>4. k \notin Over /\ Over' = Over \cup {k}
      BY <1>7 DEF ReconnectFails, IInv, TypeOK, Over
    <2> QED
      BY <2>1, <2>2, <2>3, <2>4 DEF Store!GiveUp
  <1>8. ASSUME QuietStep, LockStep, \A k \in Reconnects : ~ReconnectWrite(k) /\ ~ReconnectFails(k)
        PROVE  [Store!Next]_Here
    BY <1>8, OverStays, LockStepRefines DEF IInv
  <1>9. \/ \E c \in Callers : Present(c) \/ Save(c) \/ TokenEndpoint(c)
        \/ \E m \in stray : StrayArrives(m)
        \/ \E k \in Reconnects : ReconnectWrite(k) \/ ReconnectFails(k)
        \/ Disconnect
        \/ QuietStep /\ LockStep
    <2>1. TypeOK'
      BY DEF IInv
    <2> QED
      BY <2>1, QuietActions, LockSteps DEF Next, RunStep, RequestStep, ReconnectStep
  <1> QED
    BY <1>1, <1>2, <1>3, <1>4, <1>5, <1>6, <1>7, <1>8, <1>9 DEF Store!Next

\* Lock, re-read, time limits and crashes and all, the server implements a
\* credential written under a lease and never overwritten unseen.
THEOREM RefreshImplementsStore == Spec => ImplementsStore
  <1>1. IInv /\ SerialInv /\ [Next]_vars /\ IInv' => [Store!Next]_Store!store
    BY NextRefines DEF Here, Store!store
  <1> QED
    BY <1>1, InitRefines, SerialInvariance, PTL DEF Spec, ImplementsStore, Store!Spec

(***************************************************************************)
(* What the abstraction says, read off in the terms of the server: from    *)
(* here on only Store!Next is expanded, never an action of TokenRefresh.   *)
(***************************************************************************)

\* Grants the row has held, or will never hold: each has had its chance.
PastGrants == Over \cup {FirstGrant}

\* Token t was written before the row's, and replaced.
Replaced(t) ==
    /\ t.grant \in PastGrants
    /\ t.grant = row.access.grant => t.serial < row.access.serial

StoredOrReplaced(t) ==
    /\ row.access = t \/ Replaced(t)
    /\ row.access.grant \in PastGrants

LEMMA ReplacedForGood ==
    ASSUME TypeOK, TypeOK', [Store!Next]_Here, NEW t \in Token
    PROVE  /\ row.access.grant \in PastGrants => row'.access.grant \in PastGrants'
           /\ Replaced(t) => Replaced(t)'
           /\ StoredOrReplaced(t) => StoredOrReplaced(t)'
  <1> USE ConstantsAssumption, TokenFacts DEF PastGrants, Replaced, StoredOrReplaced
  <1>1. /\ row.access \in Token /\ row'.access \in Token
        /\ row.access.serial \in Nat /\ row'.access.serial \in Nat /\ t.serial \in Nat
    BY DEF TypeOK
  <1>2. CASE row'.access = row.access /\ Over \subseteq Over'
    BY <1>1, <1>2
  <1>3. ASSUME NEW c \in Callers, Store!Renew(c)
        PROVE  /\ row'.access.grant = row.access.grant
               /\ row.access.serial < row'.access.serial
               /\ Over' = Over
    BY <1>1, <1>3 DEF Store!Renew
  <1>4. ASSUME NEW k \in Reconnects, Store!Replace(k)
        PROVE  /\ k \notin Over /\ k # FirstGrant
               /\ row'.access.grant = k
               /\ Over' = Over \cup {k}
    BY <1>4 DEF Store!Replace, Store!Granted, Store!First
  <1>5. \/ row'.access = row.access /\ Over \subseteq Over'
        \/ \E c \in Callers : Store!Renew(c)
        \/ \E k \in Reconnects : Store!Replace(k)
    BY DEF Here, Store!Next, Store!Take, Store!LetGo, Store!Read, Store!GiveUp, Store!Delete, TypeOK
  <1>6. ASSUME NEW c \in Callers, Store!Renew(c)
        PROVE  /\ row.access.grant \in PastGrants => row'.access.grant \in PastGrants'
               /\ Replaced(t) => Replaced(t)'
               /\ StoredOrReplaced(t) => StoredOrReplaced(t)'
    BY <1>1, <1>3, <1>6
  <1>7. ASSUME NEW k \in Reconnects, Store!Replace(k)
        PROVE  /\ row.access.grant \in PastGrants => row'.access.grant \in PastGrants'
               /\ Replaced(t) => Replaced(t)'
               /\ StoredOrReplaced(t) => StoredOrReplaced(t)'
    BY <1>1, <1>4, <1>7
  <1> QED
    BY <1>2, <1>5, <1>6, <1>7

\* A renewal that lost the race, woke up late or answered twice cannot undo a
\* newer one (token-refresh.ts:28-30), and a run of an old grant cannot undo a
\* reconnect (273-278): an access token, once replaced in the row, is never
\* stored again, whatever times out or crashes.
THEOREM ReplacedTokenNeverReturns ==
    ASSUME NEW t \in Token
    PROVE  Spec => [](row.access = t => [](row.access # t => [](row.access # t)))
  <1>1. Init => row.access.grant \in PastGrants
    <2> SUFFICES ASSUME Init PROVE row.access.grant \in PastGrants
      OBVIOUS
    <2>1. row.access = TokenAt(FirstGrant, 0)
      BY DEF Init
    <2> QED
      BY <2>1, TokenFacts DEF PastGrants, Grants
  <1>2. IInv /\ IInv' /\ SerialInv /\ [Next]_vars =>
          /\ row.access.grant \in PastGrants => (row.access.grant \in PastGrants)'
          /\ Replaced(t) => Replaced(t)'
          /\ StoredOrReplaced(t) => StoredOrReplaced(t)'
    BY NextRefines, ReplacedForGood DEF IInv
  <1>3. Spec => [](row.access.grant \in PastGrants)
    BY <1>1, <1>2, SerialInvariance, PTL DEF Spec
  <1>4. row.access = t /\ row.access.grant \in PastGrants => StoredOrReplaced(t)
    BY DEF StoredOrReplaced
  <1>5. StoredOrReplaced(t) /\ row.access # t => Replaced(t)
    BY DEF StoredOrReplaced
  <1>6. TypeOK /\ Replaced(t) => row.access # t
    BY TokenFacts DEF Replaced, TypeOK
  <1> QED
    BY <1>2, <1>3, <1>4, <1>5, <1>6, SerialInvariance, TypeCorrect, PTL DEF Spec
----------------------------------------------------------------------------
(* Nobody is stranded: the safety half of RenewalSettles *)

\* The map holds the one run of its instance, and whoever renews awaits it.
WaitInv ==
    /\ \A i \in Instances :
         inFlight[i] # NoOne => Home[inFlight[i]] = i /\ phase[inFlight[i]] # "none"
    /\ \A c \in Callers : phase[c] # "none" => inFlight[Home[c]] = c
    /\ \A c \in Callers :
         pc[c] \in Renewing => awaiting[c] # NoOne /\ awaiting[c] = inFlight[Home[c]]

\* The holder of the lock, if anybody, is at work: its next step waits for
\* nobody else's.
LockMoves ==
    \/ lock = NoOne
    \/ \E e \in Callers : lock = e /\ phase[e] \in {"locked", "request", "answered"}
    \/ \E k \in Reconnects : lock = k /\ reconnect[k] = "locked"

NobodyStranded ==
    \A c \in Callers :
        pc[c] \in Renewing =>
            \E d \in Callers :
                /\ awaiting[c] = d /\ awaiting[d] = d
                /\ Home[d] = Home[c] /\ inFlight[Home[c]] = d
                /\ \/ phase[d] \in {"locked", "request", "answered", "announce"}
                   \/ phase[d] = "lock" /\ LockMoves

\* No step moves a run or a promise but those of the callers' own.
RunsStay == UNCHANGED <<inFlight, pc, awaiting>> /\
            \A c \in Callers : phase'[c] = "none" <=> phase[c] = "none"

LEMMA WaitNext ==
    ASSUME IInv, WaitInv, [Next]_vars
    PROVE  WaitInv'
  <1> USE ConstantsAssumption DEF IInv, TypeOK
  <1>1. ASSUME RunsStay PROVE WaitInv'
    BY <1>1 DEF RunsStay, WaitInv
  <1>2. ASSUME NEW c \in Callers, RenewEarly(c) \/ Rejected(c) PROVE WaitInv'
    <2>1. pc[c] \notin Renewing /\ phase[c] = "none" /\ RefreshCredential(c)
      BY <1>2 DEF RenewEarly, Rejected, Renewing, RunsAreAwaited
    <2>2. pc'[c] \in Renewing /\ \A d \in Callers \ {c} : pc'[d] = pc[d]
      BY <1>2 DEF RenewEarly, Rejected, Renewing
    <2>3. CASE inFlight[Home[c]] # NoOne
      BY <2>1, <2>2, <2>3 DEF RefreshCredential, WaitInv
    <2>4. CASE inFlight[Home[c]] = NoOne
      <3>1. \A d \in Callers : Home[d] = Home[c] => pc[d] \notin Renewing /\ phase[d] = "none"
        BY <2>4 DEF WaitInv
      <3> QED
        BY <2>1, <2>2, <2>4, <3>1 DEF RefreshCredential, WaitInv
    <2> QED
      BY <2>3, <2>4
  <1>3. ASSUME NEW c \in Callers, Begin(c) \/ Succeed(c) \/ Finish(c) PROVE WaitInv'
    <2>1. /\ pc'[c] \notin Renewing /\ \A d \in Callers \ {c} : pc'[d] = pc[d]
          /\ UNCHANGED <<inFlight, awaiting, phase>>
      BY <1>3 DEF Begin, Succeed, Finish, Renewing, runVars
    <2> QED
      BY <2>1 DEF WaitInv
  <1>4. ASSUME NEW c \in Callers, NEW t \in TokenOrNone, phase[c] # "none", Settle(c, t) PROVE WaitInv'
    <2>1. inFlight[Home[c]] = c
      BY <1>4 DEF WaitInv
    <2>2. inFlight' = [inFlight EXCEPT ![Home[c]] = NoOne]
          /\ phase'[c] = "none" /\ \A d \in Callers \ {c} : phase'[d] = phase[d]
      BY <1>4 DEF Settle
    <2>3. \A d \in Callers :
            /\ awaiting[d] = c => pc'[d] \notin Renewing
            /\ awaiting[d] # c => pc'[d] = pc[d] /\ awaiting'[d] = awaiting[d]
      BY <1>4 DEF Settle, Renewing
    <2>4. \A d \in Callers \ {c} : phase[d] # "none" => Home[d] # Home[c]
      BY <2>1 DEF WaitInv
    <2>5. \A d \in Callers : pc[d] \in Renewing /\ awaiting[d] # c => Home[d] # Home[c]
      BY <2>1 DEF WaitInv
    <2> QED
      BY <2>2, <2>3, <2>4, <2>5 DEF WaitInv
  <1>5. ASSUME NEW c \in Callers,
               \/ ReadFails(c) \/ ReadRenewed(c) \/ Save(c) \/ SaveFails(c) \/ Announce(c) \/ Abandon(c)
               \/ TransactionTimeout(c) /\ phase[c] = "lock"
        PROVE  WaitInv'
    <2>1. phase[c] # "none" /\ \E t \in TokenOrNone : Settle(c, t)
      <3>1. NoToken \in TokenOrNone /\ row.access \in TokenOrNone
            /\ (answer[c] # Refused => answer[c].access \in TokenOrNone)
        BY TokenFacts, AnswerFacts
      <3> QED
        BY <1>5, <3>1 DEF ReadFails, ReadRenewed, Save, SaveFails, Announce, Abandon, TransactionTimeout
    <2> QED
      BY <1>4, <2>1
  <1>6. ASSUME NEW c \in Callers,
               \/ TakeLock(c) \/ ReadUnrenewable(c) \/ Present(c) \/ RefusalArrives(c)
               \/ TokenEndpoint(c) \/ TokenEndpointDown(c)
               \/ TransactionTimeout(c) /\ phase[c] # "lock"
        PROVE  RunsStay
    BY <1>6 DEF TakeLock, ReadUnrenewable, Present, RefusalArrives, TokenEndpoint, TokenEndpointDown,
                TransactionTimeout, Expire, RunsStay, callerVars, runVars
  <1>7. ASSUME NEW i \in Instances, Crash(i) PROVE WaitInv'
    <2>1. \A d \in Callers :
            /\ Home[d] = i => pc'[d] = "idle" /\ phase'[d] = "none"
            /\ Home[d] # i => pc'[d] = pc[d] /\ phase'[d] = phase[d] /\ awaiting'[d] = awaiting[d]
      BY <1>7 DEF Crash
    <2>2. inFlight' = [inFlight EXCEPT ![i] = NoOne]
      BY <1>7 DEF Crash
    <2> QED
      BY <2>1, <2>2 DEF WaitInv, Renewing
  <1>8. ASSUME \/ \E m \in stray : StrayArrives(m)
               \/ \E g \in Grants : Revoke(g)
               \/ \E k \in Reconnects : ReconnectBegin(k) \/ ReconnectStep(k)
               \/ Disconnect
               \/ UNCHANGED vars
        PROVE  RunsStay
    BY <1>8 DEF StrayArrives, Revoke, ReconnectBegin, ReconnectStep, ReconnectLock, ReconnectWrite,
                ReconnectFails, Disconnect, vars, RunsStay, callerVars, runVars
  <1> QED
    BY <1>1, <1>2, <1>3, <1>5, <1>6, <1>7, <1>8 DEF Next, CallerStep, RunStep, RequestStep

LEMMA WaitInvariance == Spec => [](IInv /\ WaitInv)
  <1>1. Init => WaitInv
    BY ConstantsAssumption DEF Init, WaitInv, Renewing
  <1> QED
    BY <1>1, WaitNext, Invariance, PTL DEF Spec

\* Nobody waits for a promise whose run is over (token-refresh.ts:86-96, 95):
\* whoever renews awaits the one run of its own instance, which is in the map,
\* at work, or waiting for a lock that is free or whose holder is at work.
\* Every wait ends at a step that waits for nothing, so with the steps the
\* server is bound to take there is no deadlock to wait in.
THEOREM NoRenewalStranded == Spec => []NobodyStranded
  <1>1. ASSUME IInv, WaitInv PROVE NobodyStranded
    <2> SUFFICES ASSUME NEW c \in Callers, pc[c] \in Renewing
                 PROVE  \E d \in Callers :
                          /\ awaiting[c] = d /\ awaiting[d] = d
                          /\ Home[d] = Home[c] /\ inFlight[Home[c]] = d
                          /\ \/ phase[d] \in {"locked", "request", "answered", "announce"}
                             \/ phase[d] = "lock" /\ LockMoves
      BY DEF NobodyStranded
    <2>1. PICK d \in Callers : awaiting[c] = d /\ inFlight[Home[c]] = d
      BY <1>1 DEF WaitInv, IInv, TypeOK
    <2>2. Home[d] = Home[c] /\ phase[d] # "none"
      BY <1>1, <2>1, ConstantsAssumption DEF WaitInv
    <2>3. awaiting[d] = d /\ phase[d] \in Phase
      BY <1>1, <2>2 DEF IInv, RunsAreAwaited, TypeOK
    <2>4. LockMoves
      BY <1>1 DEF IInv, TypeOK, LockHeld, LockMoves
    <2> QED
      BY <2>1, <2>2, <2>3, <2>4 DEF Phase
  <1> QED
    BY <1>1, WaitInvariance, PTL
----------------------------------------------------------------------------
(* What the violated ReplayIsFresh takes *)

\* Whoever joins a run was refused with the token the run is for.
JoinersShareToken ==
    \A c \in Callers : awaiting[c] # NoOne => token[c] = token[awaiting[c]]

\* Only a run that settles moves a caller on from its rejection.
LEMMA ReplayTakesSettle ==
    ASSUME TypeOK, [Next]_vars, NEW c \in Callers, pc[c] = "renew401", pc'[c] = "replay"
    PROVE  \E d \in Callers, t \in TokenOrNone :
             /\ Settle(d, t)
             /\ \/ t = NoToken
                \/ ReadRenewed(d) /\ t = row.access
                \/ Save(d) /\ t = answer[d].access
  <1> USE ConstantsAssumption, TokenFacts, AnswerFacts DEF TypeOK
  <1>1. ASSUME NEW d \in Callers, CallerStep(d) PROVE pc'[c] # "replay"
    <2>1. \E v \in PC \ {"replay"} : pc' = [pc EXCEPT ![d] = v]
      BY <1>1 DEF CallerStep, Begin, RenewEarly, Rejected, Succeed, Finish, PC
    <2> QED
      BY <2>1
  <1>2. ASSUME NEW d \in Callers,
               \/ TakeLock(d) \/ ReadUnrenewable(d) \/ Present(d) \/ RefusalArrives(d)
               \/ TokenEndpoint(d) \/ TokenEndpointDown(d)
               \/ TransactionTimeout(d) /\ phase[d] # "lock"
        PROVE  pc' = pc
    BY <1>2 DEF TakeLock, ReadUnrenewable, Present, RefusalArrives, TokenEndpoint, TokenEndpointDown,
                TransactionTimeout, callerVars
  <1>3. ASSUME NEW d \in Callers,
               \/ ReadFails(d) \/ SaveFails(d) \/ Announce(d) \/ Abandon(d)
               \/ TransactionTimeout(d) /\ phase[d] = "lock"
        PROVE  Settle(d, NoToken)
    BY <1>3 DEF ReadFails, SaveFails, Announce, Abandon, TransactionTimeout
  <1>4. ASSUME NEW d \in Callers, ReadRenewed(d) PROVE Settle(d, row.access) /\ row.access \in TokenOrNone
    BY <1>4 DEF ReadRenewed
  <1>5. ASSUME NEW d \in Callers, Save(d)
        PROVE  Settle(d, answer[d].access) /\ answer[d].access \in TokenOrNone
    BY <1>5 DEF Save
  <1>6. ASSUME NEW i \in Instances, Crash(i) PROVE pc'[c] \in {pc[c], "idle"}
    BY <1>6 DEF Crash
  <1>7. ASSUME \/ \E m \in stray : StrayArrives(m)
               \/ \E g \in Grants : Revoke(g)
               \/ \E k \in Reconnects : ReconnectBegin(k) \/ ReconnectStep(k)
               \/ Disconnect
               \/ UNCHANGED vars
        PROVE  pc' = pc
    BY <1>7 DEF StrayArrives, Revoke, ReconnectBegin, ReconnectStep, ReconnectLock, ReconnectWrite,
                ReconnectFails, Disconnect, vars, callerVars
  <1> QED
    BY <1>1, <1>2, <1>3, <1>4, <1>5, <1>6, <1>7 DEF Next, RunStep, RequestStep, Renewing

LEMMA RunReturnsAnother ==
    ASSUME IInv, SerialInv, [Next]_vars,
           NEW c \in Callers, pc[c] = "renew401", pc'[c] = "replay"
    PROVE  awaiting[c] \in Callers /\ token'[c] # token[awaiting[c]]
  <1> USE ConstantsAssumption, TokenFacts, AnswerFacts DEF IInv, TypeOK
  <1>1. PICK d \in Callers, t \in TokenOrNone :
             /\ Settle(d, t)
             /\ \/ t = NoToken
                \/ ReadRenewed(d) /\ t = row.access
                \/ Save(d) /\ t = answer[d].access
    BY ReplayTakesSettle
  <1>2. awaiting[c] = d /\ t # NoToken /\ token'[c] = t
    BY <1>1 DEF Settle
  <1>3. CASE ReadRenewed(d) /\ t = row.access
    BY <1>2, <1>3 DEF ReadRenewed
  <1>4. CASE Save(d) /\ t = answer[d].access
    <2>1. row.access = token[d] /\ row.access.serial < answer[d].access.serial
          /\ row.access.serial \in Nat /\ answer[d].access.serial \in Nat
      BY <1>4 DEF Save, RenewsStoredToken, SerialInv
    <2> QED
      BY <1>2, <1>4, <2>1
  <1> QED
    BY <1>1, <1>2, <1>3, <1>4

\* "the credential is refreshed once and the exact same call is replayed with
\* the new token" (BaseProvider.ts:115-116) holds for the caller whose run it
\* is, whatever else goes on: it never replays with the token it was refused.
THEOREM OwnRunRenews ==
    Spec => [][\A c \in Callers :
                 awaiting[c] = c /\ pc[c] = "renew401" /\ pc'[c] = "replay" =>
                    token'[c] # token[c]]_vars
  <1>1. IInv /\ SerialInv /\ [Next]_vars =>
          [\A c \in Callers :
             awaiting[c] = c /\ pc[c] = "renew401" /\ pc'[c] = "replay" => token'[c] # token[c]]_vars
    BY RunReturnsAnother
  <1> QED
    BY <1>1, SerialInvariance, PTL DEF Spec

\* And it holds for everybody as long as nobody joins a run that is for another
\* token than the one it was refused with: inFlight, which is keyed by the
\* credential alone (token-refresh.ts:86-96), is the one way to break it.
THEOREM ReplayIsFreshForLikeTokens == Spec /\ []JoinersShareToken => ReplayIsFresh
  <1>1. IInv /\ SerialInv /\ JoinersShareToken /\ [Next]_vars =>
          [\A c \in Callers : pc[c] = "renew401" /\ pc'[c] = "replay" => token'[c] # token[c]]_vars
    <2> SUFFICES ASSUME IInv, SerialInv, JoinersShareToken, [Next]_vars,
                        NEW c \in Callers, pc[c] = "renew401", pc'[c] = "replay"
                 PROVE  token'[c] # token[c]
      OBVIOUS
    <2>1. awaiting[c] \in Callers /\ token'[c] # token[awaiting[c]]
      BY RunReturnsAnother
    <2> QED
      BY <2>1, ConstantsAssumption DEF JoinersShareToken
  <1> QED
    BY <1>1, SerialInvariance, PTL DEF Spec, ReplayIsFresh
----------------------------------------------------------------------------
(* The exemption of `lost` is earned *)

\* Without a fault every run past the lock is still in its transaction, and a
\* grant is lost only to a later one: an exchange that revoked the older ones.
LossInv ==
    faults = 0 =>
        /\ row.exists
        /\ \A c \in Callers : phase[c] \in {"locked", "request", "answered"} => lock = c
        /\ \A g \in lost : \E k \in Reconnects : k # g /\ reconnect[k] # "idle"

LEMMA LossNext ==
    ASSUME IInv, TypeOK', LossInv, [Next]_vars
    PROVE  LossInv'
  <1> SUFFICES ASSUME faults' = 0 PROVE LossInv'
    BY DEF LossInv
  <1> USE ConstantsAssumption, TokenFacts, AnswerFacts DEF IInv, TypeOK
  <1>1. ASSUME faults = 0, row'.exists = row.exists, UNCHANGED lost,
               \A k \in Reconnects : reconnect[k] # "idle" => reconnect'[k] # "idle",
               \A c \in Callers :
                  phase'[c] \in {"locked", "request", "answered"} =>
                     \/ lock' = c
                     \/ phase[c] \in {"locked", "request", "answered"} /\ (lock = c => lock' = c)
        PROVE  LossInv'
    BY <1>1 DEF LossInv
  <1>2. ASSUME NEW c \in Callers, CallerStep(c) PROVE LossInv'
    <2>1. UNCHANGED <<row, lock, lost, faults, reconnect>>
      BY <1>2 DEF CallerStep, Begin, RenewEarly, Rejected, Succeed, Finish
    <2>2. \A d \in Callers : phase'[d] = phase[d] \/ phase'[d] = "lock"
      BY <1>2 DEF CallerStep, Begin, RenewEarly, Rejected, Succeed, Finish, RefreshCredential, runVars
    <2> QED
      BY <1>1, <2>1, <2>2
  <1>3. ASSUME NEW c \in Callers, TakeLock(c) \/ Present(c) \/ TokenEndpoint(c) PROVE LossInv'
    <2>1. UNCHANGED <<row, lost, faults, reconnect>>
      BY <1>3 DEF TakeLock, Present, TokenEndpoint
    <2>2. CASE TakeLock(c)
      <3>1. \A d \in Callers \ {c} : phase'[d] \notin {"locked", "request", "answered"}
        BY <2>1, <2>2 DEF TakeLock, LossInv
      <3> QED
        BY <1>1, <2>1, <2>2, <3>1 DEF TakeLock
    <2>3. CASE Present(c) \/ TokenEndpoint(c)
      BY <1>1, <2>1, <2>3 DEF Present, TokenEndpoint
    <2> QED
      BY <1>3, <2>2, <2>3
  <1>4. ASSUME NEW c \in Callers, faults = 0, Unlock(c),
               \A d \in Callers \ {c} : phase'[d] = phase[d],
               phase'[c] \in {"none", "announce"},
               row'.exists = row.exists, UNCHANGED <<lost, reconnect>>
        PROVE  LossInv'
    BY <1>1, <1>4 DEF Unlock
  <1>5. ASSUME NEW c \in Callers, NEW t \in TokenOrNone, phase[c] # "none", Settle(c, t)
        PROVE  phase'[c] = "none" /\ \A d \in Callers \ {c} : phase'[d] = phase[d]
    BY <1>5, SettleFrame
  <1>6. ASSUME NEW c \in Callers, ReadFails(c) \/ ReadRenewed(c) \/ Save(c) PROVE LossInv'
    <2>1. /\ UNCHANGED <<lost, reconnect, faults>> /\ row'.exists = row.exists /\ Unlock(c)
          /\ phase[c] # "none" /\ \E t \in TokenOrNone : Settle(c, t)
      BY <1>6 DEF ReadFails, ReadRenewed, Save
    <2> QED
      BY <1>4, <1>5, <2>1
  <1>7. ASSUME NEW c \in Callers, ReadUnrenewable(c) \/ RefusalArrives(c) \/ TokenEndpointDown(c)
        PROVE  LossInv'
    <2>1. /\ UNCHANGED <<lost, reconnect, faults, row>> /\ Unlock(c)
          /\ phase'[c] = "announce" /\ \A d \in Callers \ {c} : phase'[d] = phase[d]
      BY <1>7 DEF ReadUnrenewable, RefusalArrives, TokenEndpointDown, Expire
    <2> QED
      BY <1>4, <2>1
  <1>8. ASSUME NEW c \in Callers, Announce(c) PROVE LossInv'
    <2>1. /\ UNCHANGED <<lost, reconnect, faults, row, lock>>
          /\ phase'[c] = "none" /\ \A d \in Callers \ {c} : phase'[d] = phase[d]
      BY <1>5, <1>8 DEF Announce
    <2> QED
      BY <1>1, <2>1
  <1>9. ASSUME Fault PROVE FALSE
    BY <1>9 DEF Fault
  <1>10. ASSUME NEW c \in Callers, SaveFails(c) PROVE FALSE
    <2>1. faults = 0 /\ ~(lock = c /\ row.exists) /\ phase[c] = "answered"
      BY <1>9, <1>10 DEF SaveFails
    <2> QED
      BY <2>1 DEF LossInv
  <1>11. ASSUME NEW c \in Callers, Abandon(c) \/ TransactionTimeout(c) PROVE FALSE
    BY <1>9, <1>11 DEF Abandon, TransactionTimeout
  <1>12. ASSUME \/ \E g \in Grants : Revoke(g)
                \/ \E i \in Instances : Crash(i)
                \/ Disconnect
         PROVE  FALSE
    BY <1>9, <1>12 DEF Revoke, Crash, Disconnect
  <1>13. ASSUME NEW k \in Reconnects, ReconnectBegin(k) PROVE LossInv'
    <2>1. /\ UNCHANGED <<row, lock, phase, faults>>
          /\ reconnect' = [reconnect EXCEPT ![k] = "waiting"] /\ reconnect[k] = "idle"
      BY <1>13 DEF ReconnectBegin, runVars
    <2>2. lost' \subseteq lost \cup {FirstGrant} \cup {j \in Reconnects : reconnect[j] # "idle"}
      BY <1>13 DEF ReconnectBegin
    <2>3. \A g \in lost' \ lost : k # g
      BY <2>1, <2>2
    <2> QED
      BY <2>1, <2>3 DEF LossInv
  <1>14. ASSUME NEW k \in Reconnects, ReconnectLock(k) \/ ReconnectWrite(k) \/ ReconnectFails(k)
         PROVE  LossInv'
    <2>1. ~ReconnectFails(k)
      <3>1. ASSUME ReconnectFails(k) PROVE faults = 0 /\ ~row.exists
        BY <1>9, <3>1 DEF ReconnectFails
      <3> QED
        BY <3>1 DEF LossInv
    <2>2. /\ UNCHANGED <<lost, phase, faults>> /\ row'.exists = row.exists
          /\ \A j \in Reconnects : reconnect[j] # "idle" => reconnect'[j] # "idle"
      BY <1>14, <2>1 DEF ReconnectLock, ReconnectWrite, runVars
    <2>3. \A d \in Callers : lock = d => lock' = d
      BY <1>14, <2>1 DEF ReconnectLock, ReconnectWrite, Unlock, LockHeld
    <2> QED
      BY <1>1, <2>2, <2>3
  <1>15. ASSUME (\E m \in stray : StrayArrives(m)) \/ UNCHANGED vars PROVE LossInv'
    <2>1. UNCHANGED <<row, lock, phase, lost, faults, reconnect>>
      BY <1>15 DEF StrayArrives, vars, runVars
    <2> QED
      BY <1>1, <2>1
  <1> QED
    BY <1>2, <1>3, <1>6, <1>7, <1>8, <1>10, <1>11, <1>12, <1>13, <1>14, <1>15
    DEF Next, RunStep, RequestStep, ReconnectStep

LEMMA LossInvariance == Spec => [](IInv /\ LossInv)
  <1>1. Init => LossInv
    BY DEF Init, LossInv
  <1>2. IInv /\ IInv' /\ LossInv /\ [Next]_vars => LossInv'
    BY LossNext DEF IInv
  <1> QED
    BY <1>1, <1>2, Invariance, PTL DEF Spec

Undisturbed == faults = 0 /\ \A k \in Reconnects : reconnect[k] = "idle"

\* The exceptions of SpentOnce and HealthyNeverRefused are never used for
\* nothing.  Until a fault or a reconnect, however many instances and callers
\* race, no refresh token is spent twice and no renewal is refused: the
\* promise of token-refresh.ts:16-30 without an exemption.
THEOREM RaceAloneLosesNothing ==
    Spec => [](Undisturbed =>
                 \A c \in Callers :
                    /\ phase[c] = "request" => Accepts(presented[c])
                    /\ phase[c] = "answered" => answer[c] # Refused)
  <1>1. LossInv /\ Undisturbed => lost = {}
    BY DEF LossInv, Undisturbed
  <1>2. IInv /\ LossInv /\ Undisturbed =>
          \A c \in Callers :
             /\ phase[c] = "request" => Accepts(presented[c])
             /\ phase[c] = "answered" => answer[c] # Refused
    BY <1>1 DEF IInv, SpentOnce, HealthyNeverRefused
  <1> QED
    BY <1>2, LossInvariance, PTL

\* Without a fault, a grant is lost only to the reconnect of another one, whose
\* exchange may revoke the older grants (token-refresh.ts:273-278).
THEOREM LossTakesFaultOrLaterGrant ==
    Spec => [](faults = 0 =>
                 \A g \in lost : \E k \in Reconnects : k # g /\ reconnect[k] # "idle")
  <1>1. LossInv => (faults = 0 => \A g \in lost : \E k \in Reconnects : k # g /\ reconnect[k] # "idle")
    BY DEF LossInv
  <1> QED
    BY <1>1, LossInvariance, PTL
=============================================================================
