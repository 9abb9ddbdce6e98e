------------------------------- MODULE Connect -------------------------------
(***************************************************************************)
(* Connecting accounts of one client: the OAuth callback (app/api/oauth/   *)
(* callback), the hosted connect page (app/actions/connect.ts,             *)
(* lib/connect-session.ts) and the console's form                          *)
(* (app/actions/linked-account.ts).                                        *)
(*                                                                         *)
(* Requests are HTTP requests and server actions on any number of          *)
(* instances.  They meet in four tables: connect sessions, OAuth states,   *)
(* linked accounts and credentials.  Every statement of the code that      *)
(* touches a table is a step of its own, so what a request has read may be *)
(* out of date when it writes.                                             *)
(***************************************************************************)
EXTENDS Naturals

CONSTANTS Requests,       \* requests under way at the same time
          Sessions,       \* connect links
          Flows,          \* rows of OAuthState, one per authorization begun
          OAuthServices,  \* providers with an OAuth manifest
          KeyServices,    \* providers that take static credentials
          MaxAccounts,    \* bound: accounts ever created
          MaxFaults,      \* bound: failed statements and crashes
          None

Services == OAuthServices \cup KeyServices
Accounts == 1..MaxAccounts

ASSUME ConstantsAssumption ==
    /\ OAuthServices \cap KeyServices = {}
    /\ MaxAccounts \in Nat
    /\ MaxFaults \in Nat
    /\ None \notin Sessions \cup Flows \cup Services \cup Accounts

VARIABLES
    session,    \* per connect link: "none", "open" or "expired"
    pin,        \* per connect link: the one service it is for, None any
    result,     \* per connect link: its linkedAccountId; set with usedAt
    flow,       \* per OAuth state: [status, session, service]
    accounts,   \* linked accounts that exist
    about,      \* per account: its service, and who made it for which link
    credential, \* per account: its rows in OAuthCredential
    created,    \* accounts created so far
    request,    \* per request: where it stands and what it has read
    \* history
    announced,  \* accounts whose connection.connected was emitted
    passed,     \* per OAuth state: callbacks that burned it
    metFlows,   \* states that two callbacks had read as unused at once
    metServices,\* services for which two callbacks had found no account at once
    metAccounts,\* accounts on which two callbacks had found no credential at once
    dropped,    \* accounts whose request failed or died half way
    faults

tables == <<session, pin, result, flow, accounts, about, credential, created>>
met == <<metFlows, metServices, metAccounts>>
history == <<announced, passed, met, dropped>>
vars == <<tables, request, history, faults>>

PC == {"idle", "burn", "exchange", "create", "persist", "insert", "replace",
       "submit", "claim", "delete", "announce", "complete"}

Request == [pc : PC, session : Sessions \cup {None}, service : Services \cup {None},
            flow : Flows \cup {None}, account : Accounts \cup {None}]

Idle == [pc |-> "idle", session |-> None, service |-> None, flow |-> None, account |-> None]

Flow == [status : {"none", "open", "expired", "consumed"},
         session : Sessions \cup {None}, service : Services \cup {None}]

About == [service : Services \cup {None}, by : {"callback", "form", "console", "nobody"},
          session : Sessions \cup {None}]

Init ==
    /\ session = [s \in Sessions |-> "none"]
    /\ pin = [s \in Sessions |-> None]
    /\ result = [s \in Sessions |-> None]
    /\ flow = [x \in Flows |-> [status |-> "none", session |-> None, service |-> None]]
    /\ accounts = {}
    /\ about = [a \in Accounts |-> [service |-> None, by |-> "nobody", session |-> None]]
    /\ credential = [a \in Accounts |-> 0]
    /\ created = 0
    /\ request = [r \in Requests |-> Idle]
    /\ announced = {}
    /\ passed = [x \in Flows |-> 0]
    /\ metFlows = {}
    /\ metServices = {}
    /\ metAccounts = {}
    /\ dropped = {}
    /\ faults = 0

\* Request r goes on at pc, with account a in hand.
Goes(r, pc, a) == request' = [request EXCEPT ![r].pc = pc, ![r].account = a]
Ends(r) == request' = [request EXCEPT ![r] = Idle]

\* Another request stands where r stands, with the same value of a field.
Meets(r, field) ==
    \E q \in Requests \ {r} :
        request[q].pc = request[r].pc /\ request[q][field] = request[r][field]

----------------------------------------------------------------------------
(* Connect links and OAuth states *)

\* The console or the admin API makes a link, for one service or for any.
CreateConnectSession(s) ==
    /\ session[s] = "none"
    /\ session' = [session EXCEPT ![s] = "open"]
    /\ \E v \in Services \cup {None} : pin' = [pin EXCEPT ![s] = v]
    /\ UNCHANGED <<result, flow, accounts, about, credential, created, request, history, faults>>

\* Thirty minutes later.
SessionExpires(s) ==
    /\ session[s] = "open"
    /\ session' = [session EXCEPT ![s] = "expired"]
    /\ UNCHANGED <<pin, result, flow, accounts, about, credential, created, request, history, faults>>

\* resolveConnectSession: the link is neither used nor expired.
Resolves(s) == session[s] = "open" /\ result[s] = None

\* Seeded fault: the link's service is not compared.
OffersAny(s, v) == Resolves(s)

\* A session pinned to one service may not be talked into another one.
Offers(s, v) == Resolves(s) /\ pin[s] \in {v, None}

\* An authorization begins, from the console (s is None) or from a link.
BeginOAuthFlow(x, s, v) ==
    /\ flow[x].status = "none"
    /\ s # None => Offers(s, v)
    /\ flow' = [flow EXCEPT ![x] = [status |-> "open", session |-> s, service |-> v]]
    /\ UNCHANGED <<session, pin, result, accounts, about, credential, created, request, history, faults>>

FlowExpires(x) ==
    /\ flow[x].status = "open"
    /\ flow' = [flow EXCEPT ![x].status = "expired"]
    /\ UNCHANGED <<session, pin, result, accounts, about, credential, created, request, history, faults>>

----------------------------------------------------------------------------
(* The OAuth callback *)

\* Seeded fault: a state that was used before is accepted.
ReadUsedState(r, x) ==
    /\ request[r] = Idle
    /\ flow[x].status \in {"open", "consumed"}
    /\ request' = [request EXCEPT ![r] =
          [pc |-> "burn", session |-> flow[x].session, service |-> flow[x].service,
           flow |-> x, account |-> None]]
    /\ UNCHANGED <<tables, history, faults>>

\* consumeOAuthState reads the state: unused, not expired, of this provider.
ReadState(r, x) ==
    /\ request[r] = Idle
    /\ flow[x].status = "open"
    /\ request' = [request EXCEPT ![r] =
          [pc |-> "burn", session |-> flow[x].session, service |-> flow[x].service,
           flow |-> x, account |-> None]]
    /\ UNCHANGED <<tables, history, faults>>

\* ... and marks it used, without looking again.
BurnState(r) ==
    LET x == request[r].flow
    IN  /\ request[r].pc = "burn"
        /\ flow' = [flow EXCEPT ![x].status = "consumed"]
        /\ passed' = [passed EXCEPT ![x] = @ + 1]
        /\ metFlows' = IF Meets(r, "flow") THEN metFlows \cup {x} ELSE metFlows
        /\ Goes(r, "exchange", None)
        /\ UNCHANGED <<session, pin, result, accounts, about, credential, created,
                       announced, metServices, metAccounts, dropped, faults>>

\* The provider refuses the code (a code buys tokens once; a person may be sent
\* back to the same authorization and return with another).
ExchangeFails(r) ==
    /\ request[r].pc = "exchange"
    /\ Ends(r)
    /\ UNCHANGED <<tables, history, faults>>

\* Seeded fault: an account that has no credential is not found.
FindConnectedAccount(r) ==
    LET found == {a \in accounts : about[a].service = request[r].service /\ credential[a] > 0}
    IN  /\ request[r].pc = "exchange"
        /\ IF found = {} THEN Goes(r, "create", None)
           ELSE \E a \in found : Goes(r, "persist", a)
        /\ UNCHANGED <<tables, history, faults>>

\* The code is exchanged, and any account of the client and service looked up.
FindAccount(r) ==
    LET found == {a \in accounts : about[a].service = request[r].service}
    IN  /\ request[r].pc = "exchange"
        /\ IF found = {} THEN Goes(r, "create", None)
           ELSE \E a \in found : Goes(r, "persist", a)
        /\ UNCHANGED <<tables, history, faults>>

\* A new account, with n credentials; its maker goes on at pc.
NewAccount(r, by, s, v, n) ==
    /\ created < MaxAccounts
    /\ created' = created + 1
    /\ accounts' = accounts \cup {created + 1}
    /\ about' = [about EXCEPT ![created + 1] = [service |-> v, by |-> by, session |-> s]]
    /\ credential' = [credential EXCEPT ![created + 1] = n]

CreateAccount(r) ==
    LET v == request[r].service
    IN  /\ request[r].pc = "create"
        /\ NewAccount(r, "callback", request[r].session, v, 0)
        /\ metServices' = IF Meets(r, "service") THEN metServices \cup {v} ELSE metServices
        /\ Goes(r, "persist", created + 1)
        /\ UNCHANGED <<session, pin, result, flow, announced, passed, metFlows, metAccounts, dropped, faults>>

\* Seeded fault: every connection stores a credential row of its own.
AlwaysInsert(r) ==
    /\ request[r].pc = "persist"
    /\ Goes(r, "insert", request[r].account)
    /\ UNCHANGED <<tables, history, faults>>

\* persistNewCredential looks for the account's credential.
FindCredential(r) ==
    LET a == request[r].account
    IN  /\ request[r].pc = "persist"
        /\ Goes(r, IF a \in accounts /\ credential[a] > 0 THEN "replace" ELSE "insert", a)
        /\ UNCHANGED <<tables, history, faults>>

\* ... and inserts one: "Nothing to race with".
InsertCredential(r) ==
    LET a == request[r].account
    IN  /\ request[r].pc = "insert"
        /\ a \in accounts
        /\ credential' = [credential EXCEPT ![a] = @ + 1]
        /\ metAccounts' = IF Meets(r, "account") THEN metAccounts \cup {a} ELSE metAccounts
        /\ Goes(r, "announce", a)
        /\ UNCHANGED <<session, pin, result, flow, accounts, about, created,
                       announced, passed, metFlows, metServices, dropped, faults>>

\* ... or writes over it, under the lock that TokenRefresh models.
ReplaceCredential(r) ==
    /\ request[r].pc = "replace"
    /\ request[r].account \in accounts
    /\ Goes(r, "announce", request[r].account)
    /\ UNCHANGED <<tables, history, faults>>

\* The account was removed meanwhile: the write fails, and the callback with it.
PersistFails(r) ==
    /\ request[r].pc \in {"insert", "replace"}
    /\ request[r].account \notin accounts
    /\ Ends(r)
    /\ UNCHANGED <<tables, history, faults>>

----------------------------------------------------------------------------
(* Forms *)

\* submitConnectCredentials resolves the link and reads the form.
SubmitConnectCredentials(r, s, v) ==
    /\ request[r] = Idle
    /\ Offers(s, v)
    /\ request' = [request EXCEPT ![r] =
          [pc |-> "submit", session |-> s, service |-> v, flow |-> None, account |-> None]]
    /\ UNCHANGED <<tables, history, faults>>

\* ... creates the account and its credential in one statement
CreateForSession(r) ==
    /\ request[r].pc = "submit"
    /\ NewAccount(r, "form", request[r].session, request[r].service, 1)
    /\ Goes(r, "claim", created + 1)
    /\ UNCHANGED <<session, pin, result, flow, history, faults>>

\* completeConnectSession: conditional on the link being unused.
CompleteConnectSession(s, a) ==
    result' = IF result[s] = None THEN [result EXCEPT ![s] = a] ELSE result

\* Seeded fault: a claim that lost counts as one that won.
ClaimUnchecked(r) ==
    LET s == request[r].session
        a == request[r].account
    IN  /\ request[r].pc = "claim"
        /\ CompleteConnectSession(s, a)
        /\ Goes(r, "announce", a)
        /\ UNCHANGED <<session, pin, flow, accounts, about, credential, created, history, faults>>

\* Seeded fault: an account that lost its claim is left where it is.
ClaimWithoutCleanup(r) ==
    LET s == request[r].session
        a == request[r].account
    IN  /\ request[r].pc = "claim"
        /\ CompleteConnectSession(s, a)
        /\ IF result[s] = None THEN Goes(r, "announce", a) ELSE Ends(r)
        /\ UNCHANGED <<session, pin, flow, accounts, about, credential, created, history, faults>>

\* ... burns the link before anything is announced
Claim(r) ==
    LET s == request[r].session
        a == request[r].account
    IN  /\ request[r].pc = "claim"
        /\ CompleteConnectSession(s, a)
        /\ Goes(r, IF result[s] = None THEN "announce" ELSE "delete", a)
        /\ UNCHANGED <<session, pin, flow, accounts, about, credential, created, history, faults>>

\* ... and removes the account again if another tab was first.
DeleteLoser(r) ==
    /\ request[r].pc = "delete"
    /\ accounts' = accounts \ {request[r].account}
    /\ Ends(r)
    /\ UNCHANGED <<session, pin, result, flow, about, credential, created, history, faults>>

\* The console's form, for any service.
ConnectErpAccount(r, v) ==
    /\ request[r] = Idle
    /\ NewAccount(r, "console", None, v, 1)
    /\ request' = [request EXCEPT ![r] =
          [pc |-> "announce", session |-> None, service |-> v, flow |-> None, account |-> created + 1]]
    /\ UNCHANGED <<session, pin, result, flow, history, faults>>

----------------------------------------------------------------------------
(* What all of them end with, and what can go wrong *)

\* Seeded fault: a callback that announced its connection forgets its link.
AnnounceOnly(r) ==
    /\ request[r].pc = "announce"
    /\ announced' = announced \cup (accounts \cap {request[r].account})
    /\ Ends(r)
    /\ UNCHANGED <<tables, passed, met, dropped, faults>>

\* Seeded fault: every callback completes a link, begun from one or not.
AnnounceAndComplete(r) ==
    /\ request[r].pc = "announce"
    /\ announced' = announced \cup (accounts \cap {request[r].account})
    /\ IF request[r].flow # None THEN Goes(r, "complete", request[r].account) ELSE Ends(r)
    /\ UNCHANGED <<tables, passed, met, dropped, faults>>

\* emitConnectionEvent: nothing is emitted of an account that is gone.  Only a
\* callback has a link left to complete.
Announce(r) ==
    /\ request[r].pc = "announce"
    /\ announced' = announced \cup (accounts \cap {request[r].account})
    /\ IF request[r].flow # None /\ request[r].session # None
       THEN Goes(r, "complete", request[r].account) ELSE Ends(r)
    /\ UNCHANGED <<tables, passed, met, dropped, faults>>

\* Won or lost, the callback redirects to the hosted page.
Complete(r) ==
    /\ request[r].pc = "complete"
    /\ CompleteConnectSession(request[r].session, request[r].account)
    /\ Ends(r)
    /\ UNCHANGED <<session, pin, flow, accounts, about, credential, created, history, faults>>

\* A statement fails, or the instance dies, before the request's next step.
Fail(r) ==
    /\ faults < MaxFaults
    /\ faults' = faults + 1
    /\ request[r] # Idle
    /\ dropped' = dropped \cup ({request[r].account} \ {None})
    /\ Ends(r)
    /\ UNCHANGED <<tables, announced, passed, met>>

\* An owner removes the connection (its announcement is in Webhooks).
Remove(a) ==
    /\ a \in accounts
    /\ accounts' = accounts \ {a}
    /\ UNCHANGED <<session, pin, result, flow, about, credential, created, request, history, faults>>

----------------------------------------------------------------------------
RequestStep(r) ==
    \/ BurnState(r) \/ ExchangeFails(r) \/ FindAccount(r) \/ CreateAccount(r)
    \/ FindCredential(r) \/ InsertCredential(r) \/ ReplaceCredential(r) \/ PersistFails(r)
    \/ CreateForSession(r) \/ Claim(r) \/ DeleteLoser(r)
    \/ Announce(r) \/ Complete(r)

Next ==
    \/ \E s \in Sessions : CreateConnectSession(s) \/ SessionExpires(s)
    \/ \E x \in Flows, s \in Sessions \cup {None}, v \in OAuthServices : BeginOAuthFlow(x, s, v)
    \/ \E x \in Flows : FlowExpires(x)
    \/ \E r \in Requests :
         \/ \E x \in Flows : ReadState(r, x)
         \/ \E s \in Sessions, v \in KeyServices : SubmitConnectCredentials(r, s, v)
         \/ \E v \in Services : ConnectErpAccount(r, v)
         \/ RequestStep(r) \/ Fail(r)
    \/ \E a \in Accounts : Remove(a)

Spec == Init /\ [][Next]_vars

----------------------------------------------------------------------------
(* Properties *)

\* The values of the four tables, of the requests and of the history.
TypeOK ==
    /\ session \in [Sessions -> {"none", "open", "expired"}]
    /\ pin \in [Sessions -> Services \cup {None}]
    /\ result \in [Sessions -> Accounts \cup {None}]
    /\ flow \in [Flows -> Flow]
    /\ \A x \in Flows : flow[x].status = "open" => flow[x].service \in OAuthServices
    /\ accounts \subseteq 1..created
    /\ about \in [Accounts -> About]
    /\ credential \in [Accounts -> Nat]
    /\ created \in 0..MaxAccounts
    /\ request \in [Requests -> Request]
    /\ \A r \in Requests :
         /\ request[r].pc \in {"burn", "exchange", "create"} => request[r].flow \in Flows
         /\ request[r].pc \in {"burn", "exchange", "create", "submit"} => request[r].service \in Services
         /\ request[r].pc \in {"persist", "insert", "replace", "claim", "delete", "announce", "complete"} =>
                request[r].account \in 1..created
         /\ request[r].pc \in {"submit", "claim", "delete", "complete"} => request[r].session \in Sessions
    /\ announced \subseteq Accounts
    /\ passed \in [Flows -> Nat]
    /\ metFlows \subseteq Flows
    /\ metServices \subseteq Services
    /\ metAccounts \subseteq Accounts
    /\ dropped \subseteq Accounts
    /\ faults \in Nat

\* oauth.ts:114, "single use": a state passes a second callback only if two had
\* read it before either marked it used.  No replay in sequence does.
ReplayTakesOverlap ==
    \A x \in Flows : passed[x] > 1 => x \in metFlows

\* route.ts:70-74 looks up, then creates, and no unique key stands behind it: two
\* accounts made by callbacks for one service take two callbacks that both had
\* found none.  A callback that failed, or was repeated, never leaves a second.
DuplicateTakesOverlap ==
    \A a, b \in accounts :
        /\ a # b
        /\ about[a].by = "callback"
        /\ about[b].by = "callback"
        /\ about[a].service = about[b].service
        => about[a].service \in metServices

\* token-refresh.ts:312-314, "Nothing to race with": a second credential row of
\* one account (of which renewals and reconnects would lock different ones)
\* takes two first connections of it at the same time.
SecondCredentialTakesOverlap ==
    \A a \in Accounts : credential[a] > 1 => a \in metAccounts

\* connect.ts:72-74: an account made by the hosted form and not claimed by its
\* link does not stay, unless the request died or failed on the way.
LoserLeavesNothing ==
    \A a \in accounts :
        about[a].by = "form" =>
            \/ result[about[a].session] = a
            \/ a \in dropped
            \/ \E r \in Requests : request[r].account = a /\ request[r].pc \in {"claim", "delete"}

\* A subscriber that hears connection.connected of an account that is still
\* there finds a credential behind it, and the hosted form announces only what
\* its link was burned for (connect.ts:72).
AnnouncedIsConnected ==
    \A a \in announced \cap accounts :
        /\ credential[a] > 0
        /\ about[a].by = "form" => result[about[a].session] = a

\* A used link names an account of the service it was made for, which got a
\* credential, and of which subscribers have heard or are about to hear.
ResultWasConnected ==
    \A s \in Sessions :
        LET a == result[s]
        IN  a # None =>
              /\ credential[a] > 0
              /\ pin[s] \in {about[a].service, None}
              /\ \/ a \notin accounts
                 \/ a \in announced
                 \/ a \in dropped
                 \/ \E r \in Requests : request[r].account = a /\ request[r].pc = "announce"

\* The product hears back (connect-session.ts:18-20): a request that has stored
\* the customer's credential under a link does not end, short of a fault,
\* without the link being used.
StoredLinkIsUsed ==
    [][\A r \in Requests :
         LET s == request[r].session
         IN  /\ request[r].pc \in {"announce", "complete"}
             /\ s # None
             /\ request'[r] = Idle
             => result'[s] # None \/ faults' > faults]_vars
=============================================================================
