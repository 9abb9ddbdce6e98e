--------------------------- MODULE ConnectProofs ---------------------------
(***************************************************************************)
(* What Connect promises, for any number of requests, links, states and    *)
(* accounts, and any number of faults.  Rows only grow (Growth): an account*)
(* keeps what it is about, a used link its account, a made link its pin.   *)
(* So what a request knows of rows it holds on to (Knows) is true until it *)
(* ends, and the tables fit together (Tables).                             *)
(***************************************************************************)
EXTENDS Connect, TLAPS

----------------------------------------------------------------------------
(* Types *)

\* What a request holds, and that going on keeps the rest of it.
LEMMA RequestType ==
    ASSUME TypeOK, NEW r \in Requests
    PROVE  /\ request[r] \in Request
           /\ request[r].session \in Sessions \cup {None}
           /\ request[r].service \in Services \cup {None}
           /\ request[r].flow \in Flows \cup {None}
           /\ request[r].account \in Accounts \cup {None}
  BY DEF TypeOK, Request

LEMMA IdleType ==
    /\ Idle \in Request
    /\ Idle.pc = "idle" /\ Idle.session = None /\ Idle.service = None
    /\ Idle.flow = None /\ Idle.account = None
  BY DEF Idle, Request, PC

LEMMA EndsEffect ==
    ASSUME TypeOK, NEW r \in Requests, Ends(r)
    PROVE  /\ request' \in [Requests -> Request]
           /\ request'[r] = Idle
           /\ \A q \in Requests : q # r => request'[q] = request[q]
  BY IdleType DEF TypeOK, Ends

LEMMA GoesEffect ==
    ASSUME TypeOK, NEW r \in Requests, NEW pc \in PC, NEW a \in Accounts \cup {None}, Goes(r, pc, a)
    PROVE  /\ request' \in [Requests -> Request]
           /\ request'[r].pc = pc /\ request'[r].account = a
           /\ request'[r].session = request[r].session
           /\ request'[r].service = request[r].service
           /\ request'[r].flow = request[r].flow
           /\ \A q \in Requests : q # r => request'[q] = request[q]
  <1>1. request[r] \in Request
    BY RequestType
  <1> DEFINE half == [request[r] EXCEPT !.pc = pc]
             next == [half EXCEPT !.account = a]
  <1>2. /\ half \in Request /\ half.pc = pc
        /\ half.session = request[r].session /\ half.service = request[r].service
        /\ half.flow = request[r].flow
    BY <1>1 DEF Request
  <1>3. request' = [request EXCEPT ![r] = next]
    BY DEF Goes, TypeOK
  <1> HIDE DEF half
  <1>4. /\ next \in Request /\ next.pc = pc /\ next.account = a
        /\ next.session = request[r].session /\ next.service = request[r].service
        /\ next.flow = request[r].flow
    BY <1>2 DEF Request
  <1> HIDE DEF next
  <1> QED
    BY <1>3, <1>4 DEF TypeOK

\* What TypeOK asks of a request when n accounts were created.
Stands(q, n) ==
    /\ q.pc \in {"burn", "exchange", "create"} => q.flow \in Flows
    /\ q.pc \in {"burn", "exchange", "create", "submit"} => q.service \in Services
    /\ q.pc \in {"persist", "insert", "replace", "claim", "delete", "announce", "complete"} =>
           q.account \in 1..n
    /\ q.pc \in {"submit", "claim", "delete", "complete"} => q.session \in Sessions

\* One request moves, and accounts are only ever created.
LEMMA StandingType ==
    ASSUME TypeOK, NEW r \in Requests, request' \in [Requests -> Request],
           \A q \in Requests : q # r => request'[q] = request[q],
           created' \in 0..MaxAccounts, created <= created',
           Stands(request[r]', created')
    PROVE  \A q \in Requests : Stands(request[q]', created')
  <1> SUFFICES ASSUME NEW q \in Requests, q # r PROVE Stands(request[q]', created')
    OBVIOUS
  <1>1. request[q]' = request[q] /\ Stands(request[q], created)
    BY DEF TypeOK, Stands
  <1>2. created \in Nat /\ created' \in Nat /\ 1..created \subseteq 1..created'
    BY ConstantsAssumption DEF TypeOK
  <1> QED
    BY <1>1, <1>2 DEF Stands

\* A new account is a number not used before.
LEMMA NewAccountEffect ==
    ASSUME TypeOK, NEW by \in {"callback", "form", "console"}, NEW s \in Sessions \cup {None},
           NEW v \in Services, NEW n \in Nat, NEW r, NewAccount(r, by, s, v, n)
    PROVE  /\ created' = created + 1 /\ created' \in 1..MaxAccounts /\ created + 1 \in Accounts
           /\ created + 1 \notin accounts /\ created + 1 \in 1..created'
           /\ 1..created \subseteq 1..created'
           /\ accounts' = accounts \cup {created + 1} /\ accounts' \subseteq 1..created'
           /\ about' \in [Accounts -> About]
           /\ about'[created + 1] = [service |-> v, by |-> by, session |-> s]
           /\ \A a \in Accounts : a # created + 1 => about'[a] = about[a]
           /\ credential' \in [Accounts -> Nat]
           /\ credential'[created + 1] = n
           /\ \A a \in Accounts : a # created + 1 => credential'[a] = credential[a]
           /\ \A a \in 1..created : a \in Accounts /\ a # created + 1
  <1>1. created \in Nat /\ MaxAccounts \in Nat /\ created + 1 \in Accounts /\ created < MaxAccounts
    BY ConstantsAssumption DEF TypeOK, NewAccount, Accounts
  <1>2. [service |-> v, by |-> by, session |-> s] \in About
    BY DEF About
  <1>3. /\ created' = created + 1 /\ accounts' = accounts \cup {created + 1}
        /\ about' = [about EXCEPT ![created + 1] = [service |-> v, by |-> by, session |-> s]]
        /\ credential' = [credential EXCEPT ![created + 1] = n]
        /\ accounts \subseteq 1..created /\ about \in [Accounts -> About]
        /\ credential \in [Accounts -> Nat]
    BY DEF NewAccount, TypeOK
  <1>4. \A a \in 1..created : a \in Accounts /\ a # created + 1
    BY <1>1 DEF Accounts
  <1>5. /\ created' \in 1..MaxAccounts /\ created + 1 \notin accounts /\ created + 1 \in 1..created'
        /\ 1..created \subseteq 1..created' /\ accounts' \subseteq 1..created'
    BY <1>1, <1>3
  <1> QED
    BY <1>1, <1>2, <1>3, <1>4, <1>5

\* The variables besides the requests.
Fits ==
    /\ session \in [Sessions -> {"none", "open", "expired"}]
    /\ pin \in [Sessions -> Services \cup {None}]
    /\ result \in [Sessions -> Accounts \cup {None}]
    /\ flow \in [Flows -> Flow]
    /\ \A x \in Flows : flow[x].status = "open" => flow[x].service \in OAuthServices
    /\ accounts \subseteq 1..created
    /\ about \in [Accounts -> About]
    /\ credential \in [Accounts -> Nat]
    /\ created \in 0..MaxAccounts
    /\ announced \subseteq Accounts
    /\ passed \in [Flows -> Nat]
    /\ metFlows \subseteq Flows
    /\ metServices \subseteq Services
    /\ metAccounts \subseteq Accounts
    /\ dropped \subseteq Accounts
    /\ faults \in Nat

LEMMA TypeParts ==
    TypeOK <=> /\ Fits
               /\ request \in [Requests -> Request]
               /\ \A q \in Requests : Stands(request[q], created)
  BY DEF TypeOK, Fits, Stands

LEMMA TypePartsNext ==
    ASSUME Fits', request' \in [Requests -> Request], \A q \in Requests : Stands(request[q]', created')
    PROVE  TypeOK'
  BY DEF TypeOK, Fits, Stands

\* A step of one request keeps the types if the tables and its own record fit.
LEMMA TypeOfMove ==
    ASSUME TypeOK, NEW r \in Requests, request' \in [Requests -> Request],
           \A q \in Requests : q # r => request'[q] = request[q],
           created <= created', Fits', Stands(request'[r], created')
    PROVE  TypeOK'
  <1>1. created' \in 0..MaxAccounts
    BY DEF Fits
  <1>2. \A q \in Requests : Stands(request[q]', created')
    BY <1>1, StandingType
  <1> QED
    BY <1>2, TypePartsNext

\* A step of no request.
LEMMA TypeOfOther ==
    ASSUME TypeOK, UNCHANGED <<request, created>>, Fits'
    PROVE  TypeOK'
  BY DEF TypeOK, Fits

LEMMA TypeInit == Init => TypeOK
  <1> SUFFICES ASSUME Init PROVE TypeOK
    OBVIOUS
  <1>1. flow \in [Flows -> Flow] /\ about \in [Accounts -> About]
    BY DEF Init, Flow, About
  <1>2. request \in [Requests -> Request] /\ \A q \in Requests : Stands(request[q], created)
    BY IdleType DEF Init, Stands
  <1>3. created \in 0..MaxAccounts /\ accounts \subseteq 1..created
    BY ConstantsAssumption DEF Init
  <1>4. Fits
    BY <1>1, <1>3 DEF Init, Fits
  <1> QED
    BY <1>2, <1>4, TypeParts

LEMMA TypeStep == TypeOK /\ [Next]_vars => TypeOK'
  <1> SUFFICES ASSUME TypeOK, [Next]_vars PROVE TypeOK'
    OBVIOUS
  <1>a. created \in Nat /\ created <= created /\ Accounts = 1..MaxAccounts /\ MaxAccounts \in Nat
        /\ 1..created \subseteq Accounts
    BY ConstantsAssumption DEF TypeOK, Accounts
  <1>b. Fits
    BY TypeParts
  <1>1. ASSUME NEW s \in Sessions, CreateConnectSession(s) \/ SessionExpires(s) PROVE TypeOK'
    <2>1. Fits'
      BY <1>1, <1>b DEF CreateConnectSession, SessionExpires, Fits, history, met
    <2> QED
      BY <1>1, <2>1, TypeOfOther DEF CreateConnectSession, SessionExpires
  <1>2. ASSUME NEW x \in Flows, NEW s \in Sessions \cup {None}, NEW v \in OAuthServices,
               BeginOAuthFlow(x, s, v)
        PROVE TypeOK'
    <2>1. [status |-> "open", session |-> s, service |-> v] \in Flow
      BY DEF Flow, Services
    <2>2. Fits'
      BY <1>2, <1>b, <2>1 DEF BeginOAuthFlow, Fits, history, met
    <2> QED
      BY <1>2, <2>2, TypeOfOther DEF BeginOAuthFlow
  <1>3. ASSUME NEW x \in Flows, FlowExpires(x) PROVE TypeOK'
    <2> DEFINE over == [flow[x] EXCEPT !.status = "expired"]
    <2>1. flow[x] \in Flow
      BY DEF TypeOK
    <2>2. over \in Flow /\ over.status = "expired"
      BY <2>1 DEF Flow
    <2>3. flow' = [flow EXCEPT ![x] = over] /\ UNCHANGED <<created, request>>
      BY <1>3 DEF FlowExpires
    <2>4. /\ UNCHANGED <<session, pin, result, accounts, about, credential, announced, passed,
                         metFlows, metServices, metAccounts, dropped, faults>>
      BY <1>3 DEF FlowExpires, history, met
    <2> HIDE DEF over
    <2>5. /\ flow' \in [Flows -> Flow]
          /\ \A y \in Flows : flow'[y].status = "open" => flow'[y].service \in OAuthServices
      BY <2>2, <2>3 DEF TypeOK
    <2>6. Fits'
      BY <1>b, <2>3, <2>4, <2>5 DEF Fits
    <2> QED
      BY <2>3, <2>6, TypeOfOther
  <1>4. ASSUME NEW a \in Accounts, Remove(a) PROVE TypeOK'
    <2>1. Fits'
      BY <1>4, <1>b DEF Remove, Fits, history, met
    <2> QED
      BY <1>4, <2>1, TypeOfOther DEF Remove
  <1>c. \A r \in Requests : request[r] \in Request /\ Stands(request[r], created)
    BY TypeParts, RequestType
  <1>5. ASSUME NEW r \in Requests, NEW x \in Flows, ReadState(r, x) PROVE TypeOK'
    <2> DEFINE q == [pc |-> "burn", session |-> flow[x].session, service |-> flow[x].service,
                     flow |-> x, account |-> None]
    <2>1. flow[x] \in Flow /\ flow[x].service \in Services /\ flow[x].session \in Sessions \cup {None}
      BY <1>5 DEF TypeOK, Flow, Services, ReadState
    <2>2. q \in Request /\ Stands(q, created)
      BY <2>1 DEF Request, PC, Stands
    <2>3. request' = [request EXCEPT ![r] = q] /\ Fits' /\ created' = created
      BY <1>5, <1>b DEF ReadState, Fits, tables, history, met
    <2> HIDE DEF q
    <2> QED
      BY <2>2, <2>3, <1>a, TypeOfMove DEF TypeOK
  <1>6. ASSUME NEW r \in Requests, NEW s \in Sessions, NEW v \in KeyServices,
               SubmitConnectCredentials(r, s, v)
        PROVE TypeOK'
    <2> DEFINE q == [pc |-> "submit", session |-> s, service |-> v, flow |-> None, account |-> None]
    <2>1. q \in Request /\ Stands(q, created)
      BY DEF Request, PC, Stands, Services
    <2>2. request' = [request EXCEPT ![r] = q] /\ Fits' /\ created' = created
      BY <1>6, <1>b DEF SubmitConnectCredentials, Fits, tables, history, met
    <2> HIDE DEF q
    <2> QED
      BY <2>1, <2>2, <1>a, TypeOfMove DEF TypeOK
  <1>7. ASSUME NEW r \in Requests, NEW v \in Services, ConnectErpAccount(r, v) PROVE TypeOK'
    <2> DEFINE q == [pc |-> "announce", session |-> None, service |-> v, flow |-> None,
                     account |-> created + 1]
    <2>1. NewAccount(r, "console", None, v, 1)
      BY <1>7 DEF ConnectErpAccount
    <2>2. /\ created' = created + 1 /\ created' \in 1..MaxAccounts /\ created + 1 \in Accounts
          /\ created + 1 \in 1..created' /\ accounts' \subseteq 1..created'
          /\ about' \in [Accounts -> About] /\ credential' \in [Accounts -> Nat]
      BY <2>1, NewAccountEffect
    <2>3. q \in Request /\ Stands(q, created')
      BY <2>2 DEF Request, PC, Stands
    <2>4. request' = [request EXCEPT ![r] = q] /\ Fits'
      BY <1>7, <1>b, <2>2, <1>a DEF ConnectErpAccount, Fits, history, met
    <2> HIDE DEF q
    <2>5. /\ request' \in [Requests -> Request] /\ request'[r] = q
          /\ \A p \in Requests : p # r => request'[p] = request[p]
      BY <2>3, <2>4 DEF TypeOK
    <2>6. created <= created'
      BY <2>2, <1>a
    <2> QED
      BY <2>3, <2>4, <2>5, <2>6, TypeOfMove
  <1>8. ASSUME NEW r \in Requests, ExchangeFails(r) \/ PersistFails(r) \/ Fail(r) PROVE TypeOK'
    <2>1. Ends(r) /\ created' = created
      BY <1>8 DEF ExchangeFails, PersistFails, Fail, tables
    <2>2. CASE ExchangeFails(r) \/ PersistFails(r)
      <3>1. Fits'
        BY <2>2, <1>b DEF ExchangeFails, PersistFails, Fits, tables, history, met
      <3> QED
        BY <3>1, <2>1, <1>a, EndsEffect, TypeOfMove, IdleType DEF Stands
    <2>3. CASE Fail(r)
      <3>1. request[r].account \in Accounts \cup {None} /\ faults + 1 \in Nat
        BY RequestType DEF TypeOK
      <3>2. Fits'
        BY <2>3, <3>1, <1>b DEF Fail, Fits, tables, met
      <3> QED
        BY <3>2, <2>1, <1>a, EndsEffect, TypeOfMove, IdleType DEF Stands
    <2> QED
      BY <1>8, <2>2, <2>3
  <1>9. ASSUME NEW r \in Requests, BurnState(r) PROVE TypeOK'
    <2> DEFINE x == request[r].flow
    <2>1. x \in Flows /\ request[r].service \in Services
      BY <1>9, <1>c DEF BurnState, Stands
    <2>2. flow[x] \in Flow /\ [flow[x] EXCEPT !.status = "consumed"] \in Flow
          /\ [flow[x] EXCEPT !.status = "consumed"].status = "consumed"
      BY <2>1 DEF TypeOK, Flow
    <2>3. /\ flow' = [flow EXCEPT ![x] = [flow[x] EXCEPT !.status = "consumed"]]
          /\ passed' = [passed EXCEPT ![x] = passed[x] + 1]
          /\ metFlows' \subseteq metFlows \cup {x}
          /\ Goes(r, "exchange", None) /\ created' = created
          /\ UNCHANGED <<session, pin, result, accounts, about, credential,
                         announced, metServices, metAccounts, dropped, faults>>
      BY <1>9 DEF BurnState, TypeOK
    <2> DEFINE burnt == [flow[x] EXCEPT !.status = "consumed"]
    <2> HIDE DEF burnt
    <2>4. flow' \in [Flows -> Flow] /\ flow'[x].status = "consumed"
          /\ \A y \in Flows : y # x => flow'[y] = flow[y]
      BY <2>1, <2>2, <2>3 DEF TypeOK, burnt
    <2>5. \A y \in Flows : flow'[y].status = "open" => flow'[y].service \in OAuthServices
      BY <2>4 DEF TypeOK
    <2>6. passed' \in [Flows -> Nat] /\ metFlows' \subseteq Flows
      BY <2>1, <2>3 DEF TypeOK
    <2>7. Fits'
      BY <1>b, <2>3, <2>4, <2>5, <2>6 DEF Fits
    <2>8. /\ request' \in [Requests -> Request] /\ request'[r].pc = "exchange"
          /\ request'[r].flow = request[r].flow /\ request'[r].service = request[r].service
          /\ \A p \in Requests : p # r => request'[p] = request[p]
      BY <2>3, GoesEffect DEF PC
    <2>9. Stands(request'[r], created')
      BY <2>1, <2>8 DEF Stands
    <2> QED
      BY <2>3, <2>7, <2>8, <2>9, <1>a, TypeOfMove
  <1>10. ASSUME NEW r \in Requests, FindAccount(r) PROVE TypeOK'
    <2>1. Fits' /\ created' = created
      BY <1>10, <1>b DEF FindAccount, Fits, tables, history, met
    <2>2. request[r].flow \in Flows /\ request[r].service \in Services
      BY <1>10, <1>c DEF FindAccount, Stands
    <2>3. PICK pc \in {"create", "persist"}, a \in Accounts \cup {None} :
             Goes(r, pc, a) /\ (pc = "persist" => a \in 1..created)
      <3>1. accounts \subseteq 1..created /\ 1..created \subseteq Accounts
        BY <1>a DEF TypeOK
      <3> QED
        BY <3>1, <1>10 DEF FindAccount
    <2>4. /\ request' \in [Requests -> Request] /\ request'[r].pc = pc
          /\ request'[r].account = a
          /\ request'[r].flow = request[r].flow /\ request'[r].service = request[r].service
          /\ \A p \in Requests : p # r => request'[p] = request[p]
      BY <2>3, GoesEffect DEF PC
    <2>5. Stands(request'[r], created')
      BY <2>1, <2>2, <2>3, <2>4 DEF Stands
    <2> QED
      BY <2>1, <2>4, <2>5, <1>a, TypeOfMove
  <1>11. ASSUME NEW r \in Requests, CreateAccount(r) PROVE TypeOK'
    <2>1. request[r].flow \in Flows /\ request[r].service \in Services
          /\ request[r].session \in Sessions \cup {None}
      BY <1>11, <1>c, RequestType DEF CreateAccount, Stands
    <2>2. NewAccount(r, "callback", request[r].session, request[r].service, 0)
      BY <1>11 DEF CreateAccount
    <2>3. /\ created' = created + 1 /\ created' \in 1..MaxAccounts /\ created + 1 \in Accounts
          /\ created + 1 \in 1..created' /\ accounts' \subseteq 1..created'
          /\ about' \in [Accounts -> About] /\ credential' \in [Accounts -> Nat]
      BY <2>1, <2>2, NewAccountEffect
    <2>4. Goes(r, "persist", created + 1) /\ metServices' \subseteq Services
      BY <1>11, <2>1 DEF CreateAccount, TypeOK
    <2>a. /\ UNCHANGED <<session, pin, result, flow, announced, passed, metFlows, metAccounts,
                         dropped, faults>>
          /\ created' \in 0..MaxAccounts
      BY <1>11, <1>a, <2>3 DEF CreateAccount
    <2>5. Fits'
      BY <1>b, <2>3, <2>4, <2>a DEF Fits
    <2>6. /\ request' \in [Requests -> Request] /\ request'[r].pc = "persist"
          /\ request'[r].account = created + 1
          /\ \A p \in Requests : p # r => request'[p] = request[p]
      BY <2>3, <2>4, GoesEffect DEF PC
    <2>7. Stands(request'[r], created') /\ created <= created'
      BY <2>3, <2>6, <1>a DEF Stands
    <2> QED
      BY <2>5, <2>6, <2>7, TypeOfMove
  <1>12. ASSUME NEW r \in Requests, FindCredential(r) PROVE TypeOK'
    <2>1. Fits' /\ created' = created /\ request[r].account \in 1..created
      BY <1>12, <1>b, <1>c DEF FindCredential, Fits, tables, history, met, Stands
    <2>2. PICK pc \in {"replace", "insert"} : Goes(r, pc, request[r].account)
      BY <1>12 DEF FindCredential
    <2>3. /\ request' \in [Requests -> Request] /\ request'[r].pc = pc
          /\ request'[r].account = request[r].account
          /\ \A p \in Requests : p # r => request'[p] = request[p]
      BY <2>2, <2>1, <1>a, GoesEffect DEF PC
    <2>4. Stands(request'[r], created')
      BY <2>1, <2>2, <2>3 DEF Stands
    <2> QED
      BY <2>1, <2>3, <2>4, <1>a, TypeOfMove
  <1>13. ASSUME NEW r \in Requests, InsertCredential(r) \/ ReplaceCredential(r) PROVE TypeOK'
    <2>1. request[r].account \in 1..created /\ request[r].account \in Accounts
      BY <1>13, <1>a, <1>c DEF InsertCredential, ReplaceCredential, Stands
    <2>2. Goes(r, "announce", request[r].account) /\ created' = created
      BY <1>13 DEF InsertCredential, ReplaceCredential, tables
    <2>3. ASSUME InsertCredential(r) PROVE Fits'
      <3>1. credential' \in [Accounts -> Nat] /\ metAccounts' \subseteq Accounts
        BY <2>1, <2>3 DEF InsertCredential, TypeOK
      <3> QED
        BY <3>1, <2>3, <1>b DEF InsertCredential, Fits
    <2>4. ASSUME ReplaceCredential(r) PROVE Fits'
      BY <2>4, <1>b DEF ReplaceCredential, Fits, tables, history, met
    <2>5. Fits'
      BY <1>13, <2>3, <2>4
    <2>6. /\ request' \in [Requests -> Request] /\ request'[r].pc = "announce"
          /\ request'[r].account = request[r].account
          /\ \A p \in Requests : p # r => request'[p] = request[p]
      BY <2>2, <2>1, GoesEffect DEF PC
    <2>7. Stands(request'[r], created')
      BY <2>1, <2>2, <2>6 DEF Stands
    <2> QED
      BY <2>2, <2>5, <2>6, <2>7, <1>a, TypeOfMove
  <1>14. ASSUME NEW r \in Requests, CreateForSession(r) PROVE TypeOK'
    <2>1. request[r].session \in Sessions /\ request[r].service \in Services
      BY <1>14, <1>c DEF CreateForSession, Stands
    <2>2. NewAccount(r, "form", request[r].session, request[r].service, 1)
          /\ Goes(r, "claim", created + 1)
      BY <1>14 DEF CreateForSession
    <2>3. /\ created' = created + 1 /\ created' \in 1..MaxAccounts /\ created + 1 \in Accounts
          /\ created + 1 \in 1..created' /\ accounts' \subseteq 1..created'
          /\ about' \in [Accounts -> About] /\ credential' \in [Accounts -> Nat]
      BY <2>1, <2>2, RequestType, NewAccountEffect
    <2>a. /\ UNCHANGED <<session, pin, result, flow, announced, passed, metFlows, metServices,
                         metAccounts, dropped, faults>>
          /\ created' \in 0..MaxAccounts
      BY <1>14, <1>a, <2>3 DEF CreateForSession, history, met
    <2>4. Fits'
      BY <1>b, <2>3, <2>a DEF Fits
    <2>5. /\ request' \in [Requests -> Request] /\ request'[r].pc = "claim"
          /\ request'[r].account = created + 1 /\ request'[r].session = request[r].session
          /\ \A p \in Requests : p # r => request'[p] = request[p]
      BY <2>2, <2>3, GoesEffect DEF PC
    <2>6. Stands(request'[r], created') /\ created <= created'
      BY <2>1, <2>3, <2>5, <1>a DEF Stands
    <2> QED
      BY <2>4, <2>5, <2>6, TypeOfMove
  <1>15. ASSUME NEW r \in Requests, Claim(r) PROVE TypeOK'
    <2>1. request[r].account \in 1..created /\ request[r].account \in Accounts
          /\ request[r].session \in Sessions
      BY <1>15, <1>a, <1>c DEF Claim, Stands
    <2>2. Fits'
      BY <1>15, <1>b, <2>1 DEF Claim, CompleteConnectSession, Fits, history, met
    <2>3. PICK pc \in {"announce", "delete"} : Goes(r, pc, request[r].account)
      BY <1>15 DEF Claim
    <2>4. /\ request' \in [Requests -> Request] /\ request'[r].pc = pc
          /\ request'[r].account = request[r].account /\ request'[r].session = request[r].session
          /\ \A p \in Requests : p # r => request'[p] = request[p]
      BY <2>3, <2>1, GoesEffect DEF PC
    <2>5. Stands(request'[r], created') /\ created' = created
      BY <1>15, <2>1, <2>3, <2>4 DEF Stands, Claim
    <2> QED
      BY <2>2, <2>4, <2>5, <1>a, TypeOfMove
  <1>16. ASSUME NEW r \in Requests, DeleteLoser(r) PROVE TypeOK'
    <2>1. Fits' /\ Ends(r) /\ created' = created
      BY <1>16, <1>b DEF DeleteLoser, Fits, history, met
    <2> QED
      BY <2>1, <1>a, EndsEffect, TypeOfMove, IdleType DEF Stands
  <1>17. ASSUME NEW r \in Requests, Announce(r) PROVE TypeOK'
    <2>1. request[r].account \in 1..created /\ request[r].account \in Accounts
      BY <1>17, <1>a, <1>c DEF Announce, Stands
    <2>2. Fits' /\ created' = created
      BY <1>17, <1>b, <2>1 DEF Announce, Fits, tables, met
    <2>3. CASE Ends(r)
      BY <2>2, <2>3, <1>a, EndsEffect, TypeOfMove, IdleType DEF Stands
    <2>4. CASE Goes(r, "complete", request[r].account) /\ request[r].session # None
      <3>1. /\ request' \in [Requests -> Request] /\ request'[r].pc = "complete"
            /\ request'[r].account = request[r].account /\ request'[r].session = request[r].session
            /\ \A p \in Requests : p # r => request'[p] = request[p]
        BY <2>4, <2>1, GoesEffect DEF PC
      <3>2. Stands(request'[r], created')
        BY <2>1, <2>2, <2>4, <3>1, RequestType DEF Stands
      <3> QED
        BY <2>2, <3>1, <3>2, <1>a, TypeOfMove
    <2> QED
      BY <1>17, <2>3, <2>4 DEF Announce
  <1>18. ASSUME NEW r \in Requests, Complete(r) PROVE TypeOK'
    <2>1. request[r].account \in Accounts /\ request[r].session \in Sessions
      BY <1>18, <1>a, <1>c DEF Complete, Stands
    <2>2. Fits' /\ Ends(r) /\ created' = created
      BY <1>18, <1>b, <2>1 DEF Complete, CompleteConnectSession, Fits, history, met
    <2> QED
      BY <2>2, <1>a, EndsEffect, TypeOfMove, IdleType DEF Stands
  <1>19. CASE UNCHANGED vars
    <2>1. Fits'
      BY <1>19, <1>b DEF vars, tables, history, met, Fits
    <2> QED
      BY <1>19, <2>1, TypeOfOther DEF vars, tables
  <1> QED
    BY <1>1, <1>2, <1>3, <1>4, <1>5, <1>6, <1>7, <1>8, <1>9, <1>10, <1>11, <1>12, <1>13, <1>14,
       <1>15, <1>16, <1>17, <1>18, <1>19 DEF Next, RequestStep

\* Tables, requests and history keep their values in every behaviour.
THEOREM ConnectTypeCorrect == Spec => []TypeOK
  <1> QED
    BY TypeInit, TypeStep, PTL DEF Spec

----------------------------------------------------------------------------
(* How requests move *)

\* Request r goes on at pc with account a and keeps what it was made from.
Moves(r, pc, a) ==
    /\ request'[r].pc = pc /\ request'[r].account = a
    /\ request'[r].session = request[r].session
    /\ request'[r].service = request[r].service
    /\ request'[r].flow = request[r].flow

LEMMA GoesMoves ==
    ASSUME TypeOK, NEW r \in Requests, NEW pc, NEW a, Goes(r, pc, a)
    PROVE  Moves(r, pc, a) /\ \A q \in Requests : q # r => request'[q] = request[q]
  <1>1. request[r] \in Request
    BY RequestType
  <1> DEFINE half == [request[r] EXCEPT !.pc = pc]
             next == [half EXCEPT !.account = a]
  <1>2. /\ half \in [pc : {pc}, session : Sessions \cup {None}, service : Services \cup {None},
                     flow : Flows \cup {None}, account : Accounts \cup {None}]
        /\ half.pc = pc /\ half.session = request[r].session
        /\ half.service = request[r].service /\ half.flow = request[r].flow
    BY <1>1 DEF Request
  <1>3. request' = [request EXCEPT ![r] = next]
    BY DEF Goes, TypeOK
  <1> HIDE DEF half
  <1>4. /\ next.pc = pc /\ next.account = a
        /\ next.session = request[r].session /\ next.service = request[r].service
        /\ next.flow = request[r].flow
    BY <1>2
  <1> HIDE DEF next
  <1> QED
    BY <1>3, <1>4 DEF TypeOK, Moves

\* The first record of a request.
Reads(r, x) ==
    request'[r] = [pc |-> "burn", session |-> flow[x].session, service |-> flow[x].service,
                   flow |-> x, account |-> None]
Submits(r, s, v) ==
    request'[r] = [pc |-> "submit", session |-> s, service |-> v, flow |-> None, account |-> None]
Connects(r, v) ==
    request'[r] = [pc |-> "announce", session |-> None, service |-> v, flow |-> None,
                   account |-> created + 1]

LEMMA FirstRecords ==
    ASSUME NEW r
    PROVE  /\ \A x : Reads(r, x) => request'[r].pc = "burn" /\ request'[r].flow = x
           /\ \A s, v : Submits(r, s, v) => request'[r].pc = "submit"
           /\ \A v : Connects(r, v) => request'[r].pc = "announce"
  BY DEF Reads, Submits, Connects

\* A step of request r.
Acts(r) ==
    \/ \E x \in Flows : ReadState(r, x) /\ Reads(r, x)
    \/ \E s \in Sessions, v \in KeyServices : SubmitConnectCredentials(r, s, v) /\ Submits(r, s, v)
    \/ \E v \in Services : ConnectErpAccount(r, v) /\ Connects(r, v)
    \/ BurnState(r) /\ Moves(r, "exchange", None)
    \/ FindAccount(r) /\ Moves(r, "create", None)
    \/ FindAccount(r) /\ \E a \in accounts : about[a].service = request[r].service /\ Moves(r, "persist", a)
    \/ CreateAccount(r) /\ Moves(r, "persist", created + 1)
    \/ FindCredential(r) /\ \E pc \in {"replace", "insert"} : Moves(r, pc, request[r].account)
    \/ InsertCredential(r) /\ Moves(r, "announce", request[r].account)
    \/ ReplaceCredential(r) /\ Moves(r, "announce", request[r].account)
    \/ CreateForSession(r) /\ Moves(r, "claim", created + 1)
    \/ Claim(r) /\ \E pc \in {"announce", "delete"} : Moves(r, pc, request[r].account)
    \/ Announce(r) /\ Moves(r, "complete", request[r].account)
    \/ /\ ExchangeFails(r) \/ PersistFails(r) \/ Fail(r) \/ DeleteLoser(r) \/ Announce(r) \/ Complete(r)
       /\ request'[r] = Idle

\* Every step is one request's, the others standing still, or nobody's.
LEMMA WhoActs ==
    ASSUME TypeOK, Next
    PROVE  \/ \E r \in Requests : Acts(r) /\ \A q \in Requests : q # r => request'[q] = request[q]
           \/ /\ UNCHANGED request
              /\ \/ \E s \in Sessions : CreateConnectSession(s) \/ SessionExpires(s)
                 \/ \E x \in Flows, s \in Sessions \cup {None}, v \in OAuthServices : BeginOAuthFlow(x, s, v)
                 \/ \E x \in Flows : FlowExpires(x)
                 \/ \E a \in Accounts : Remove(a)
  <1> DEFINE Alone(r) == \A q \in Requests : q # r => request'[q] = request[q]
             Goal == \E r \in Requests : Acts(r) /\ Alone(r)
  <1>1. ASSUME NEW r \in Requests, NEW x \in Flows, ReadState(r, x) PROVE Acts(r) /\ Alone(r)
    BY <1>1 DEF ReadState, Reads, Acts, TypeOK
  <1>2. ASSUME NEW r \in Requests, NEW s \in Sessions, NEW v \in KeyServices,
               SubmitConnectCredentials(r, s, v)
        PROVE  Acts(r) /\ Alone(r)
    BY <1>2 DEF SubmitConnectCredentials, Submits, Acts, TypeOK
  <1>3. ASSUME NEW r \in Requests, NEW v \in Services, ConnectErpAccount(r, v)
        PROVE  Acts(r) /\ Alone(r)
    BY <1>3 DEF ConnectErpAccount, Connects, Acts, TypeOK
  <1>4. ASSUME NEW r \in Requests, RequestStep(r) \/ Fail(r) PROVE Acts(r) /\ Alone(r)
    <2>1. CASE Ends(r) /\ (ExchangeFails(r) \/ PersistFails(r) \/ Fail(r) \/ DeleteLoser(r)
                           \/ Announce(r) \/ Complete(r))
      BY <2>1, EndsEffect DEF Acts
    <2>2. ASSUME BurnState(r) PROVE Acts(r) /\ Alone(r)
      BY <2>2, GoesMoves DEF BurnState, Acts
    <2>3. ASSUME FindAccount(r) PROVE Acts(r) /\ Alone(r)
      BY <2>3, GoesMoves DEF FindAccount, Acts
    <2>4. ASSUME CreateAccount(r) PROVE Acts(r) /\ Alone(r)
      BY <2>4, GoesMoves DEF CreateAccount, Acts
    <2>5. ASSUME FindCredential(r) PROVE Acts(r) /\ Alone(r)
      BY <2>5, GoesMoves DEF FindCredential, Acts
    <2>6. ASSUME InsertCredential(r) PROVE Acts(r) /\ Alone(r)
      BY <2>6, GoesMoves DEF InsertCredential, Acts
    <2>7. ASSUME ReplaceCredential(r) PROVE Acts(r) /\ Alone(r)
      BY <2>7, GoesMoves DEF ReplaceCredential, Acts
    <2>8. ASSUME CreateForSession(r) PROVE Acts(r) /\ Alone(r)
      BY <2>8, GoesMoves DEF CreateForSession, Acts
    <2>9. ASSUME Claim(r) PROVE Acts(r) /\ Alone(r)
      BY <2>9, GoesMoves DEF Claim, Acts
    <2>10. ASSUME Announce(r), ~Ends(r) PROVE Acts(r) /\ Alone(r)
      <3>1. Goes(r, "complete", request[r].account)
        BY <2>10 DEF Announce
      <3> QED
        BY <3>1, <2>10, GoesMoves DEF Acts
    <2>11. ASSUME ExchangeFails(r) \/ PersistFails(r) \/ Fail(r) \/ DeleteLoser(r) \/ Complete(r)
           PROVE  Ends(r)
      BY <2>11 DEF ExchangeFails, PersistFails, Fail, DeleteLoser, Complete
    <2> QED
      BY <1>4, <2>1, <2>2, <2>3, <2>4, <2>5, <2>6, <2>7, <2>8, <2>9, <2>10, <2>11 DEF RequestStep
  <1>5. ASSUME NEW s \in Sessions, CreateConnectSession(s) \/ SessionExpires(s) PROVE UNCHANGED request
    BY <1>5 DEF CreateConnectSession, SessionExpires
  <1>6. ASSUME NEW x \in Flows, NEW s, NEW v, BeginOAuthFlow(x, s, v) PROVE UNCHANGED request
    BY <1>6 DEF BeginOAuthFlow
  <1>7. ASSUME NEW x \in Flows, FlowExpires(x) PROVE UNCHANGED request
    BY <1>7 DEF FlowExpires
  <1>8. ASSUME NEW a \in Accounts, Remove(a) PROVE UNCHANGED request
    BY <1>8 DEF Remove
  <1> HIDE DEF Alone
  <1>9. CASE \E r \in Requests : \/ \E x \in Flows : ReadState(r, x)
                                 \/ \E s \in Sessions, v \in KeyServices : SubmitConnectCredentials(r, s, v)
                                 \/ \E v \in Services : ConnectErpAccount(r, v)
                                 \/ RequestStep(r) \/ Fail(r)
    BY <1>9, <1>1, <1>2, <1>3, <1>4 DEF Alone
  <1> QED
    BY <1>5, <1>6, <1>7, <1>8, <1>9 DEF Next

----------------------------------------------------------------------------
(* Single use of a state *)

\* Who is about to burn a state stood there before, or has just read it.
LEMMA AtBurn ==
    ASSUME TypeOK, Next, NEW q \in Requests, request'[q].pc = "burn"
    PROVE  request'[q] = request[q] \/ ReadState(q, request'[q].flow)
  <1> SUFFICES ASSUME request'[q] # request[q] PROVE ReadState(q, request'[q].flow)
    OBVIOUS
  <1>1. Acts(q)
    BY WhoActs
  <1>2. request'[q] # Idle
    BY IdleType
  <1> QED
    BY <1>1, <1>2, FirstRecords DEF Acts, Moves

\* Which steps touch the states.
LEMMA FlowChanges ==
    ASSUME TypeOK, Next
    PROVE  \/ UNCHANGED <<flow, passed, metFlows>>
           \/ \E r \in Requests : BurnState(r)
           \/ \E x \in Flows, s \in Sessions \cup {None}, v \in OAuthServices : BeginOAuthFlow(x, s, v)
           \/ \E x \in Flows : FlowExpires(x)
  BY DEF Next, RequestStep, CreateConnectSession, SessionExpires, Remove, ReadState,
         SubmitConnectCredentials, ConnectErpAccount, ExchangeFails, FindAccount, CreateAccount,
         FindCredential, InsertCredential, ReplaceCredential, PersistFails, CreateForSession,
         Claim, DeleteLoser, Announce, Complete, Fail, tables, history, met

Burning(q, x) == request[q].pc = "burn" /\ request[q].flow = x

\* Outside the overlaps a state passes one callback, which leaves it consumed
\* and nobody else about to burn it.
FlowOnce(x) ==
    /\ passed[x] \in {0, 1}
    /\ passed[x] = 1 => flow[x].status = "consumed" /\ \A q \in Requests : ~Burning(q, x)

FlowsInv == \A x \in Flows \ metFlows : FlowOnce(x)

LEMMA BurnEffect ==
    ASSUME TypeOK, NEW r \in Requests, BurnState(r)
    PROVE  /\ request[r].flow \in Flows /\ Burning(r, request[r].flow)
           /\ request'[r].pc = "exchange"
           /\ \A q \in Requests : q # r => request'[q] = request[q]
           /\ flow'[request[r].flow].status = "consumed"
           /\ \A y \in Flows : y # request[r].flow => flow'[y] = flow[y] /\ passed'[y] = passed[y]
           /\ passed'[request[r].flow] = passed[request[r].flow] + 1
           /\ metFlows \subseteq metFlows'
           /\ request[r].flow \notin metFlows' =>
                \A q \in Requests : q # r => ~Burning(q, request[r].flow)
  <1> DEFINE x == request[r].flow
             burnt == [flow[x] EXCEPT !.status = "consumed"]
  <1>1. x \in Flows /\ request[r].pc = "burn"
    BY TypeParts DEF BurnState, Stands
  <1>2. flow[x] \in Flow
    BY <1>1 DEF TypeOK
  <1>3. burnt.status = "consumed"
    BY <1>2 DEF Flow
  <1>4. flow' = [flow EXCEPT ![x] = burnt]
    BY DEF BurnState
  <1>5. passed' = [passed EXCEPT ![x] = passed[x] + 1]
    BY DEF BurnState
  <1>6. metFlows' = IF Meets(r, "flow") THEN metFlows \cup {x} ELSE metFlows
    BY DEF BurnState
  <1>7. request'[r].pc = "exchange" /\ \A q \in Requests : q # r => request'[q] = request[q]
    BY GoesMoves DEF BurnState, Moves
  <1>8. ~Meets(r, "flow") => \A q \in Requests : q # r => ~Burning(q, x)
    BY <1>1 DEF Meets, Burning
  <1> HIDE DEF x, burnt
  <1>9. /\ flow'[x].status = "consumed" /\ passed'[x] = passed[x] + 1
        /\ \A y \in Flows : y # x => flow'[y] = flow[y] /\ passed'[y] = passed[y]
    BY <1>1, <1>3, <1>4, <1>5 DEF TypeOK
  <1>10. metFlows \subseteq metFlows' /\ (x \notin metFlows' => ~Meets(r, "flow"))
    BY <1>6
  <1>11. Burning(r, x)
    BY <1>1 DEF Burning, x
  <1> QED
    BY <1>1, <1>7, <1>8, <1>9, <1>10, <1>11 DEF x

LEMMA FlowsStep == TypeOK /\ FlowsInv /\ [Next]_vars => FlowsInv'
  <1> SUFFICES ASSUME TypeOK, FlowsInv, Next PROVE FlowsInv'
    BY DEF FlowsInv, FlowOnce, Burning, vars, tables, history, met
  <1>a. metFlows \subseteq metFlows'
    BY FlowChanges, BurnEffect DEF BeginOAuthFlow, FlowExpires, history, met
  <1> SUFFICES ASSUME NEW x \in Flows, x \notin metFlows' PROVE FlowOnce(x)'
    BY DEF FlowsInv
  <1>1. FlowOnce(x)
    BY <1>a DEF FlowsInv
  <1>2. CASE \E r \in Requests : BurnState(r)
    <2>1. PICK r \in Requests : BurnState(r)
      BY <1>2
    <2>2. CASE request[r].flow = x
      <3>1. passed[x] = 0
        BY <1>1, <2>1, <2>2, BurnEffect DEF FlowOnce
      <3>2. \A q \in Requests : ~Burning(q, x)'
        BY <2>1, <2>2, BurnEffect DEF Burning
      <3> QED
        BY <3>1, <3>2, <2>1, <2>2, BurnEffect DEF FlowOnce
    <2>3. CASE request[r].flow # x
      <3>1. flow'[x] = flow[x] /\ passed'[x] = passed[x]
        BY <2>1, <2>3, BurnEffect
      <3>2. \A q \in Requests : Burning(q, x)' => Burning(q, x)
        BY <2>1, BurnEffect DEF Burning
      <3> QED
        BY <1>1, <3>1, <3>2 DEF FlowOnce
    <2> QED
      BY <2>2, <2>3
  <1>3. CASE ~\E r \in Requests : BurnState(r)
    <2>1. passed'[x] = passed[x]
      BY <1>3, FlowChanges DEF BeginOAuthFlow, FlowExpires, history, met
    <2>2. flow[x].status = "consumed" => flow'[x].status = "consumed"
      BY <1>3, FlowChanges DEF BeginOAuthFlow, FlowExpires, TypeOK
    <2>3. flow[x].status = "consumed" => \A q \in Requests : Burning(q, x)' => Burning(q, x)
      <3> SUFFICES ASSUME flow[x].status = "consumed", NEW q \in Requests, Burning(q, x)'
                   PROVE  Burning(q, x)
        OBVIOUS
      <3> QED
        BY AtBurn DEF Burning, ReadState
    <2> QED
      BY <1>1, <2>1, <2>2, <2>3 DEF FlowOnce
  <1> QED
    BY <1>2, <1>3

\* Outside the overlaps, a consumed state is past every callback.
THEOREM FlowInvariance == Spec => []FlowsInv
  <1>1. Init => FlowsInv
    BY DEF Init, FlowsInv, FlowOnce
  <1> QED
    BY <1>1, FlowsStep, ConnectTypeCorrect, PTL DEF Spec

\* oauth.ts:114: a state passes a second callback only if two had read it
\* before either marked it used.
THEOREM StateSingleUse == Spec => []ReplayTakesOverlap
  <1>1. TypeOK /\ FlowsInv => ReplayTakesOverlap
    BY DEF FlowsInv, FlowOnce, ReplayTakesOverlap
  <1> QED
    BY <1>1, FlowInvariance, ConnectTypeCorrect, PTL

----------------------------------------------------------------------------
(* One account of a service, one credential of an account *)

LEMMA AtCreate ==
    ASSUME TypeOK, Next, NEW q \in Requests, request'[q].pc = "create"
    PROVE  \/ request'[q] = request[q]
           \/ FindAccount(q) /\ Moves(q, "create", None)
  <1> SUFFICES ASSUME request'[q] # request[q] PROVE FindAccount(q) /\ Moves(q, "create", None)
    OBVIOUS
  <1>1. Acts(q)
    BY WhoActs
  <1>2. request'[q] # Idle
    BY IdleType
  <1> QED
    BY <1>1, <1>2, FirstRecords DEF Acts, Moves

LEMMA AtInsert ==
    ASSUME TypeOK, Next, NEW q \in Requests, request'[q].pc = "insert"
    PROVE  \/ request'[q] = request[q]
           \/ FindCredential(q) /\ Moves(q, "insert", request[q].account)
  <1> SUFFICES ASSUME request'[q] # request[q]
               PROVE  FindCredential(q) /\ Moves(q, "insert", request[q].account)
    OBVIOUS
  <1>1. Acts(q)
    BY WhoActs
  <1>2. request'[q] # Idle
    BY IdleType
  <1> QED
    BY <1>1, <1>2, FirstRecords DEF Acts, Moves

\* Which steps touch the accounts and their credentials.
Founds(by, s, v, n) ==
    \E r \in Requests : NewAccount(r, by, s, v, n)

LEMMA AccountChanges ==
    ASSUME TypeOK, Next
    PROVE  \/ /\ accounts' \subseteq accounts
              /\ UNCHANGED <<about, credential, metServices, metAccounts, created>>
           \/ \E r \in Requests : InsertCredential(r)
           \/ \E r \in Requests : CreateAccount(r)
           \/ /\ \E by \in {"form", "console"}, s \in Sessions \cup {None}, v \in Services : Founds(by, s, v, 1)
              /\ UNCHANGED <<metServices, metAccounts>>
  <1>1. ASSUME NEW r \in Requests, CreateForSession(r)
        PROVE  /\ Founds("form", request[r].session, request[r].service, 1)
               /\ UNCHANGED <<metServices, metAccounts>>
               /\ request[r].session \in Sessions /\ request[r].service \in Services
    BY <1>1, TypeParts DEF CreateForSession, Founds, Stands, history, met
  <1>2. ASSUME NEW r \in Requests, NEW v \in Services, ConnectErpAccount(r, v)
        PROVE  Founds("console", None, v, 1) /\ UNCHANGED <<metServices, metAccounts>>
    BY <1>2 DEF ConnectErpAccount, Founds, history, met
  <1>3. CASE \/ \E r \in Requests : \/ InsertCredential(r) \/ CreateAccount(r) \/ CreateForSession(r)
                                    \/ \E v \in Services : ConnectErpAccount(r, v)
    BY <1>3, <1>1, <1>2
  <1> DEFINE Still == accounts' \subseteq accounts
                      /\ UNCHANGED <<about, credential, metServices, metAccounts, created>>
  <1>4. ASSUME NEW s \in Sessions, CreateConnectSession(s) \/ SessionExpires(s) PROVE Still
    BY <1>4 DEF CreateConnectSession, SessionExpires, history, met
  <1>5. ASSUME NEW x, NEW s, NEW v, BeginOAuthFlow(x, s, v) \/ FlowExpires(x) PROVE Still
    BY <1>5 DEF BeginOAuthFlow, FlowExpires, history, met
  <1>6. ASSUME NEW a, Remove(a) PROVE Still
    BY <1>6 DEF Remove, history, met
  <1>7. ASSUME NEW r, NEW x, NEW s, NEW v, ReadState(r, x) \/ SubmitConnectCredentials(r, s, v) PROVE Still
    BY <1>7 DEF ReadState, SubmitConnectCredentials, tables, history, met
  <1>8. ASSUME NEW r, ExchangeFails(r) \/ FindAccount(r) \/ FindCredential(r) \/ ReplaceCredential(r)
                      \/ PersistFails(r)
        PROVE  Still
    BY <1>8 DEF ExchangeFails, FindAccount, FindCredential, ReplaceCredential, PersistFails,
                tables, history, met
  <1>9. ASSUME NEW r, BurnState(r) \/ Claim(r) \/ DeleteLoser(r) PROVE Still
    BY <1>9 DEF BurnState, Claim, DeleteLoser, history, met
  <1>10. ASSUME NEW r, Announce(r) \/ Complete(r) \/ Fail(r) PROVE Still
    BY <1>10 DEF Announce, Complete, Fail, tables, history, met
  <1> HIDE DEF Still
  <1>11. CASE ~\E r \in Requests : \/ InsertCredential(r) \/ CreateAccount(r) \/ CreateForSession(r)
                                   \/ \E v \in Services : ConnectErpAccount(r, v)
    <2>1. Still
      BY <1>4, <1>5, <1>6, <1>7, <1>8, <1>9, <1>10, <1>11 DEF Next, RequestStep
    <2> QED
      BY <2>1 DEF Still
  <1> QED
    BY <1>3, <1>11

\* What that does to the tables.
Founded(by, s, v, n) ==
    /\ created' = created + 1 /\ created + 1 \in Accounts
    /\ accounts' = accounts \cup {created + 1}
    /\ about'[created + 1] = [service |-> v, by |-> by, session |-> s]
    /\ credential'[created + 1] = n
    /\ \A a \in Accounts : a # created + 1 => about'[a] = about[a] /\ credential'[a] = credential[a]
    /\ \A a \in 1..created : a \in Accounts /\ a # created + 1
    /\ accounts \subseteq 1..created

LEMMA FoundsEffect ==
    ASSUME TypeOK, NEW by \in {"callback", "form", "console"}, NEW s \in Sessions \cup {None},
           NEW v \in Services, NEW n \in Nat, Founds(by, s, v, n)
    PROVE  Founded(by, s, v, n)
  <1>1. accounts \subseteq 1..created
    BY DEF TypeOK
  <1>2. PICK r \in Requests : NewAccount(r, by, s, v, n)
    BY DEF Founds
  <1> QED
    BY <1>1, <1>2, NewAccountEffect DEF Founded

Twin(a, v) == a \in accounts /\ about[a].by = "callback" /\ about[a].service = v
Creating(q, v) == request[q].pc = "create" /\ request[q].service = v

\* Outside the overlaps callbacks made at most one of the accounts of a service
\* there are, and where there is one, nobody is about to make another.
OneEach(v) ==
    /\ \A a, b \in accounts : Twin(a, v) /\ Twin(b, v) => a = b
    /\ \A a \in accounts, q \in Requests : Twin(a, v) => ~Creating(q, v)

ServicesInv == \A v \in (Services \cup {None}) \ metServices : OneEach(v)

LEMMA CreateEffect ==
    ASSUME TypeOK, NEW r \in Requests, CreateAccount(r)
    PROVE  /\ Creating(r, request[r].service) /\ request'[r].pc = "persist"
           /\ \A q \in Requests : q # r => request'[q] = request[q]
           /\ request[r].service \in Services /\ request[r].session \in Sessions \cup {None}
           /\ Founds("callback", request[r].session, request[r].service, 0)
           /\ metServices \subseteq metServices' /\ UNCHANGED metAccounts
           /\ request[r].service \notin metServices' =>
                \A q \in Requests : q # r => ~Creating(q, request[r].service)
  <1>1. request[r].service \in Services /\ request[r].session \in Sessions \cup {None}
    BY TypeParts, RequestType DEF CreateAccount, Stands
  <1>2. request'[r].pc = "persist" /\ \A q \in Requests : q # r => request'[q] = request[q]
    BY GoesMoves DEF CreateAccount, Moves
  <1>3. Founds("callback", request[r].session, request[r].service, 0)
    BY DEF CreateAccount, Founds
  <1>4. request[r].service \notin metServices' => ~Meets(r, "service")
    BY DEF CreateAccount
  <1>5. ~Meets(r, "service") => \A q \in Requests : q # r => ~Creating(q, request[r].service)
    BY DEF Meets, Creating, CreateAccount
  <1> QED
    BY <1>1, <1>2, <1>3, <1>4, <1>5 DEF CreateAccount, Creating

LEMMA ServicesStep == TypeOK /\ ServicesInv /\ [Next]_vars => ServicesInv'
  <1> SUFFICES ASSUME TypeOK, ServicesInv, Next PROVE ServicesInv'
    BY DEF ServicesInv, OneEach, Twin, Creating, vars, tables, history, met
  <1>a. metServices \subseteq metServices'
    BY AccountChanges, CreateEffect DEF InsertCredential
  <1> SUFFICES ASSUME NEW v \in Services \cup {None}, v \notin metServices' PROVE OneEach(v)'
    BY DEF ServicesInv
  <1>1. OneEach(v)
    BY <1>a DEF ServicesInv
  <1>c. ASSUME NEW by \in {"callback", "form", "console"}, NEW s \in Sessions \cup {None},
               NEW w \in Services, NEW n \in {0, 1}, Founds(by, s, w, n), NEW a \in accounts'
        PROVE  \/ a \in accounts /\ about'[a] = about[a]
               \/ a = created + 1 /\ about'[a].by = by /\ about'[a].service = w
    <2>1. n \in Nat
      OBVIOUS
    <2>2. Founded(by, s, w, n)
      BY <1>c, <2>1, FoundsEffect
    <2>3. a \in accounts => a \in Accounts /\ a # created + 1
      BY <2>2 DEF Founded
    <2>4. a = created + 1 => about'[a].by = by /\ about'[a].service = w
      <3>1. about'[created + 1] = [service |-> w, by |-> by, session |-> s]
        BY <2>2 DEF Founded
      <3> QED
        BY <3>1
    <2>5. a \in accounts \/ a = created + 1
      BY <1>c, <2>2 DEF Founded
    <2> QED
      BY <2>2, <2>3, <2>4, <2>5 DEF Founded
  <1>2. CASE \E r \in Requests : CreateAccount(r) /\ request[r].service = v
    <2>1. PICK r \in Requests : CreateAccount(r) /\ request[r].service = v
      BY <1>2
    <2>2. \A a \in accounts : ~Twin(a, v)
      BY <1>1, <2>1, CreateEffect DEF OneEach
    <2>a. Founds("callback", request[r].session, v, 0) /\ request[r].session \in Sessions \cup {None}
          /\ v \in Services
      BY <2>1, CreateEffect
    <2>3. \A a \in accounts' : Twin(a, v)' => a = created + 1
      BY <1>c, <2>2, <2>a DEF Twin
    <2>4. \A q \in Requests : ~Creating(q, v)'
      BY <2>1, CreateEffect DEF Creating
    <2> QED
      BY <2>3, <2>4 DEF OneEach
  <1>3. CASE ~\E r \in Requests : CreateAccount(r) /\ request[r].service = v
    <2>1. \A a \in accounts' : Twin(a, v)' => a \in accounts /\ Twin(a, v)
      <3>1. CASE accounts' \subseteq accounts /\ UNCHANGED about
        BY <3>1 DEF Twin
      <3>2. ASSUME NEW by \in {"form", "console"}, NEW s \in Sessions \cup {None}, NEW w \in Services,
                   Founds(by, s, w, 1), NEW a \in accounts', Twin(a, v)'
            PROVE  a \in accounts /\ Twin(a, v)
        BY <1>c, <3>2 DEF Twin
      <3>3. ASSUME NEW r \in Requests, CreateAccount(r), NEW a \in accounts', Twin(a, v)'
            PROVE  a \in accounts /\ Twin(a, v)
        <4>1. /\ Founds("callback", request[r].session, request[r].service, 0)
              /\ request[r].session \in Sessions \cup {None} /\ request[r].service \in Services
              /\ request[r].service # v
          BY <1>3, <3>3, CreateEffect
        <4> QED
          BY <1>c, <3>3, <4>1 DEF Twin
      <3> QED
        BY <3>1, <3>2, <3>3, AccountChanges DEF InsertCredential
    <2>2. ASSUME NEW a \in accounts, Twin(a, v), NEW q \in Requests, Creating(q, v)' PROVE FALSE
      <3>1. ~Creating(q, v)
        BY <1>1, <2>2 DEF OneEach
      <3>2. FindAccount(q) /\ Moves(q, "create", None)
        BY <2>2, <3>1, AtCreate DEF Creating
      <3>3. request[q].service = v
        BY <2>2, <3>2 DEF Creating, Moves
      <3>4. {b \in accounts : about[b].service = v} = {}
        BY <3>2, <3>3, GoesMoves DEF FindAccount, Moves
      <3> QED
        BY <2>2, <3>4 DEF Twin
    <2> QED
      BY <1>1, <2>1, <2>2 DEF OneEach
  <1> QED
    BY <1>2, <1>3

\* Outside the overlaps, callbacks make one account of a service.
THEOREM ServiceInvariance == Spec => []ServicesInv
  <1>1. Init => ServicesInv
    BY DEF Init, ServicesInv, OneEach
  <1> QED
    BY <1>1, ServicesStep, ConnectTypeCorrect, PTL DEF Spec

\* route.ts:70-74: two accounts that callbacks made for one service take two
\* callbacks that both had found none.
THEOREM OneAccountPerService == Spec => []DuplicateTakesOverlap
  <1>1. TypeOK /\ ServicesInv => DuplicateTakesOverlap
    <2> SUFFICES ASSUME TypeOK, ServicesInv, NEW a \in accounts, NEW b \in accounts, a # b,
                        about[a].by = "callback", about[b].by = "callback",
                        about[a].service = about[b].service, about[a].service \notin metServices
                 PROVE  FALSE
      BY DEF DuplicateTakesOverlap
    <2>1. accounts \subseteq Accounts
      BY ConstantsAssumption DEF TypeOK, Accounts
    <2>2. about[a] \in About
      BY <2>1 DEF TypeOK
    <2>3. about[a].service \in Services \cup {None}
      BY <2>2 DEF About
    <2>4. OneEach(about[a].service)
      BY <2>3 DEF ServicesInv
    <2> QED
      BY <2>4 DEF OneEach, Twin
  <1> QED
    BY <1>1, ServiceInvariance, ConnectTypeCorrect, PTL

Inserting(q, a) == request[q].pc = "insert" /\ request[q].account = a

\* Outside the overlaps an account has one credential row at most, and where it
\* has one, nobody is about to insert another.
OneRow(a) ==
    /\ credential[a] \in {0, 1}
    /\ a \in accounts /\ credential[a] = 1 => \A q \in Requests : ~Inserting(q, a)

RowsInv == \A a \in Accounts \ metAccounts : OneRow(a)

LEMMA InsertEffect ==
    ASSUME TypeOK, NEW r \in Requests, InsertCredential(r)
    PROVE  /\ Inserting(r, request[r].account) /\ request[r].account \in accounts
           /\ request[r].account \in Accounts
           /\ request'[r].pc = "announce"
           /\ \A q \in Requests : q # r => request'[q] = request[q]
           /\ UNCHANGED <<accounts, about, created>>
           /\ metAccounts \subseteq metAccounts'
           /\ credential'[request[r].account] = credential[request[r].account] + 1
           /\ \A a \in Accounts : a # request[r].account => credential'[a] = credential[a]
           /\ request[r].account \notin metAccounts' =>
                \A q \in Requests : q # r => ~Inserting(q, request[r].account)
  <1>1. request[r].account \in accounts /\ request[r].account \in Accounts
    BY ConstantsAssumption DEF InsertCredential, TypeOK, Accounts
  <1>2. request'[r].pc = "announce" /\ \A q \in Requests : q # r => request'[q] = request[q]
    BY GoesMoves DEF InsertCredential, Moves
  <1>3. request[r].account \notin metAccounts' => ~Meets(r, "account")
    BY DEF InsertCredential
  <1>4. ~Meets(r, "account") => \A q \in Requests : q # r => ~Inserting(q, request[r].account)
    BY DEF Meets, Inserting, InsertCredential
  <1>5. metAccounts \subseteq metAccounts' /\ Inserting(r, request[r].account)
    BY DEF InsertCredential, Inserting
  <1>6. /\ credential'[request[r].account] = credential[request[r].account] + 1
        /\ \A a \in Accounts : a # request[r].account => credential'[a] = credential[a]
    BY <1>1 DEF InsertCredential, TypeOK
  <1> QED
    BY <1>1, <1>2, <1>3, <1>4, <1>5, <1>6 DEF InsertCredential

LEMMA RowsStep == TypeOK /\ RowsInv /\ [Next]_vars => RowsInv'
  <1> SUFFICES ASSUME TypeOK, RowsInv, Next PROVE RowsInv'
    BY DEF RowsInv, OneRow, Inserting, vars, tables, history, met
  <1>a. metAccounts \subseteq metAccounts'
    BY AccountChanges, CreateEffect, InsertEffect
  <1> SUFFICES ASSUME NEW a \in Accounts, a \notin metAccounts' PROVE OneRow(a)'
    BY DEF RowsInv
  <1>1. OneRow(a)
    BY <1>a DEF RowsInv
  <1>b. accounts \subseteq 1..created
    BY DEF TypeOK
  <1>c. ASSUME NEW q \in Requests, Inserting(q, a)', ~Inserting(q, a)
        PROVE  /\ UNCHANGED <<accounts, credential, created>>
               /\ ~(a \in accounts /\ credential[a] = 1)
    <2>1. FindCredential(q) /\ Moves(q, "insert", request[q].account)
      BY <1>c, AtInsert DEF Inserting
    <2>2. request[q].account = a
      BY <1>c, <2>1 DEF Inserting, Moves
    <2>3. ~(a \in accounts /\ credential[a] > 0)
      BY <2>1, <2>2, GoesMoves DEF FindCredential, Moves
    <2> QED
      BY <2>1, <2>3 DEF FindCredential, tables
  <1>2. CASE accounts' \subseteq accounts /\ UNCHANGED credential
    BY <1>1, <1>2, <1>c DEF OneRow
  <1>3. ASSUME NEW r \in Requests, InsertCredential(r) PROVE OneRow(a)'
    <2>1. CASE request[r].account = a
      <3>1. credential[a] = 0
        BY <1>1, <1>3, <2>1, InsertEffect DEF OneRow
      <3>2. \A q \in Requests : ~Inserting(q, a)'
        BY <1>3, <2>1, InsertEffect DEF Inserting
      <3> QED
        BY <1>3, <2>1, <3>1, <3>2, InsertEffect DEF OneRow
    <2>2. CASE request[r].account # a
      <3>1. \A q \in Requests : Inserting(q, a)' => Inserting(q, a)
        BY <1>3, <2>2, InsertEffect DEF Inserting
      <3> QED
        BY <1>1, <1>3, <2>2, <3>1, InsertEffect DEF OneRow
    <2> QED
      BY <2>1, <2>2
  <1>4. ASSUME NEW by \in {"callback", "form", "console"}, NEW s \in Sessions \cup {None},
               NEW v \in Services, NEW n \in {0, 1}, Founds(by, s, v, n)
        PROVE  OneRow(a)'
    <2>1. n \in Nat
      OBVIOUS
    <2>2. /\ accounts' = accounts \cup {created + 1} /\ created' = created + 1
          /\ credential'[created + 1] = n
          /\ \A b \in Accounts : b # created + 1 => credential'[b] = credential[b]
          /\ \A b \in 1..created : b \in Accounts /\ b # created + 1
      <3>1. Founded(by, s, v, n)
        BY <1>4, <2>1, FoundsEffect
      <3> QED
        BY <3>1 DEF Founded
    <2>3. created \in Nat
      BY ConstantsAssumption DEF TypeOK
    <2>4. \A q \in Requests : Inserting(q, a)' => Inserting(q, a)
      BY <1>c, <2>2, <2>3
    <2>5. \A q \in Requests : ~Inserting(q, created + 1)
      <3>1. \A q \in Requests : request[q].pc = "insert" => request[q].account \in 1..created
        BY DEF TypeOK
      <3> QED
        BY <2>2, <3>1 DEF Inserting
    <2> QED
      BY <1>1, <2>2, <2>4, <2>5 DEF OneRow
  <1> QED
    BY <1>2, <1>3, <1>4, AccountChanges, CreateEffect

\* Outside the overlaps, an account has one credential row.
THEOREM RowInvariance == Spec => []RowsInv
  <1>1. Init => RowsInv
    BY DEF Init, RowsInv, OneRow
  <1> QED
    BY <1>1, RowsStep, ConnectTypeCorrect, PTL DEF Spec

\* token-refresh.ts:312-314: a second credential row of an account takes two
\* first connections of it at the same time.
THEOREM OneRowPerAccount == Spec => []SecondCredentialTakesOverlap
  <1>1. TypeOK /\ RowsInv => SecondCredentialTakesOverlap
    BY DEF RowsInv, OneRow, SecondCredentialTakesOverlap
  <1> QED
    BY <1>1, RowInvariance, ConnectTypeCorrect, PTL

----------------------------------------------------------------------------
(* What rows keep, and what requests know of them *)

\* Made links keep their pin, used links their account, accounts what they are
\* about; credentials, announcements and casualties only become more, and an
\* account that is gone does not come back.
GrowsLinks ==
    /\ \A s \in Sessions : session[s] # "none" => session'[s] # "none" /\ pin'[s] = pin[s]
    /\ \A s \in Sessions : result[s] # None => result'[s] = result[s]
    /\ announced \subseteq announced'
    /\ dropped \subseteq dropped'

GrowsAccounts ==
    /\ created \in Nat /\ created' \in Nat /\ created <= created'
    /\ \A a \in 1..created : /\ a \in Accounts /\ a \in 1..created'
                             /\ about'[a] = about[a]
                             /\ credential'[a] \in Nat /\ credential[a] <= credential'[a]
                             /\ a \in accounts' => a \in accounts

LEMMA LinksGrow == ASSUME TypeOK, Next PROVE GrowsLinks
  <1>1. ASSUME NEW s \in Sessions, CreateConnectSession(s) \/ SessionExpires(s) PROVE GrowsLinks
    BY <1>1 DEF CreateConnectSession, SessionExpires, GrowsLinks, TypeOK, history
  <1>2. ASSUME NEW x, NEW s, NEW v, BeginOAuthFlow(x, s, v) \/ FlowExpires(x) PROVE GrowsLinks
    BY <1>2 DEF BeginOAuthFlow, FlowExpires, history, GrowsLinks
  <1>3. ASSUME NEW a, Remove(a) PROVE GrowsLinks
    BY <1>3 DEF Remove, history, GrowsLinks
  <1>4. ASSUME NEW r, NEW x, NEW s, NEW v,
               ReadState(r, x) \/ SubmitConnectCredentials(r, s, v) \/ ConnectErpAccount(r, v)
        PROVE  GrowsLinks
    BY <1>4 DEF ReadState, SubmitConnectCredentials, ConnectErpAccount, tables, history, GrowsLinks
  <1>5. ASSUME NEW r, \/ ExchangeFails(r) \/ FindAccount(r) \/ FindCredential(r) \/ ReplaceCredential(r)
                      \/ PersistFails(r)
        PROVE  GrowsLinks
    BY <1>5 DEF ExchangeFails, FindAccount, FindCredential, ReplaceCredential, PersistFails,
                tables, history, GrowsLinks
  <1>6. ASSUME NEW r, BurnState(r) \/ DeleteLoser(r) \/ InsertCredential(r) PROVE GrowsLinks
    BY <1>6 DEF BurnState, DeleteLoser, InsertCredential, history, GrowsLinks
  <1>7. ASSUME NEW r, CreateAccount(r) \/ CreateForSession(r) PROVE GrowsLinks
    BY <1>7 DEF CreateAccount, CreateForSession, history, GrowsLinks
  <1>8. ASSUME NEW r, Announce(r) \/ Fail(r) PROVE GrowsLinks
    BY <1>8 DEF Announce, Fail, tables, GrowsLinks
  <1>9. ASSUME NEW r \in Requests, Claim(r) \/ Complete(r) PROVE GrowsLinks
    BY <1>9 DEF Claim, Complete, CompleteConnectSession, history, GrowsLinks, TypeOK
  <1> QED
    BY <1>1, <1>2, <1>3, <1>4, <1>5, <1>6, <1>7, <1>8, <1>9 DEF Next, RequestStep

LEMMA AccountsGrow == ASSUME TypeOK, Next PROVE GrowsAccounts
  <1>1. created \in Nat /\ (\A a \in 1..created : a \in Accounts) /\ accounts \subseteq 1..created
    BY ConstantsAssumption DEF TypeOK, Accounts
  <1>2. \A a \in 1..created : credential[a] \in Nat
    BY <1>1 DEF TypeOK
  <1>3. CASE accounts' \subseteq accounts /\ UNCHANGED <<about, credential, created>>
    BY <1>1, <1>2, <1>3 DEF GrowsAccounts
  <1>4. ASSUME NEW r \in Requests, InsertCredential(r) PROVE GrowsAccounts
    <2>1. \A a \in 1..created : credential'[a] \in Nat /\ credential[a] <= credential'[a]
      BY <1>1, <1>2, <1>4, InsertEffect
    <2> QED
      BY <1>1, <1>4, <2>1, InsertEffect DEF GrowsAccounts
  <1>5. ASSUME NEW by \in {"callback", "form", "console"}, NEW s \in Sessions \cup {None},
               NEW v \in Services, NEW n \in {0, 1}, Founds(by, s, v, n)
        PROVE  GrowsAccounts
    <2>1. n \in Nat
      OBVIOUS
    <2>2. Founded(by, s, v, n)
      BY <1>5, <2>1, FoundsEffect
    <2>3. created' = created + 1 /\ \A a \in 1..created : a \in 1..created'
      BY <1>1, <2>2 DEF Founded
    <2>4. \A a \in 1..created : about'[a] = about[a] /\ credential'[a] = credential[a]
      BY <1>1, <2>2 DEF Founded
    <2>5. \A a \in 1..created : a \in accounts' => a \in accounts
      BY <1>1, <2>2 DEF Founded
    <2> QED
      BY <1>1, <1>2, <2>3, <2>4, <2>5 DEF GrowsAccounts
  <1> QED
    BY <1>3, <1>4, <1>5, AccountChanges, CreateEffect

\* A link that was made, for this service or for any.
Allows(s, v) == session[s] # "none" /\ pin[s] \in {v, None}

\* A state was issued for a link that allowed its service.
StatesFit == \A x \in Flows : flow[x].session # None => Allows(flow[x].session, flow[x].service)

\* The hosted form is for services with keys, and keeps its link.
FormsFit ==
    \A a \in 1..created :
        about[a].by = "form" => about[a].service \in KeyServices /\ about[a].session \in Sessions

UsedFits == \A s \in Sessions : result[s] # None => session[s] # "none" /\ result[s] \in 1..created
HeardFits == announced \subseteq 1..created

\* What a request knows of its link, its service and its account.
KnowsLink(r) ==
    /\ request[r].session # None => Allows(request[r].session, request[r].service)
    /\ request[r].flow # None => request[r].service \in OAuthServices
    /\ request[r].pc = "submit" => request[r].service \in KeyServices
    /\ request[r].pc \in {"burn", "exchange", "create", "persist", "insert", "replace"} =>
           request[r].flow # None

KnowsAccount(r) ==
    /\ request[r].account # None =>
           request[r].account \in 1..created /\ about[request[r].account].service = request[r].service
    /\ request[r].pc \in {"replace", "announce", "complete", "claim", "delete"} =>
           credential[request[r].account] > 0
    /\ request[r].pc = "claim" => about[request[r].account].session = request[r].session

\* ... and of what it was announced for: a used link, or nothing yet.
KnowsUse(r) ==
    /\ request[r].pc = "announce" /\ about[request[r].account].by = "form" =>
           result[about[request[r].account].session] = request[r].account
    /\ request[r].pc = "announce" /\ request[r].flow = None /\ request[r].session # None =>
           result[request[r].session] # None
    /\ request[r].pc = "complete" =>
           request[r].account \notin accounts \/ request[r].account \in announced

LinkInv == StatesFit /\ UsedFits /\ HeardFits /\ FormsFit
           /\ \A r \in Requests : KnowsLink(r) /\ KnowsAccount(r) /\ KnowsUse(r)

LEMMA NoneIsNone ==
    /\ None \notin Sessions /\ None \notin Flows /\ None \notin Accounts /\ None \notin Services
    /\ TypeOK => None \notin 1..created
  BY ConstantsAssumption DEF Services, Accounts, TypeOK

LEMMA AllowsKept ==
    ASSUME TypeOK, Next, NEW s \in Sessions, NEW v, Allows(s, v)
    PROVE  session'[s] # "none" /\ pin'[s] \in {v, None}
  BY LinksGrow DEF Allows, GrowsLinks

LEMMA CredentialNat ==
    ASSUME TypeOK, NEW a \in 1..created
    PROVE  a \in Accounts /\ credential[a] \in Nat /\ about[a] \in About
  BY ConstantsAssumption DEF TypeOK, Accounts

\* A request that stands still knows what it knew.
LEMMA KnowsLinkKept ==
    ASSUME TypeOK, Next, NEW r \in Requests, KnowsLink(r), request'[r] = request[r]
    PROVE  KnowsLink(r)'
  <1>1. request[r].session # None => Allows(request[r].session, request[r].service)'
    <2> SUFFICES ASSUME request[r].session # None
                 PROVE  Allows(request[r].session, request[r].service)'
      OBVIOUS
    <2>1. request[r].session \in Sessions
      BY RequestType
    <2>2. Allows(request[r].session, request[r].service)
      BY DEF KnowsLink
    <2>3. /\ session'[request[r].session] # "none"
          /\ pin'[request[r].session] \in {request[r].service, None}
      BY <2>1, <2>2, AllowsKept
    <2> QED
      BY <2>3 DEF Allows
  <1> QED
    BY <1>1 DEF KnowsLink

LEMMA KnowsAccountKept ==
    ASSUME TypeOK, Next, NEW r \in Requests, KnowsAccount(r), request'[r] = request[r]
    PROVE  KnowsAccount(r)'
  <1>1. GrowsAccounts
    BY AccountsGrow
  <1>2. request[r].pc \in {"replace", "announce", "complete", "claim", "delete"} =>
            request[r].account \in 1..created
    BY DEF TypeOK
  <1>3. \A a \in 1..created : credential[a] > 0 => credential'[a] > 0
    BY <1>1, CredentialNat DEF GrowsAccounts
  <1> QED
    BY <1>1, <1>2, <1>3 DEF KnowsAccount, GrowsAccounts

LEMMA KnowsUseKept ==
    ASSUME TypeOK, Next, FormsFit, NEW r \in Requests, KnowsUse(r), request'[r] = request[r]
    PROVE  KnowsUse(r)'
  <1>1. GrowsAccounts /\ GrowsLinks
    BY AccountsGrow, LinksGrow
  <1>2. request[r].pc \in {"announce", "complete"} =>
            request[r].account \in 1..created /\ request[r].account # None
    BY NoneIsNone DEF TypeOK
  <1>3. request[r].session # None => request[r].session \in Sessions
    BY RequestType
  <1>4. ASSUME request[r].pc = "announce", about'[request[r].account].by = "form"
        PROVE  result'[about'[request[r].account].session] = request[r].account
    <2>1. about'[request[r].account] = about[request[r].account]
      BY <1>1, <1>2, <1>4 DEF GrowsAccounts
    <2>2. about[request[r].account].session \in Sessions
      BY <2>1, <1>2, <1>4 DEF FormsFit
    <2> QED
      BY <2>1, <2>2, <1>1, <1>2, <1>4 DEF KnowsUse, GrowsLinks
  <1>5. ASSUME request[r].pc = "announce", request[r].flow = None, request[r].session # None
        PROVE  result'[request[r].session] # None
    BY <1>1, <1>3, <1>5 DEF KnowsUse, GrowsLinks
  <1>6. ASSUME request[r].pc = "complete"
        PROVE  request[r].account \notin accounts' \/ request[r].account \in announced'
    BY <1>1, <1>2, <1>6 DEF KnowsUse, GrowsLinks, GrowsAccounts
  <1> QED
    BY <1>4, <1>5, <1>6 DEF KnowsUse

\* Which steps touch states, accounts, used links and announcements, and how.
LEMMA StatesChange ==
    ASSUME TypeOK, Next, NEW x \in Flows,
           <<flow'[x].session, flow'[x].service>> # <<flow[x].session, flow[x].service>>
    PROVE  \E s \in Sessions \cup {None}, v \in OAuthServices :
              BeginOAuthFlow(x, s, v) /\ flow'[x].session = s /\ flow'[x].service = v
  <1>1. ~UNCHANGED flow
    OBVIOUS
  <1>2. ASSUME NEW r \in Requests, BurnState(r) PROVE FALSE
    <2>1. CASE request[r].flow = x
      <3> DEFINE burnt == [flow[x] EXCEPT !.status = "consumed"]
      <3>1. flow[x] \in Flow
        BY DEF TypeOK
      <3>2. burnt.session = flow[x].session /\ burnt.service = flow[x].service
        BY <3>1 DEF Flow
      <3>3. flow' = [flow EXCEPT ![x] = burnt]
        BY <1>2, <2>1 DEF BurnState
      <3> HIDE DEF burnt
      <3> QED
        BY <3>2, <3>3 DEF TypeOK
    <2> QED
      BY <1>2, <2>1, BurnEffect
  <1>3. ASSUME NEW y \in Flows, FlowExpires(y) PROVE FALSE
    <2> DEFINE over == [flow[y] EXCEPT !.status = "expired"]
    <2>1. flow[y] \in Flow
      BY DEF TypeOK
    <2>2. over.session = flow[y].session /\ over.service = flow[y].service
      BY <2>1 DEF Flow
    <2>3. flow' = [flow EXCEPT ![y] = over]
      BY <1>3 DEF FlowExpires
    <2> HIDE DEF over
    <2> QED
      BY <2>2, <2>3 DEF TypeOK
  <1>4. PICK y \in Flows, s \in Sessions \cup {None}, v \in OAuthServices : BeginOAuthFlow(y, s, v)
    BY <1>1, <1>2, <1>3, FlowChanges
  <1>5. flow' = [flow EXCEPT ![y] = [status |-> "open", session |-> s, service |-> v]]
    BY <1>4 DEF BeginOAuthFlow
  <1>6. y = x /\ flow'[x].session = s /\ flow'[x].service = v
    BY <1>5 DEF TypeOK
  <1> QED
    BY <1>4, <1>6

LEMMA LinkRows ==
    ASSUME Next
    PROVE  /\ UNCHANGED result \/ \E r \in Requests : Claim(r) \/ Complete(r)
           /\ UNCHANGED announced \/ \E r \in Requests : Announce(r)
  <1> DEFINE Still == UNCHANGED <<result, announced>>
  <1>1. ASSUME NEW s \in Sessions, CreateConnectSession(s) \/ SessionExpires(s) PROVE Still
    BY <1>1 DEF CreateConnectSession, SessionExpires, history
  <1>2. ASSUME NEW x, NEW s, NEW v, BeginOAuthFlow(x, s, v) \/ FlowExpires(x) PROVE Still
    BY <1>2 DEF BeginOAuthFlow, FlowExpires, history
  <1>3. ASSUME NEW a, Remove(a) PROVE Still
    BY <1>3 DEF Remove, history
  <1>4. ASSUME NEW r, NEW x, NEW s, NEW v,
               ReadState(r, x) \/ SubmitConnectCredentials(r, s, v) \/ ConnectErpAccount(r, v)
        PROVE  Still
    BY <1>4 DEF ReadState, SubmitConnectCredentials, ConnectErpAccount, tables, history
  <1>5. ASSUME NEW r, \/ ExchangeFails(r) \/ FindAccount(r) \/ FindCredential(r) \/ ReplaceCredential(r)
                      \/ PersistFails(r) \/ Fail(r)
        PROVE  Still
    BY <1>5 DEF ExchangeFails, FindAccount, FindCredential, ReplaceCredential, PersistFails, Fail,
                tables, history
  <1>6. ASSUME NEW r, \/ BurnState(r) \/ DeleteLoser(r) \/ InsertCredential(r)
                      \/ CreateAccount(r) \/ CreateForSession(r)
        PROVE  Still
    BY <1>6 DEF BurnState, DeleteLoser, InsertCredential, CreateAccount, CreateForSession, history
  <1>7. ASSUME NEW r, Claim(r) \/ Complete(r) PROVE UNCHANGED announced
    BY <1>7 DEF Claim, Complete, history
  <1>8. ASSUME NEW r, Announce(r) PROVE UNCHANGED result
    BY <1>8 DEF Announce, tables
  <1>9. CASE \E r \in Requests : Claim(r) \/ Complete(r) \/ Announce(r)
    BY <1>7, <1>8, <1>9
  <1>10. CASE ~\E r \in Requests : Claim(r) \/ Complete(r) \/ Announce(r)
    <2>1. Still
      <3> HIDE DEF Still
      <3> QED
        BY <1>1, <1>2, <1>3, <1>4, <1>5, <1>6, <1>10 DEF Next, RequestStep
    <2> QED
      BY <2>1
  <1> QED
    BY <1>9, <1>10

LEMMA ResultsChange ==
    ASSUME TypeOK, Next, NEW s \in Sessions, result'[s] # result[s]
    PROVE  \E r \in Requests : /\ Claim(r) \/ Complete(r)
                               /\ request[r].session = s /\ result[s] = None
                               /\ result'[s] = request[r].account
  <1>1. ASSUME NEW r \in Requests, Claim(r) \/ Complete(r)
        PROVE  request[r].session = s /\ result[s] = None /\ result'[s] = request[r].account
    BY <1>1 DEF Claim, Complete, CompleteConnectSession, TypeOK
  <1> QED
    BY <1>1, LinkRows

LEMMA AnnouncedChange ==
    ASSUME TypeOK, Next, NEW a \in announced', a \notin announced
    PROVE  \E r \in Requests : Announce(r) /\ request[r].account = a /\ a \in accounts
  <1>1. ASSUME NEW r \in Requests, Announce(r)
        PROVE  request[r].account = a /\ a \in accounts
    BY <1>1 DEF Announce
  <1> QED
    BY <1>1, LinkRows

LEMMA CreatedChange ==
    ASSUME TypeOK, Next, created' # created
    PROVE  \E r \in Requests : \/ CreateAccount(r) \/ CreateForSession(r)
                               \/ \E v \in Services : ConnectErpAccount(r, v)
  BY DEF Next, RequestStep, CreateConnectSession, SessionExpires, Remove, ReadState,
         SubmitConnectCredentials, ExchangeFails, FindAccount, BurnState, BeginOAuthFlow, FlowExpires,
         FindCredential, InsertCredential, ReplaceCredential, PersistFails, DeleteLoser, Announce,
         Claim, Complete, Fail, tables, history, met

LEMMA TablesStep ==
    ASSUME TypeOK, LinkInv, Next
    PROVE  StatesFit' /\ UsedFits' /\ HeardFits' /\ FormsFit'
  <1>a. GrowsAccounts /\ GrowsLinks
    BY AccountsGrow, LinksGrow
  <1>b. \A s \in Sessions : \A v : Allows(s, v) => session'[s] # "none" /\ pin'[s] \in {v, None}
    BY <1>a DEF Allows, GrowsLinks
  <1>1. StatesFit'
    <2> SUFFICES ASSUME NEW x \in Flows, flow'[x].session # None
                 PROVE  Allows(flow[x].session, flow[x].service)'
      BY DEF StatesFit
    <2>1. flow[x].session \in Sessions \cup {None}
      BY DEF TypeOK, Flow
    <2>2. CASE flow'[x].session = flow[x].session /\ flow'[x].service = flow[x].service
      <3>1. flow[x].session \in Sessions /\ Allows(flow[x].session, flow[x].service)
        BY <2>1, <2>2 DEF LinkInv, StatesFit
      <3> QED
        BY <1>b, <2>2, <3>1 DEF Allows
    <2>3. CASE ~(flow'[x].session = flow[x].session /\ flow'[x].service = flow[x].service)
      <3>1. PICK s \in Sessions \cup {None}, v \in OAuthServices :
               BeginOAuthFlow(x, s, v) /\ flow'[x].session = s /\ flow'[x].service = v
        BY <2>3, StatesChange
      <3>2. s \in Sessions /\ Allows(s, v)
        BY <3>1 DEF BeginOAuthFlow, Offers, Resolves, Allows
      <3> QED
        BY <1>b, <3>1, <3>2 DEF Allows
    <2> QED
      BY <2>2, <2>3
  <1>2. UsedFits'
    <2> SUFFICES ASSUME NEW s \in Sessions, result'[s] # None
                 PROVE  session'[s] # "none" /\ result'[s] \in 1..created'
      BY DEF UsedFits
    <2>1. CASE result'[s] = result[s]
      <3>1. session[s] # "none" /\ result[s] \in 1..created
        BY <2>1 DEF LinkInv, UsedFits
      <3> QED
        BY <1>a, <2>1, <3>1 DEF GrowsAccounts, GrowsLinks
    <2>2. CASE result'[s] # result[s]
      <3>1. PICK r \in Requests : /\ Claim(r) \/ Complete(r)
                                  /\ request[r].session = s
                                  /\ result'[s] = request[r].account
        BY <2>2, ResultsChange
      <3>2. request[r].account \in 1..created
        BY <3>1 DEF Claim, Complete, TypeOK
      <3>3. Allows(s, request[r].service)
        BY <3>1, NoneIsNone DEF LinkInv, KnowsLink
      <3> QED
        BY <1>a, <1>b, <3>1, <3>2, <3>3 DEF GrowsAccounts
    <2> QED
      BY <2>1, <2>2
  <1>3. HeardFits'
    <2> SUFFICES ASSUME NEW a \in announced' PROVE a \in 1..created'
      BY DEF HeardFits
    <2>1. accounts \subseteq 1..created
      BY DEF TypeOK
    <2>2. a \in 1..created
      BY <2>1, AnnouncedChange DEF LinkInv, HeardFits
    <2> QED
      BY <1>a, <2>2 DEF GrowsAccounts
  <1>4. FormsFit'
    <2> SUFFICES ASSUME NEW a \in 1..created', about'[a].by = "form"
                 PROVE  about'[a].service \in KeyServices /\ about'[a].session \in Sessions
      BY DEF FormsFit
    <2>1. CASE a \in 1..created
      BY <1>a, <2>1 DEF GrowsAccounts, LinkInv, FormsFit
    <2>2. CASE a \notin 1..created
      <3>1. created' # created
        BY <2>2
      <3>2. ASSUME NEW r \in Requests, CreateForSession(r)
            PROVE  about'[a].service \in KeyServices /\ about'[a].session \in Sessions
        <4>1. request[r].service \in KeyServices /\ request[r].session \in Sessions
          BY <3>2 DEF LinkInv, KnowsLink, CreateForSession, TypeOK
        <4>2. Founds("form", request[r].session, request[r].service, 1)
          BY <3>2 DEF CreateForSession, Founds
        <4>3. Founded("form", request[r].session, request[r].service, 1)
          BY <4>1, <4>2, FoundsEffect DEF Services
        <4>4. a = created + 1
          BY <1>a, <2>2, <4>3 DEF Founded, GrowsAccounts
        <4> QED
          BY <4>1, <4>3, <4>4 DEF Founded
      <3>3. ASSUME NEW r \in Requests, NEW v \in Services, ConnectErpAccount(r, v) PROVE FALSE
        <4>1. Founds("console", None, v, 1)
          BY <3>3 DEF ConnectErpAccount, Founds
        <4>2. Founded("console", None, v, 1)
          BY <4>1, FoundsEffect
        <4>3. a = created + 1
          BY <1>a, <2>2, <4>2 DEF Founded, GrowsAccounts
        <4> QED
          BY <4>2, <4>3 DEF Founded
      <3>4. ASSUME NEW r \in Requests, CreateAccount(r) PROVE FALSE
        <4>1. Founded("callback", request[r].session, request[r].service, 0)
          BY <3>4, CreateEffect, FoundsEffect
        <4>2. a = created + 1
          BY <1>a, <2>2, <4>1 DEF Founded, GrowsAccounts
        <4> QED
          BY <4>1, <4>2 DEF Founded
      <3> QED
        BY <3>1, <3>2, <3>3, <3>4, CreatedChange
    <2> QED
      BY <2>1, <2>2
  <1> QED
    BY <1>1, <1>2, <1>3, <1>4

Knows(r) == KnowsLink(r) /\ KnowsAccount(r) /\ KnowsUse(r)

\* Nobody knows nothing.
LEMMA KnowsIdle ==
    ASSUME NEW r \in Requests, request'[r] = Idle
    PROVE  Knows(r)'
  BY IdleType DEF Knows, KnowsLink, KnowsAccount, KnowsUse

LEMMA KnowsLinkMoves ==
    ASSUME TypeOK, Next, NEW r \in Requests, NEW pc, NEW a, Moves(r, pc, a), KnowsLink(r),
           pc # "submit",
           pc \in {"burn", "exchange", "create", "persist", "insert", "replace"} =>
               request[r].flow # None
    PROVE  KnowsLink(r)'
  <1>1. request[r].session # None => Allows(request[r].session, request[r].service)'
    <2> SUFFICES ASSUME request[r].session # None
                 PROVE  Allows(request[r].session, request[r].service)'
      OBVIOUS
    <2>1. request[r].session \in Sessions
      BY RequestType
    <2>2. Allows(request[r].session, request[r].service)
      BY DEF KnowsLink
    <2>3. /\ session'[request[r].session] # "none"
          /\ pin'[request[r].session] \in {request[r].service, None}
      BY <2>1, <2>2, AllowsKept
    <2> QED
      BY <2>3 DEF Allows, Moves
  <1> QED
    BY <1>1 DEF KnowsLink, Moves, Allows

\* Accounts made while tables stand still.
LEMMA KnowsAccountMoves ==
    ASSUME TypeOK, Next, NEW r \in Requests, NEW pc, NEW a \in 1..created, Moves(r, pc, a),
           about[a].service = request[r].service,
           pc \in {"replace", "announce", "complete", "claim", "delete"} => credential'[a] > 0,
           pc # "claim"
    PROVE  KnowsAccount(r)'
  <1>1. GrowsAccounts
    BY AccountsGrow
  <1> QED
    BY <1>1 DEF KnowsAccount, Moves, GrowsAccounts

\* A form's account is not found by a callback.
LEMMA CallbacksMissForms ==
    ASSUME TypeOK, LinkInv, Next, NEW r \in Requests, NEW a \in 1..created, request[r].flow # None,
           about[a].service = request[r].service
    PROVE  about'[a].by # "form"
  <1>1. about'[a] = about[a]
    BY AccountsGrow DEF GrowsAccounts
  <1>2. request[r].service \in OAuthServices
    BY DEF LinkInv, KnowsLink
  <1> QED
    BY <1>1, <1>2, ConstantsAssumption DEF LinkInv, FormsFit

LEMMA KnowsActs ==
    ASSUME TypeOK, LinkInv, Next, NEW r \in Requests, Acts(r)
    PROVE  Knows(r)'
  <1> USE NoneIsNone
  <1>a. KnowsLink(r) /\ KnowsAccount(r) /\ KnowsUse(r) /\ StatesFit /\ FormsFit
    BY DEF LinkInv
  <1>b. GrowsAccounts /\ GrowsLinks
    BY AccountsGrow, LinksGrow
  <1>c. accounts \subseteq 1..created /\ \A a \in 1..created : credential[a] \in Nat /\ a # None
    BY CredentialNat DEF TypeOK
  <1>d. \A s \in Sessions : \A v : Allows(s, v) => session'[s] # "none" /\ pin'[s] \in {v, None}
    BY <1>b DEF Allows, GrowsLinks
  <1>1. ASSUME NEW x \in Flows, ReadState(r, x), Reads(r, x) PROVE Knows(r)'
    <2>1. /\ flow[x].service \in OAuthServices
          /\ flow[x].session # None => flow[x].session \in Sessions
                                       /\ Allows(flow[x].session, flow[x].service)
      BY <1>1, <1>a DEF ReadState, TypeOK, StatesFit, Flow
    <2>2. /\ request'[r].pc = "burn" /\ request'[r].session = flow[x].session
          /\ request'[r].service = flow[x].service /\ request'[r].flow = x
          /\ request'[r].account = None
      BY <1>1 DEF Reads
    <2>3. KnowsLink(r)'
      BY <1>d, <2>1, <2>2 DEF KnowsLink, Allows
    <2> QED
      BY <2>2, <2>3 DEF Knows, KnowsAccount, KnowsUse
  <1>2. ASSUME NEW s \in Sessions, NEW v \in KeyServices, SubmitConnectCredentials(r, s, v),
               Submits(r, s, v)
        PROVE  Knows(r)'
    <2>1. Allows(s, v)
      BY <1>2 DEF SubmitConnectCredentials, Offers, Resolves, Allows
    <2>2. /\ request'[r].pc = "submit" /\ request'[r].session = s /\ request'[r].service = v
          /\ request'[r].flow = None /\ request'[r].account = None
      BY <1>2 DEF Submits
    <2>3. KnowsLink(r)'
      BY <1>d, <2>1, <2>2 DEF KnowsLink, Allows
    <2> QED
      BY <2>2, <2>3 DEF Knows, KnowsAccount, KnowsUse
  <1>3. ASSUME NEW v \in Services, ConnectErpAccount(r, v), Connects(r, v) PROVE Knows(r)'
    <2>1. Founds("console", None, v, 1)
      BY <1>3 DEF ConnectErpAccount, Founds
    <2>2. Founded("console", None, v, 1)
      BY <2>1, FoundsEffect
    <2>3. /\ request'[r].pc = "announce" /\ request'[r].session = None /\ request'[r].service = v
          /\ request'[r].flow = None /\ request'[r].account = created + 1
      BY <1>3 DEF Connects
    <2>4. /\ created + 1 \in 1..created' /\ about'[created + 1].service = v
          /\ about'[created + 1].by = "console" /\ credential'[created + 1] > 0
      BY <1>b, <2>2 DEF Founded, GrowsAccounts
    <2> QED
      BY <2>3, <2>4 DEF Knows, KnowsLink, KnowsAccount, KnowsUse
  <1>4. ASSUME BurnState(r), Moves(r, "exchange", None) PROVE Knows(r)'
    <2>1. KnowsLink(r)'
      BY <1>4, <1>a, KnowsLinkMoves DEF BurnState, KnowsLink
    <2> QED
      BY <1>4, <2>1 DEF Knows, KnowsAccount, KnowsUse, Moves
  <1>5. ASSUME FindAccount(r), Moves(r, "create", None) PROVE Knows(r)'
    <2>1. KnowsLink(r)'
      BY <1>5, <1>a, KnowsLinkMoves DEF FindAccount, KnowsLink
    <2> QED
      BY <1>5, <2>1 DEF Knows, KnowsAccount, KnowsUse, Moves
  <1>6. ASSUME FindAccount(r), NEW a \in accounts, about[a].service = request[r].service,
               Moves(r, "persist", a)
        PROVE  Knows(r)'
    <2>1. KnowsLink(r)'
      BY <1>6, <1>a, KnowsLinkMoves DEF FindAccount, KnowsLink
    <2>2. KnowsAccount(r)'
      BY <1>c, <1>6, KnowsAccountMoves
    <2> QED
      BY <1>6, <2>1, <2>2 DEF Knows, KnowsUse, Moves
  <1>7. ASSUME CreateAccount(r), Moves(r, "persist", created + 1) PROVE Knows(r)'
    <2>1. KnowsLink(r)'
      BY <1>7, <1>a, KnowsLinkMoves DEF CreateAccount, KnowsLink
    <2>2. Founded("callback", request[r].session, request[r].service, 0)
      BY <1>7, CreateEffect, FoundsEffect
    <2>3. created + 1 \in 1..created' /\ about'[created + 1].service = request[r].service
      BY <1>b, <2>2 DEF Founded, GrowsAccounts
    <2> QED
      BY <1>7, <2>1, <2>3 DEF Knows, KnowsAccount, KnowsUse, Moves
  <1>8. ASSUME FindCredential(r), NEW pc \in {"replace", "insert"}, Moves(r, pc, request[r].account)
        PROVE  Knows(r)'
    <2>1. KnowsLink(r)'
      BY <1>8, <1>a, KnowsLinkMoves DEF FindCredential, KnowsLink
    <2>2. request[r].account \in 1..created
      BY <1>8 DEF FindCredential, TypeOK
    <2>3. pc = "replace" => credential[request[r].account] > 0
      BY <1>8, GoesMoves DEF FindCredential, Moves
    <2>4. UNCHANGED credential
      BY <1>8 DEF FindCredential, tables
    <2>5. KnowsAccount(r)'
      BY <1>a, <1>c, <1>8, <2>2, <2>3, <2>4, KnowsAccountMoves DEF KnowsAccount
    <2> QED
      BY <1>8, <2>1, <2>5 DEF Knows, KnowsUse, Moves
  <1>9. ASSUME InsertCredential(r) \/ ReplaceCredential(r), Moves(r, "announce", request[r].account)
        PROVE  Knows(r)'
    <2>1. request[r].flow # None
      BY <1>9, <1>a DEF InsertCredential, ReplaceCredential, KnowsLink
    <2>2. KnowsLink(r)'
      BY <1>9, <1>a, <2>1, KnowsLinkMoves
    <2>3. request[r].account \in 1..created
      BY <1>9 DEF InsertCredential, ReplaceCredential, TypeOK
    <2>4. about[request[r].account].service = request[r].service
      BY <1>a, <1>c, <2>3 DEF KnowsAccount
    <2>5. credential'[request[r].account] > 0
      <3>1. CASE InsertCredential(r)
        BY <1>c, <2>3, <3>1, InsertEffect
      <3>2. CASE ReplaceCredential(r)
        BY <1>a, <3>2 DEF ReplaceCredential, KnowsAccount, tables
      <3> QED
        BY <1>9, <3>1, <3>2
    <2>6. KnowsAccount(r)'
      BY <1>9, <2>3, <2>4, <2>5, KnowsAccountMoves
    <2>7. about'[request[r].account].by # "form"
      BY <2>1, <2>3, <2>4, CallbacksMissForms
    <2> QED
      BY <1>9, <2>1, <2>2, <2>6, <2>7 DEF Knows, KnowsUse, Moves
  <1>10. ASSUME CreateForSession(r), Moves(r, "claim", created + 1) PROVE Knows(r)'
    <2>1. KnowsLink(r)'
      BY <1>10, <1>a, KnowsLinkMoves
    <2>2. request[r].session \in Sessions /\ request[r].service \in Services
      BY <1>10 DEF CreateForSession, TypeOK
    <2>3. Founds("form", request[r].session, request[r].service, 1)
      BY <1>10 DEF CreateForSession, Founds
    <2>4. Founded("form", request[r].session, request[r].service, 1)
      BY <2>2, <2>3, FoundsEffect
    <2>5. /\ created + 1 \in 1..created' /\ about'[created + 1].service = request[r].service
          /\ about'[created + 1].session = request[r].session /\ credential'[created + 1] > 0
      BY <1>b, <2>4 DEF Founded, GrowsAccounts
    <2> QED
      BY <1>10, <2>1, <2>5 DEF Knows, KnowsAccount, KnowsUse, Moves
  <1>11. ASSUME Claim(r), NEW pc \in {"announce", "delete"}, Moves(r, pc, request[r].account)
         PROVE  Knows(r)'
    <2>1. KnowsLink(r)'
      BY <1>11, <1>a, KnowsLinkMoves
    <2>2. request[r].account \in 1..created /\ request[r].session \in Sessions
      BY <1>11 DEF Claim, TypeOK
    <2>3. /\ credential[request[r].account] > 0 /\ UNCHANGED <<credential, about>>
          /\ about[request[r].account].session = request[r].session
      BY <1>11, <1>a DEF Claim, KnowsAccount
    <2>4. KnowsAccount(r)'
      BY <1>a, <1>c, <1>11, <2>2, <2>3, KnowsAccountMoves DEF KnowsAccount
    <2>5. pc = "announce" => result'[request[r].session] = request[r].account
      BY <1>11, <2>2, GoesMoves DEF Claim, Moves, CompleteConnectSession, TypeOK
    <2> QED
      BY <1>c, <1>11, <2>1, <2>2, <2>3, <2>4, <2>5 DEF Knows, KnowsUse, Moves
  <1>12. ASSUME Announce(r), Moves(r, "complete", request[r].account) PROVE Knows(r)'
    <2>1. KnowsLink(r)'
      BY <1>12, <1>a, KnowsLinkMoves
    <2>2. request[r].account \in 1..created
      BY <1>12 DEF Announce, TypeOK
    <2>3. credential[request[r].account] > 0 /\ UNCHANGED <<credential, accounts>>
      BY <1>12, <1>a DEF Announce, KnowsAccount, tables
    <2>4. KnowsAccount(r)'
      BY <1>a, <1>c, <1>12, <2>2, <2>3, KnowsAccountMoves DEF KnowsAccount
    <2>5. request[r].account \notin accounts' \/ request[r].account \in announced'
      BY <1>12, <2>3 DEF Announce
    <2> QED
      BY <1>12, <2>1, <2>4, <2>5 DEF Knows, KnowsUse, Moves
  <1> QED
    BY <1>1, <1>2, <1>3, <1>4, <1>5, <1>6, <1>7, <1>8, <1>9, <1>10, <1>11, <1>12, KnowsIdle DEF Acts

LEMMA LinkStep == TypeOK /\ LinkInv /\ [Next]_vars => LinkInv'
  <1> SUFFICES ASSUME TypeOK, LinkInv, [Next]_vars PROVE LinkInv'
    OBVIOUS
  <1>1. CASE UNCHANGED vars
    BY <1>1 DEF LinkInv, StatesFit, UsedFits, HeardFits, FormsFit, Allows, KnowsLink, KnowsAccount,
                KnowsUse, vars, tables, history, met
  <1>2. CASE Next
    <2>1. ASSUME NEW r \in Requests, request'[r] = request[r] PROVE Knows(r)'
      <3>1. KnowsLink(r) /\ KnowsAccount(r) /\ KnowsUse(r) /\ FormsFit
        BY DEF LinkInv
      <3> QED
        BY <1>2, <2>1, <3>1, KnowsLinkKept, KnowsAccountKept, KnowsUseKept DEF Knows
    <2>2. \A r \in Requests : Knows(r)'
      BY <1>2, <2>1, KnowsActs, WhoActs
    <2> QED
      BY <1>2, <2>2, TablesStep DEF LinkInv, Knows
  <1> QED
    BY <1>1, <1>2

\* The tables fit together, and requests act on what is still true.
THEOREM LinkInvariance == Spec => []LinkInv
  <1>1. Init => LinkInv
    BY NoneIsNone, IdleType DEF Init, LinkInv, StatesFit, UsedFits, HeardFits, FormsFit, KnowsLink,
                                KnowsAccount, KnowsUse
  <1> QED
    BY <1>1, LinkStep, ConnectTypeCorrect, PTL DEF Spec

\* connect-session.ts:18-20, the product hears back: a request that stored a
\* credential under a link does not end, short of a fault, before the link is used.
THEOREM LinkIsUsed == Spec => StoredLinkIsUsed
  <1>1. ASSUME TypeOK, LinkInv, [Next]_vars, NEW r \in Requests,
               request[r].pc \in {"announce", "complete"}, request[r].session # None,
               request'[r] = Idle
        PROVE  result'[request[r].session] # None \/ faults' > faults
    <2>1. request[r].session \in Sessions
      BY <1>1, RequestType
    <2>2. request'[r] # request[r] /\ request'[r].pc = "idle"
      BY <1>1, IdleType
    <2>3. Next /\ Acts(r)
      BY <1>1, <2>2, WhoActs DEF vars, tables
    <2>4. \/ ExchangeFails(r) \/ PersistFails(r) \/ Fail(r) \/ DeleteLoser(r) \/ Announce(r) \/ Complete(r)
      BY <2>2, <2>3, FirstRecords DEF Acts, Moves
    <2>5. CASE Fail(r)
      BY <1>1, <2>5 DEF Fail, TypeOK
    <2>6. CASE Complete(r)
      <3>1. request[r].account # None
        BY <1>1, <2>6, NoneIsNone DEF Complete, TypeOK
      <3> QED
        BY <1>1, <2>1, <2>6, <3>1 DEF Complete, CompleteConnectSession, TypeOK
    <2>7. CASE Announce(r)
      <3>1. request[r].flow = None
        BY <1>1, <2>2, <2>7, GoesMoves DEF Announce, Moves
      <3>2. result[request[r].session] # None
        BY <1>1, <2>7, <3>1 DEF LinkInv, KnowsUse, Announce
      <3> QED
        BY <2>7, <3>2 DEF Announce, tables
    <2> QED
      BY <1>1, <2>4, <2>5, <2>6, <2>7 DEF ExchangeFails, PersistFails, DeleteLoser
  <1>2. TypeOK /\ LinkInv /\ [Next]_vars =>
           [\A r \in Requests :
             LET s == request[r].session
             IN  /\ request[r].pc \in {"announce", "complete"}
                 /\ s # None
                 /\ request'[r] = Idle
                 => result'[s] # None \/ faults' > faults]_vars
    BY <1>1
  <1> QED
    BY <1>2, LinkInvariance, ConnectTypeCorrect, PTL DEF Spec, StoredLinkIsUsed

\* What subscribers heard of stays connected.
LEMMA HeardStep == TypeOK /\ LinkInv /\ AnnouncedIsConnected /\ [Next]_vars => AnnouncedIsConnected'
  <1> SUFFICES ASSUME TypeOK, LinkInv, AnnouncedIsConnected, Next PROVE AnnouncedIsConnected'
    BY DEF AnnouncedIsConnected, vars, tables, history, met
  <1> SUFFICES ASSUME NEW a \in announced' \cap accounts'
               PROVE  /\ credential'[a] > 0
                      /\ about'[a].by = "form" => result'[about'[a].session] = a
    BY DEF AnnouncedIsConnected
  <1>a. GrowsAccounts /\ GrowsLinks
    BY AccountsGrow, LinksGrow
  <1>1. /\ a \in 1..created /\ a \in accounts /\ credential[a] > 0
        /\ about[a].by = "form" => result[about[a].session] = a
    <2>1. accounts \subseteq 1..created
      BY DEF TypeOK
    <2>2. CASE a \in announced
      BY <1>a, <2>2 DEF LinkInv, HeardFits, GrowsAccounts, AnnouncedIsConnected
    <2>3. CASE a \notin announced
      <3>1. PICK r \in Requests : Announce(r) /\ request[r].account = a /\ a \in accounts
        BY <2>3, AnnouncedChange
      <3> QED
        BY <2>1, <3>1 DEF Announce, LinkInv, KnowsAccount, KnowsUse
    <2> QED
      BY <2>2, <2>3
  <1>2. /\ about'[a] = about[a] /\ credential[a] <= credential'[a]
        /\ credential[a] \in Nat /\ credential'[a] \in Nat
    BY <1>a, <1>1, CredentialNat DEF GrowsAccounts
  <1>3. about[a].by = "form" => about[a].session \in Sessions /\ a # None
    BY <1>1, NoneIsNone DEF LinkInv, FormsFit
  <1> QED
    BY <1>a, <1>1, <1>2, <1>3 DEF GrowsLinks

\* connect.ts:72: a subscriber that hears of an account that is still there
\* finds a credential behind it, and the form announces only what its link was
\* burned for.
THEOREM HeardIsConnected == Spec => []AnnouncedIsConnected
  <1>1. Init => AnnouncedIsConnected
    BY DEF Init, AnnouncedIsConnected
  <1> QED
    BY <1>1, HeardStep, LinkInvariance, ConnectTypeCorrect, PTL DEF Spec

\* Where a request with an account in hand goes from its last steps.
LEMMA LeavesClaim ==
    ASSUME TypeOK, Next, NEW r \in Requests, request'[r] # request[r],
           request[r].pc \in {"claim", "delete", "announce"}
    PROVE  \/ Claim(r) /\ \E pc \in {"announce", "delete"} : Moves(r, pc, request[r].account)
           \/ Announce(r) \/ DeleteLoser(r) \/ Fail(r)
  <1>1. Acts(r) /\ request[r] # Idle
    BY WhoActs, IdleType
  <1> QED
    BY <1>1 DEF Acts, ReadState, SubmitConnectCredentials, ConnectErpAccount, BurnState, FindAccount,
                CreateAccount, FindCredential, InsertCredential, ReplaceCredential, CreateForSession,
                ExchangeFails, PersistFails, Complete

\* A claim wins its link, or goes on to remove its account.
LEMMA ClaimEffect ==
    ASSUME TypeOK, NEW r \in Requests, Claim(r)
    PROVE  /\ request[r].account \in 1..created /\ request[r].session \in Sessions
           /\ request'[r].account = request[r].account
           /\ \/ /\ result'[request[r].session] = request[r].account
                 /\ request'[r].pc = "announce"
              \/ request'[r].pc = "delete" /\ UNCHANGED result
  <1>1. request[r].account \in 1..created /\ request[r].session \in Sessions
    BY DEF Claim, TypeOK
  <1> QED
    BY <1>1, GoesMoves DEF Claim, Moves, CompleteConnectSession, TypeOK

\* Account a of the form is claimed, a casualty, or still in somebody's hands.
Claimed(a) ==
    \/ result[about[a].session] = a
    \/ a \in dropped
    \/ \E r \in Requests : request[r].account = a /\ request[r].pc \in {"claim", "delete"}

LEMMA LoserStep == TypeOK /\ LinkInv /\ LoserLeavesNothing /\ [Next]_vars => LoserLeavesNothing'
  <1> SUFFICES ASSUME TypeOK, LinkInv, LoserLeavesNothing, Next PROVE LoserLeavesNothing'
    BY DEF LoserLeavesNothing, vars, tables, history, met
  <1> SUFFICES ASSUME NEW a \in accounts', about'[a].by = "form" PROVE Claimed(a)'
    BY DEF LoserLeavesNothing, Claimed
  <1>a. GrowsAccounts /\ GrowsLinks
    BY AccountsGrow, LinksGrow
  <1>1. CASE a \in 1..created
    <2>1. a \in accounts /\ about'[a] = about[a] /\ about[a].session \in Sessions /\ a # None
      BY <1>a, <1>1, NoneIsNone DEF GrowsAccounts, LinkInv, FormsFit
    <2>2. Claimed(a)
      BY <2>1 DEF LoserLeavesNothing, Claimed
    <2>3. CASE result[about[a].session] = a \/ a \in dropped
      BY <1>a, <2>1, <2>3 DEF GrowsLinks, Claimed
    <2>4. ASSUME NEW r \in Requests, request[r].account = a, request[r].pc \in {"claim", "delete"}
          PROVE  Claimed(a)'
      <3>1. CASE request'[r] = request[r]
        BY <2>4, <3>1 DEF Claimed
      <3>2. ASSUME Claim(r) PROVE Claimed(a)'
        <4>1. about[a].session = request[r].session
          BY <2>4, <3>2 DEF Claim, LinkInv, KnowsAccount
        <4> QED
          BY <2>1, <2>4, <3>2, <4>1, ClaimEffect DEF Claimed
      <3>3. ASSUME DeleteLoser(r) PROVE FALSE
        BY <2>4, <3>3 DEF DeleteLoser
      <3>4. ASSUME Fail(r) PROVE Claimed(a)'
        BY <2>1, <2>4, <3>4 DEF Fail, Claimed
      <3> QED
        BY <2>4, <3>1, <3>2, <3>3, <3>4, LeavesClaim DEF Announce
    <2> QED
      BY <2>2, <2>3, <2>4 DEF Claimed
  <1>2. CASE a \notin 1..created
    <2>1. accounts' \subseteq 1..created'
      <3>1. TypeOK'
        BY TypeStep
      <3> QED
        BY <3>1 DEF TypeOK
    <2>2. created' # created
      BY <1>2, <2>1
    <2>3. ASSUME NEW r \in Requests, CreateForSession(r) PROVE Claimed(a)'
      <3>1. request[r].service \in Services /\ request[r].session \in Sessions
        BY <2>3 DEF CreateForSession, TypeOK
      <3>2. Founds("form", request[r].session, request[r].service, 1)
        BY <2>3 DEF CreateForSession, Founds
      <3>3. Founded("form", request[r].session, request[r].service, 1)
        BY <3>1, <3>2, FoundsEffect
      <3>4. a = created + 1
        BY <1>2, <3>3 DEF Founded
      <3>5. request'[r].pc = "claim" /\ request'[r].account = created + 1
        BY <2>3, GoesMoves DEF CreateForSession, Moves
      <3> QED
        BY <3>4, <3>5 DEF Claimed
    <2>4. ASSUME NEW r \in Requests, NEW v \in Services, ConnectErpAccount(r, v) PROVE FALSE
      <3>1. Founds("console", None, v, 1)
        BY <2>4 DEF ConnectErpAccount, Founds
      <3>2. Founded("console", None, v, 1)
        BY <3>1, FoundsEffect
      <3>3. a = created + 1
        BY <1>2, <3>2 DEF Founded
      <3> QED
        BY <3>2, <3>3 DEF Founded
    <2>5. ASSUME NEW r \in Requests, CreateAccount(r) PROVE FALSE
      <3>1. Founded("callback", request[r].session, request[r].service, 0)
        BY <2>5, CreateEffect, FoundsEffect
      <3>2. a = created + 1
        BY <1>2, <3>1 DEF Founded
      <3> QED
        BY <3>1, <3>2 DEF Founded
    <2> QED
      BY <2>2, <2>3, <2>4, <2>5, CreatedChange
  <1> QED
    BY <1>1, <1>2

\* connect.ts:72-74: an account of the hosted form that its link was not burned
\* for does not stay, unless its request failed or died on the way.
THEOREM LosersAreRemoved == Spec => []LoserLeavesNothing
  <1>1. Init => LoserLeavesNothing
    BY DEF Init, LoserLeavesNothing
  <1> QED
    BY <1>1, LoserStep, LinkInvariance, ConnectTypeCorrect, PTL DEF Spec

\* The account of a used link is gone, announced, a casualty, or about to be
\* announced.
Heard(a) ==
    \/ a \notin accounts
    \/ a \in announced
    \/ a \in dropped
    \/ \E r \in Requests : request[r].account = a /\ request[r].pc = "announce"

LEMMA ResultStep == TypeOK /\ LinkInv /\ ResultWasConnected /\ [Next]_vars => ResultWasConnected'
  <1> SUFFICES ASSUME TypeOK, LinkInv, ResultWasConnected, Next PROVE ResultWasConnected'
    BY DEF ResultWasConnected, vars, tables, history, met
  <1> SUFFICES ASSUME NEW s \in Sessions, NEW a, a = result'[s], a # None
               PROVE  /\ credential'[a] > 0
                      /\ pin'[s] \in {about'[a].service, None}
                      /\ Heard(a)'
    BY DEF ResultWasConnected, Heard
  <1>a. GrowsAccounts /\ GrowsLinks
    BY AccountsGrow, LinksGrow
  <1>1. /\ a \in 1..created /\ session[s] # "none"
        /\ credential[a] > 0 /\ pin[s] \in {about[a].service, None}
        /\ \/ Heard(a)
           \/ \E r \in Requests : request'[r].account = a /\ request'[r].pc = "announce"
    <2>1. CASE result[s] = a
      BY <2>1 DEF ResultWasConnected, Heard, LinkInv, UsedFits
    <2>2. CASE result[s] # a
      <3>1. PICK r \in Requests : /\ Claim(r) \/ Complete(r)
                                  /\ request[r].session = s /\ result[s] = None
                                  /\ a = request[r].account
        BY <2>2, ResultsChange
      <3>2. a \in 1..created /\ request[r].pc \in {"claim", "complete"} /\ s # None
        BY <3>1, NoneIsNone DEF Claim, Complete, TypeOK
      <3>3. /\ credential[a] > 0 /\ about[a].service = request[r].service
            /\ session[s] # "none" /\ pin[s] \in {request[r].service, None}
        BY <3>1, <3>2 DEF LinkInv, KnowsLink, KnowsAccount, Allows
      <3>4. ASSUME Claim(r) PROVE request'[r].account = a /\ request'[r].pc = "announce"
        BY <3>1, <3>4, ClaimEffect
      <3>5. ASSUME Complete(r) PROVE Heard(a)
        BY <3>1, <3>5 DEF Complete, LinkInv, KnowsUse, Heard
      <3> QED
        BY <3>1, <3>2, <3>3, <3>4, <3>5
    <2> QED
      BY <2>1, <2>2
  <1>2. credential'[a] > 0 /\ pin'[s] \in {about'[a].service, None}
    <2>1. /\ about'[a] = about[a] /\ credential[a] <= credential'[a]
          /\ credential[a] \in Nat /\ credential'[a] \in Nat
      BY <1>a, <1>1, CredentialNat DEF GrowsAccounts
    <2> QED
      BY <1>a, <1>1, <2>1 DEF GrowsLinks
  <1>3. Heard(a)'
    <2>1. CASE a \notin accounts \/ a \in announced \/ a \in dropped
      BY <1>a, <1>1, <2>1 DEF GrowsLinks, GrowsAccounts, Heard
    <2>2. CASE \E r \in Requests : request'[r].account = a /\ request'[r].pc = "announce"
      BY <2>2 DEF Heard
    <2>3. ASSUME NEW r \in Requests, request[r].account = a, request[r].pc = "announce"
          PROVE  Heard(a)'
      <3>1. CASE request'[r] = request[r]
        BY <2>3, <3>1 DEF Heard
      <3>2. CASE Announce(r)
        BY <2>3, <3>2 DEF Announce, Heard, tables
      <3>3. CASE Fail(r)
        BY <1>a, <2>3, <3>3 DEF Fail, Heard
      <3> QED
        BY <2>3, <3>1, <3>2, <3>3, LeavesClaim DEF Claim, DeleteLoser
    <2> QED
      BY <1>1, <2>1, <2>2, <2>3 DEF Heard
  <1> QED
    BY <1>2, <1>3

\* A used link names an account of its service that got a credential and of
\* which subscribers have heard, or are about to.
THEOREM UsedIsConnected == Spec => []ResultWasConnected
  <1>1. Init => ResultWasConnected
    BY DEF Init, ResultWasConnected
  <1> QED
    BY <1>1, ResultStep, LinkInvariance, ConnectTypeCorrect, PTL DEF Spec

----------------------------------------------------------------------------
(* What the overlaps take: callbacks of one service at the same time *)

\* No two callbacks for one service are under way at once.
CallbacksApart ==
    \A q, r \in Requests :
        /\ request[q].flow # None
        /\ request[r].flow # None
        /\ request[q].service = request[r].service
        => q = r

\* A callback that is about to burn a state is for the service of the state.
BurnsItsService ==
    \A r \in Requests :
        request[r].pc = "burn" =>
            /\ flow[request[r].flow].status # "none"
            /\ request[r].service = flow[request[r].flow].service

LEMMA BurnsItsServiceStep == TypeOK /\ BurnsItsService /\ [Next]_vars => BurnsItsService'
  <1> SUFFICES ASSUME TypeOK, BurnsItsService, Next, NEW r \in Requests, request'[r].pc = "burn"
               PROVE  /\ flow'[request'[r].flow].status # "none"
                      /\ request'[r].service = flow'[request'[r].flow].service
    BY DEF BurnsItsService, vars, tables
  <1>1. ASSUME NEW x \in Flows, flow[x].status # "none"
        PROVE  flow'[x].status # "none" /\ flow'[x].service = flow[x].service
    <2>1. flow'[x].service = flow[x].service
      BY <1>1, StatesChange DEF BeginOAuthFlow
    <2>2. ASSUME NEW q \in Requests, BurnState(q) PROVE flow'[x].status # "none"
      BY <1>1, <2>2, BurnEffect
    <2>3. ASSUME NEW y \in Flows, FlowExpires(y) PROVE flow'[x].status # "none"
      BY <1>1, <2>3 DEF FlowExpires, TypeOK, Flow
    <2>4. ASSUME NEW y \in Flows, NEW s, NEW v, BeginOAuthFlow(y, s, v)
          PROVE  flow'[x].status # "none"
      BY <1>1, <2>4 DEF BeginOAuthFlow, TypeOK
    <2> QED
      BY <1>1, <2>1, <2>2, <2>3, <2>4, FlowChanges
  <1>2. CASE request'[r] = request[r]
    <2>1. request[r].flow \in Flows
      BY <1>2, TypeParts DEF Stands
    <2> QED
      BY <1>1, <1>2, <2>1 DEF BurnsItsService
  <1>3. CASE request'[r] # request[r]
    <2> DEFINE x == request'[r].flow
    <2>1. ReadState(r, x)
      BY <1>3, AtBurn
    <2>2. Acts(r) /\ request'[r] # Idle
      BY <1>3, WhoActs, IdleType
    <2>3. PICK y \in Flows : Reads(r, y)
      BY <2>2, FirstRecords DEF Acts, Moves
    <2>4. x = y /\ request'[r].service = flow[y].service
      BY <2>3 DEF Reads
    <2>5. flow[y].status # "none"
      BY <2>1, <2>4 DEF ReadState
    <2>6. UNCHANGED flow
      BY <2>1 DEF ReadState, tables
    <2> QED
      BY <2>4, <2>5, <2>6
  <1> QED
    BY <1>2, <1>3

\* While they stay apart none of the overlaps comes about.
LEMMA NothingMetStep ==
    ASSUME TypeOK, LinkInv, BurnsItsService, CallbacksApart, [Next]_vars,
           metFlows = {}, metServices = {}, metAccounts = {}
    PROVE  metFlows' = {} /\ metServices' = {} /\ metAccounts' = {}
  <1> SUFFICES ASSUME Next PROVE metFlows' = {} /\ metServices' = {} /\ metAccounts' = {}
    BY DEF vars, history, met
  <1>1. ASSUME NEW r \in Requests, BurnState(r) PROVE metFlows' = {}
    <2>1. ~Meets(r, "flow")
      <3> SUFFICES ASSUME NEW q \in Requests \ {r}, request[q].pc = request[r].pc,
                          request[q].flow = request[r].flow
                   PROVE  FALSE
        BY DEF Meets
      <3>1. request[r].pc = "burn" /\ request[q].pc = "burn"
        BY <1>1 DEF BurnState
      <3>2. request[q].service = request[r].service
        BY <3>1 DEF BurnsItsService
      <3>3. request[q].flow # None /\ request[r].flow # None
        BY <3>1 DEF LinkInv, KnowsLink
      <3> QED
        BY <3>2, <3>3 DEF CallbacksApart
    <2> QED
      BY <1>1, <2>1 DEF BurnState
  <1>2. ASSUME NEW r \in Requests, CreateAccount(r) PROVE metServices' = {}
    <2>1. ~Meets(r, "service")
      <3> SUFFICES ASSUME NEW q \in Requests \ {r}, request[q].pc = request[r].pc,
                          request[q].service = request[r].service
                   PROVE  FALSE
        BY DEF Meets
      <3>1. request[r].pc = "create" /\ request[q].pc = "create"
        BY <1>2 DEF CreateAccount
      <3>2. request[q].flow # None /\ request[r].flow # None
        BY <3>1 DEF LinkInv, KnowsLink
      <3> QED
        BY <3>2 DEF CallbacksApart
    <2> QED
      BY <1>2, <2>1 DEF CreateAccount
  <1>3. ASSUME NEW r \in Requests, InsertCredential(r) PROVE metAccounts' = {}
    <2>1. ~Meets(r, "account")
      <3> SUFFICES ASSUME NEW q \in Requests \ {r}, request[q].pc = request[r].pc,
                          request[q].account = request[r].account
                   PROVE  FALSE
        BY DEF Meets
      <3>1. request[r].pc = "insert" /\ request[q].pc = "insert"
        BY <1>3 DEF InsertCredential
      <3>2. request[q].flow # None /\ request[r].flow # None
        BY <3>1 DEF LinkInv, KnowsLink
      <3>3. request[r].account # None
        BY <3>1, NoneIsNone DEF TypeOK
      <3>4. request[q].service = request[r].service
        BY <3>3 DEF LinkInv, KnowsAccount
      <3> QED
        BY <3>2, <3>4 DEF CallbacksApart
    <2> QED
      BY <1>3, <2>1 DEF InsertCredential
  <1>4. metFlows' = {}
    BY <1>1, FlowChanges DEF BeginOAuthFlow, FlowExpires, history, met
  <1>5. metServices' = {}
    BY <1>2, AccountChanges DEF InsertCredential
  <1>6. metAccounts' = {}
    BY <1>3, AccountChanges, CreateEffect
  <1> QED
    BY <1>4, <1>5, <1>6

\* With the callbacks of each service apart, whatever else runs, fails or is
\* repeated: a state passes one callback, callbacks keep one account of a
\* service, and an account has one credential row (oauth.ts:114, route.ts:70-85,
\* token-refresh.ts:312-314).
THEOREM CallbacksApartConnectOnce ==
    Spec /\ []CallbacksApart =>
      []( /\ \A x \in Flows : passed[x] <= 1
          /\ \A a, b \in accounts :
               /\ about[a].by = "callback"
               /\ about[b].by = "callback"
               /\ about[a].service = about[b].service
               => a = b
          /\ \A a \in Accounts : credential[a] <= 1 )
  <1> DEFINE Once == /\ \A x \in Flows : passed[x] <= 1
                     /\ \A a, b \in accounts :
                          /\ about[a].by = "callback"
                          /\ about[b].by = "callback"
                          /\ about[a].service = about[b].service
                          => a = b
                     /\ \A a \in Accounts : credential[a] <= 1
             NothingMet == metFlows = {} /\ metServices = {} /\ metAccounts = {}
  <1>1. Init => BurnsItsService /\ NothingMet
    BY DEF Init, BurnsItsService, Idle
  <1>2. TypeOK /\ BurnsItsService /\ [Next]_vars => BurnsItsService'
    BY BurnsItsServiceStep
  <1>3. TypeOK /\ LinkInv /\ BurnsItsService /\ CallbacksApart /\ NothingMet /\ [Next]_vars
        => NothingMet'
    BY NothingMetStep
  <1>4. TypeOK /\ NothingMet /\ ReplayTakesOverlap /\ DuplicateTakesOverlap
        /\ SecondCredentialTakesOverlap => Once
    BY DEF TypeOK, ReplayTakesOverlap, DuplicateTakesOverlap, SecondCredentialTakesOverlap
  <1>5. Spec /\ []CallbacksApart => []NothingMet
    BY <1>1, <1>2, <1>3, ConnectTypeCorrect, LinkInvariance, PTL DEF Spec
  <1>6. Spec /\ []CallbacksApart => []Once
    BY <1>4, <1>5, ConnectTypeCorrect, StateSingleUse, OneAccountPerService, OneRowPerAccount, PTL
  <1> QED
    BY <1>6
=============================================================================
