--------------------------- MODULE ConsoleProofs ---------------------------
(***************************************************************************)
(* What Console promises, for any number of accounts, keys, links and      *)
(* actions at once.  The three groups of variables have an invariant each. *)
(* They share one argument: while nothing has met, an action that has read *)
(* is alone with what it read, and what it read is still so when it        *)
(* writes.                                                                 *)
(***************************************************************************)
EXTENDS Console, TLAPS

----------------------------------------------------------------------------
(* Types *)

\* What an action holds, by where it stands.
LEMMA Holds ==
    ASSUME TypeOK, NEW a \in Actions
    PROVE  /\ action[a].pc \in {"users", "change"} =>
                action[a].user \in Users /\ action[a].to \in Role \cup {"removed"}
           /\ action[a].pc \in {"email", "create"} =>
                action[a].user \in Users /\ action[a].to \in Role
           /\ action[a].pc \in {"first", "latest", "operator", "retireAll"} =>
                action[a].user \in Users
           /\ action[a].pc \in {"recipient", "retire", "issue"} =>
                action[a].user \in Users /\ action[a].by \in {"request", "owner"}
           /\ action[a].pc \in {"claim", "password"} => action[a].link \in Links
           /\ action[a].pc \in {"revoke", "rotate"} => action[a].key \in Keys
  <1> action[a] \in Action
    BY DEF TypeOK
  <1> QED
    BY DEF Action, Idle

\* The same record further on is an action, too.
LEMMA GoesOn ==
    ASSUME TypeOK, NEW a \in Actions
    PROVE  /\ action[a].pc = "email" => [action[a] EXCEPT !.pc = "create"] \in Action
           /\ action[a].pc = "recipient" => [action[a] EXCEPT !.pc = "retire"] \in Action
           /\ action[a].pc = "retire" => [action[a] EXCEPT !.pc = "issue"] \in Action
  <1>1. action[a] \in Action
    BY DEF TypeOK
  <1>2. action[a].pc = "email" => action[a] \in [pc : {"email", "create"}, user : Users, to : Role]
    BY <1>1 DEF Action, Idle
  <1>3. action[a].pc \in {"recipient", "retire"} =>
           action[a] \in [pc : {"recipient", "retire", "issue"}, user : Users, by : {"request", "owner"}]
    BY <1>1 DEF Action, Idle
  <1> QED
    BY <1>2, <1>3 DEF Action

\* Where an action goes is where it is next, and the others stay.
LEMMA GoesThere ==
    ASSUME TypeOK, NEW a \in Actions, NEW record, Goes(a, record)
    PROVE  /\ action' \in [Actions -> Action] \/ record \notin Action
           /\ action'[a] = record
           /\ \A b \in Actions : b # a => action'[b] = action[b]
  BY DEF TypeOK, Goes

----------------------------------------------------------------------------
(* The steps, by the variables they are about *)

TeamStep(a) ==
    \/ \E u \in Users :
         \/ \E to \in Role \cup {"removed"} : AskChange(a, u, to)
         \/ \E to \in Role : AskAccount(a, u, to)
         \/ CountAccounts(a, u)
    \/ ReadUsers(a) \/ Change(a) \/ FindEmail(a) \/ Create(a) \/ CreateFirst(a)

LinkStep(a) ==
    \/ \E u \in Users : AskLink(a, u) \/ AskToSend(a, u) \/ OperatorFinds(a, u)
    \/ FindLatest(a) \/ FindRecipient(a) \/ RetireOthers(a) \/ IssueLink(a)
    \/ \E n \in Links : FollowLink(a, n)
    \/ Claim(a) \/ SetPassword(a) \/ OperatorSets(a) \/ OperatorRetires(a)

KeyStep(a) ==
    \/ \E k \in Keys : FindRevoked(a, k) \/ FindRotated(a, k)
    \/ Revoke(a) \/ Rotate(a)

LEMMA Steps ==
    ASSUME Next
    PROVE  \/ \E a \in Actions : TeamStep(a) \/ LinkStep(a) \/ KeyStep(a)
           \/ \E n \in Links : Age(n)
           \/ \E k \in Keys : IssueKey(k)
           \/ \E a \in Actions : Fail(a)
  BY DEF Next, TeamStep, LinkStep, KeyStep

LEMMA TeamStepTypes ==
    ASSUME TypeOK, NEW a \in Actions, TeamStep(a)
    PROVE  TypeOK'
  <1> USE DEF Begins, Finds, Ends, teamVars, linkVars, keyVars
  <1>a. Idle \in Action
    BY DEF Action
  <1>1. ASSUME NEW u \in Users, NEW to \in Role \cup {"removed"}, AskChange(a, u, to)
        PROVE  TypeOK'
    <2>1. [pc |-> "users", user |-> u, to |-> to] \in Action
      BY DEF Action
    <2>2. action' \in [Actions -> Action]
      BY <1>1, <2>1, GoesThere DEF AskChange
    <2> QED
      BY <1>1, <2>2, ConstantsAssumption DEF AskChange, TypeOK, Rows
  <1>2. ASSUME NEW u \in Users, NEW to \in Role, AskAccount(a, u, to)
        PROVE  TypeOK'
    <2>1. [pc |-> "email", user |-> u, to |-> to] \in Action
      BY <1>2 DEF Action
    <2>2. action' \in [Actions -> Action]
      BY <1>2, <2>1, GoesThere DEF AskAccount
    <2> QED
      BY <1>2, <2>2, ConstantsAssumption DEF AskAccount, TypeOK, Rows
  <1>3. ASSUME NEW u \in Users, CountAccounts(a, u)
        PROVE  TypeOK'
    <2>1. [pc |-> "first", user |-> u] \in Action
      BY DEF Action
    <2>2. action' \in [Actions -> Action]
      BY <1>3, <2>1, GoesThere DEF CountAccounts
    <2> QED
      BY <1>3, <2>2, ConstantsAssumption DEF CountAccounts, TypeOK, Rows
  <1>4. CASE ReadUsers(a)
    <2>1. action[a].user \in Users /\ action[a].to \in Role \cup {"removed"}
      BY <1>4, Holds DEF ReadUsers
    <2>2. [pc |-> "change", user |-> action[a].user, to |-> action[a].to] \in Action
      BY <2>1 DEF Action
    <2>3. action' \in [Actions -> Action]
      BY <1>4, <1>a, <2>2, GoesThere DEF ReadUsers
    <2> QED
      BY <1>4, <2>3 DEF ReadUsers, TypeOK, Rows
  <1>5. CASE Change(a)
    <2>1. action[a].user \in Users /\ action[a].to \in Role \cup {"removed"}
      BY <1>5, Holds DEF Change
    <2>2. action' \in [Actions -> Action]
      BY <1>5, <1>a, GoesThere DEF Change
    <2>3. role' \in [Users -> Role \cup {"unborn", "removed"}]
      BY <1>5, <2>1 DEF Change, TypeOK
    <2>4. /\ link' \in [Links -> Link]
          /\ \A n \in Links : n > issued' => link'[n] = NoLink
      <3>1. \A l \in Link : [l EXCEPT !.user = None] \in Link
        BY DEF Link
      <3>2. NoLink.user # action[a].user
        BY <2>1, ConstantsAssumption DEF NoLink
      <3> QED
        BY <1>5, <3>1, <3>2 DEF Change, TypeOK, LinksOf
    <2>5. ASSUME NEW n \in Links, link'[n].user # None
          PROVE  link'[n].user \in Rows'
      BY <1>5, <2>1, <2>5 DEF Change, TypeOK, Link, LinksOf, Rows
    <2> QED
      BY <1>5, <2>2, <2>3, <2>4, <2>5 DEF Change, TypeOK
  <1>6. CASE FindEmail(a)
    <2>1. action' \in [Actions -> Action]
      BY <1>6, <1>a, GoesOn, GoesThere DEF FindEmail
    <2> QED
      BY <1>6, <2>1 DEF FindEmail, TypeOK, Rows
  <1>7. CASE Create(a)
    <2>1. action[a].user \in Users /\ action[a].to \in Role
      BY <1>7, Holds DEF Create
    <2>2. action' \in [Actions -> Action]
      BY <1>7, <1>a, GoesThere DEF Create
    <2> QED
      BY <1>7, <2>1, <2>2 DEF Create, Insert, TypeOK, Rows, Role
  <1>8. CASE CreateFirst(a)
    <2>1. action[a].user \in Users
      BY <1>8, Holds DEF CreateFirst
    <2>2. action' \in [Actions -> Action]
      BY <1>8, <1>a, GoesThere DEF CreateFirst
    <2> QED
      BY <1>8, <2>1, <2>2 DEF CreateFirst, Insert, TypeOK, Rows, Role
  <1> QED
    BY <1>1, <1>2, <1>3, <1>4, <1>5, <1>6, <1>7, <1>8 DEF TeamStep

Edit(l, m) == m \in Link /\ m.user = l.user

\* A link stays a link, of the same account.
LEMMA LinkEdits ==
    ASSUME NEW l \in Link
    PROVE  /\ Edit(l, l)
           /\ Edit(l, [l EXCEPT !.used = TRUE])
           /\ Edit(l, [l EXCEPT !.age = "old"])
           /\ Edit(l, [l EXCEPT !.age = "expired"])
           /\ \A b \in BOOLEAN : Edit(l, [l EXCEPT !.raced = b]) /\ Edit(l, [l EXCEPT !.cut = b])
           /\ \A b \in BOOLEAN : Edit(l, [l EXCEPT !.outlived = TRUE, !.raced = b])
           /\ \A m \in 0..2, b \in BOOLEAN : Edit(l, [l EXCEPT !.sets = m, !.overwrote = b])
  <1> USE DEF Link, Edit
  <1>1. Edit(l, l) /\ Edit(l, [l EXCEPT !.used = TRUE])
    OBVIOUS
  <1>2. Edit(l, [l EXCEPT !.age = "old"]) /\ Edit(l, [l EXCEPT !.age = "expired"])
    OBVIOUS
  <1>3. ASSUME NEW b \in BOOLEAN
        PROVE  /\ Edit(l, [l EXCEPT !.raced = b]) /\ Edit(l, [l EXCEPT !.cut = b])
               /\ Edit(l, [l EXCEPT !.outlived = TRUE, !.raced = b])
    OBVIOUS
  <1>4. ASSUME NEW m \in 0..2, NEW b \in BOOLEAN
        PROVE  Edit(l, [l EXCEPT !.sets = m, !.overwrote = b])
    OBVIOUS
  <1> HIDE DEF Link, Edit
  <1> QED
    BY <1>1, <1>2, <1>3, <1>4

LEMMA NewLink ==
    ASSUME NEW u \in Users, NEW by \in {"request", "owner"}
    PROVE  LET l == [NoLink EXCEPT !.user = u, !.by = by]
           IN  /\ l \in Link
               /\ l.user = u /\ l.by = by /\ l.age = "fresh" /\ l.sets = 0
               /\ ~l.used /\ ~l.outlived /\ ~l.raced /\ ~l.cut /\ ~l.overwrote
  <1> DEFINE l == [NoLink EXCEPT !.user = u]
  <1>1. /\ l \in Link
        /\ l.user = u /\ l.age = "fresh" /\ l.sets = 0
        /\ ~l.used /\ ~l.outlived /\ ~l.raced /\ ~l.cut /\ ~l.overwrote
    <2>1. /\ NoLink \in Link
          /\ NoLink.age = "fresh" /\ NoLink.sets = 0
          /\ ~NoLink.used /\ ~NoLink.outlived /\ ~NoLink.raced /\ ~NoLink.cut
          /\ ~NoLink.overwrote
      BY DEF NoLink, Link
    <2> QED
      BY <2>1 DEF Link
  <1> HIDE DEF l
  <1>2. /\ [l EXCEPT !.by = by] \in Link
        /\ [l EXCEPT !.by = by].user = u /\ [l EXCEPT !.by = by].by = by
        /\ [l EXCEPT !.by = by].age = "fresh" /\ [l EXCEPT !.by = by].sets = 0
        /\ ~[l EXCEPT !.by = by].used /\ ~[l EXCEPT !.by = by].outlived
        /\ ~[l EXCEPT !.by = by].raced /\ ~[l EXCEPT !.by = by].cut
        /\ ~[l EXCEPT !.by = by].overwrote
    BY <1>1 DEF Link
  <1> QED
    BY <1>2 DEF l

\* What a step does to the links, when it leaves the accounts and their number.
LinksKept ==
    /\ link' \in [Links -> Link]
    /\ \A n \in Links :
         /\ link'[n].user = link[n].user
         /\ n > issued => link'[n] = link[n]

LEMMA LinksKeptTypes ==
    ASSUME TypeOK, LinksKept, role' = role, issued' = issued
    PROVE  /\ \A n \in Links : n > issued' => link'[n] = NoLink
           /\ \A n \in Links : link'[n].user # None => link'[n].user \in Rows'
  BY DEF LinksKept, TypeOK, Rows

LEMMA LinksAreKept ==
    ASSUME TypeOK, NEW a \in Actions
    PROVE  /\ \A u \in Users : Retire(u) => LinksKept
           /\ \A n \in Links : FollowLink(a, n) => LinksKept
           /\ Claim(a) => LinksKept
           /\ SetPassword(a) => LinksKept
           /\ OperatorSets(a) => LinksKept
           /\ Fail(a) => LinksKept
  <1>a. \A n \in Links : link[n] \in Link /\ (n > issued => link[n] = NoLink /\ link[n].user = None)
    BY DEF TypeOK, NoLink
  <1>1. ASSUME NEW u \in Users, Retire(u)
        PROVE  LinksKept
    BY <1>1, <1>a, LinkEdits, ConstantsAssumption DEF Retire, Retired, LinksKept, Edit
  <1>2. ASSUME NEW n \in Links, FollowLink(a, n)
        PROVE  LinksKept
    <2>1. (link[n].raced \/ At("retireAll", "user", link[n].user)) \in BOOLEAN
      BY <1>a DEF Link, At
    <2>2. n <= issued /\ n \in Int /\ issued \in Int
      BY <1>2, ConstantsAssumption DEF FollowLink, TypeOK, Links
    <2> DEFINE b == link[n].raced \/ At("retireAll", "user", link[n].user)
    <2>3. link' = [link EXCEPT ![n] = [link[n] EXCEPT !.raced = b]] /\ link \in [Links -> Link]
      BY <1>2 DEF FollowLink, TypeOK
    <2>4. b \in BOOLEAN
      BY <2>1
    <2> HIDE DEF b
    <2>5. [link[n] EXCEPT !.raced = b] \in Link /\ [link[n] EXCEPT !.raced = b].user = link[n].user
      BY <1>a, <2>4, LinkEdits DEF Edit
    <2> DEFINE l == [link[n] EXCEPT !.raced = b]
    <2>6. l \in Link /\ l.user = link[n].user /\ link' = [link EXCEPT ![n] = l]
      BY <2>3, <2>5
    <2> HIDE DEF l
    <2> QED
      BY <2>2, <2>3, <2>6 DEF LinksKept
  <1>3. CASE Claim(a)
    <2>1. action[a].link \in Links
      BY <1>3, Holds DEF Claim
    <2> QED
      BY <1>3, <1>a, <2>1, LinkEdits DEF Claim, Claimable, LinksKept, Edit, TypeOK
  <1>4. CASE SetPassword(a)
    <2> DEFINE n == action[a].link
               m == IF link[n].sets < 2 THEN link[n].sets + 1 ELSE link[n].sets
               b == link[n].overwrote \/ link[n].outlived
    <2>1. n \in Links
      BY <1>4, Holds DEF SetPassword
    <2>2. m \in 0..2 /\ b \in BOOLEAN
      BY <1>a, <2>1 DEF Link
    <2>3. link' = IF link[n].user = None THEN link
                  ELSE [link EXCEPT ![n] = [link[n] EXCEPT !.sets = m, !.overwrote = b]]
      BY <1>4 DEF SetPassword
    <2> HIDE DEF m, b
    <2>4. Edit(link[n], [link[n] EXCEPT !.sets = m, !.overwrote = b])
      <3> HIDE DEF n
      <3>1. link[n] \in Link
        BY <1>a, <2>1
      <3> QED
        BY <2>2, <3>1, LinkEdits
    <2> QED
      BY <1>a, <2>1, <2>3, <2>4 DEF LinksKept, TypeOK, Edit
  <1>5. CASE OperatorSets(a)
    <2> DEFINE b(n) == link[n].raced \/ At("claim", "link", n) \/ At("password", "link", n)
    <2>1. \A n \in Links : b(n) \in BOOLEAN
      BY <1>a DEF Link, At
    <2>2. link' = [n \in Links |-> IF link[n].user = action[a].user
                     THEN [link[n] EXCEPT !.outlived = TRUE, !.raced = b(n)] ELSE link[n]]
      BY <1>5 DEF OperatorSets
    <2>3. action[a].user # None
      BY <1>5, Holds, ConstantsAssumption DEF OperatorSets
    <2> HIDE DEF b
    <2>4. \A n \in Links : Edit(link[n], [link[n] EXCEPT !.outlived = TRUE, !.raced = b(n)])
      BY <1>a, <2>1, LinkEdits
    <2> QED
      BY <1>a, <2>2, <2>3, <2>4 DEF LinksKept, Edit
  <1>6. CASE Fail(a)
    <2> DEFINE b(n) == link[n].cut \/ link[n].outlived
    <2>1. \A n \in Links : b(n) \in BOOLEAN
      BY <1>a DEF Link
    <2>2. link' = [n \in Links |-> IF action[a].pc = "retireAll" /\ link[n].user = action[a].user
                     THEN [link[n] EXCEPT !.cut = b(n)] ELSE link[n]]
      BY <1>6 DEF Fail
    <2>3. action[a].pc = "retireAll" => action[a].user # None
      BY Holds, ConstantsAssumption
    <2> HIDE DEF b
    <2>4. \A n \in Links : Edit(link[n], [link[n] EXCEPT !.cut = b(n)])
      BY <1>a, <2>1, LinkEdits
    <2> QED
      BY <1>a, <2>2, <2>3, <2>4 DEF LinksKept, Edit
  <1> QED
    BY <1>1, <1>2, <1>3, <1>4, <1>5, <1>6

LEMMA LinkStepTypes ==
    ASSUME TypeOK, NEW a \in Actions, LinkStep(a)
    PROVE  TypeOK'
  <1> USE DEF Begins, Finds, Ends, teamVars, linkVars, keyVars
  <1>a. Idle \in Action
    BY DEF Action
  <1>1. ASSUME NEW u \in Users, AskLink(a, u) \/ AskToSend(a, u) \/ OperatorFinds(a, u)
        PROVE  TypeOK'
    <2>1. /\ [pc |-> "latest", user |-> u] \in Action
          /\ [pc |-> "recipient", user |-> u, by |-> "owner"] \in Action
          /\ [pc |-> "operator", user |-> u] \in Action
      BY DEF Action
    <2>2. action' \in [Actions -> Action]
      BY <1>1, <2>1, GoesThere DEF AskLink, AskToSend, OperatorFinds
    <2>3. begun' \in 0..MaxBegun
      BY <1>1, ConstantsAssumption DEF AskLink, AskToSend, OperatorFinds, TypeOK
    <2> QED
      BY <1>1, <2>2, <2>3 DEF AskLink, AskToSend, OperatorFinds, TypeOK, Rows
  <1>2. CASE FindLatest(a)
    <2>1. action[a].user \in Users
      BY <1>2, Holds DEF FindLatest
    <2>2. [pc |-> "retire", user |-> action[a].user, by |-> "request"] \in Action
      BY <2>1 DEF Action
    <2>3. action' \in [Actions -> Action]
      BY <1>2, <1>a, <2>2, GoesThere DEF FindLatest
    <2> QED
      BY <1>2, <2>1, <2>3 DEF FindLatest, TypeOK, Rows
  <1>3. CASE FindRecipient(a)
    <2>1. action' \in [Actions -> Action]
      BY <1>3, <1>a, GoesOn, GoesThere DEF FindRecipient
    <2> QED
      BY <1>3, <2>1 DEF FindRecipient, TypeOK, Rows
  <1>4. CASE RetireOthers(a)
    <2>1. action[a].user \in Users
      BY <1>4, Holds DEF RetireOthers
    <2>2. action' \in [Actions -> Action]
      BY <1>4, <1>a, GoesOn, GoesThere DEF RetireOthers
    <2>3. LinksKept
      BY <1>4, <2>1, LinksAreKept DEF RetireOthers
    <2> QED
      BY <1>4, <2>1, <2>2, <2>3, LinksKeptTypes DEF RetireOthers, TypeOK, LinksKept
  <1>5. CASE IssueLink(a)
    <2>1. action[a].user \in Users /\ action[a].by \in {"request", "owner"}
      BY <1>5, Holds DEF IssueLink
    <2>2. action' \in [Actions -> Action]
      BY <1>5, <1>a, GoesThere DEF IssueLink
    <2>3. CASE action[a].user \notin Rows
      BY <1>5, <2>2, <2>3 DEF IssueLink, TypeOK, Rows
    <2>4. CASE action[a].user \in Rows
      <3> DEFINE new == [NoLink EXCEPT !.user = action[a].user, !.by = action[a].by]
      <3>1. issued + 1 \in Links /\ issued' = issued + 1 /\ issued' \in 0..MaxLinks
        BY <1>5, <2>4, ConstantsAssumption DEF IssueLink, TypeOK, Links
      <3>2. new \in Link /\ new.user = action[a].user
        <4> \A u \in Users, by \in {"request", "owner"} :
               [NoLink EXCEPT !.user = u, !.by = by] \in Link /\ [NoLink EXCEPT !.user = u, !.by = by].user = u
          BY NewLink
        <4> QED
          BY <2>1
      <3>3. link' = [link EXCEPT ![issued + 1] = new]
        BY <1>5, <2>4 DEF IssueLink
      <3> HIDE DEF new
      <3>4. link' \in [Links -> Link]
        BY <3>1, <3>2, <3>3 DEF TypeOK
      <3>5. \A n \in Links : n > issued' => link'[n] = NoLink
        BY <3>1, <3>3 DEF TypeOK, Links
      <3>6. \A n \in Links : link'[n].user # None => link'[n].user \in Rows'
        BY <1>5, <2>4, <3>1, <3>2, <3>3 DEF IssueLink, TypeOK, Rows
      <3> QED
        BY <1>5, <2>2, <3>1, <3>4, <3>5, <3>6 DEF IssueLink, TypeOK
    <2> QED
      BY <2>3, <2>4
  <1>6. ASSUME NEW n \in Links, FollowLink(a, n)
        PROVE  TypeOK'
    <2>1. [pc |-> "claim", link |-> n] \in Action
      BY DEF Action
    <2>2. action' \in [Actions -> Action]
      BY <1>6, <2>1, GoesThere DEF FollowLink
    <2>3. LinksKept
      BY <1>6, LinksAreKept
    <2>4. begun' \in 0..MaxBegun
      BY <1>6, ConstantsAssumption DEF FollowLink, TypeOK
    <2> QED
      BY <1>6, <2>2, <2>3, <2>4, LinksKeptTypes DEF FollowLink, TypeOK, LinksKept
  <1>7. CASE Claim(a)
    <2>1. action[a].link \in Links
      BY <1>7, Holds DEF Claim
    <2>2. [pc |-> "password", link |-> action[a].link] \in Action
      BY <2>1 DEF Action
    <2>3. action' \in [Actions -> Action]
      BY <1>7, <1>a, <2>2, GoesThere DEF Claim
    <2>4. LinksKept
      BY <1>7, LinksAreKept
    <2> QED
      BY <1>7, <2>3, <2>4, LinksKeptTypes DEF Claim, TypeOK, LinksKept
  <1>8. CASE SetPassword(a)
    <2>1. action' \in [Actions -> Action]
      BY <1>8, <1>a, GoesThere DEF SetPassword
    <2>2. LinksKept
      BY <1>8, LinksAreKept
    <2> QED
      BY <1>8, <2>1, <2>2, LinksKeptTypes DEF SetPassword, TypeOK, LinksKept
  <1>9. CASE OperatorSets(a)
    <2>1. action[a].user \in Users
      BY <1>9, Holds DEF OperatorSets
    <2>2. [pc |-> "retireAll", user |-> action[a].user] \in Action
      BY <2>1 DEF Action
    <2>3. action' \in [Actions -> Action]
      BY <1>9, <1>a, <2>2, GoesThere DEF OperatorSets
    <2>4. LinksKept
      BY <1>9, LinksAreKept
    <2> QED
      BY <1>9, <2>3, <2>4, LinksKeptTypes DEF OperatorSets, TypeOK, LinksKept
  <1>10. CASE OperatorRetires(a)
    <2>1. action[a].user \in Users
      BY <1>10, Holds DEF OperatorRetires
    <2>2. action' \in [Actions -> Action]
      BY <1>10, <1>a, GoesThere DEF OperatorRetires
    <2>3. LinksKept
      BY <1>10, <2>1, LinksAreKept DEF OperatorRetires
    <2> QED
      BY <1>10, <2>2, <2>3, LinksKeptTypes DEF OperatorRetires, TypeOK, LinksKept
  <1> QED
    BY <1>1, <1>2, <1>3, <1>4, <1>5, <1>6, <1>7, <1>8, <1>9, <1>10 DEF LinkStep

LEMMA AgeTypes ==
    ASSUME TypeOK, NEW n \in Links, Age(n)
    PROVE  TypeOK'
  <1>1. link[n] \in Link /\ n \in Int /\ issued \in Int /\ n <= issued
    BY ConstantsAssumption DEF Age, TypeOK, Links
  <1>2. PICK l \in Link : l.user = link[n].user /\ link' = [link EXCEPT ![n] = l]
    <2>1. [link[n] EXCEPT !.age = "old"].user = link[n].user /\ [link[n] EXCEPT !.age = "old"] \in Link
      BY <1>1, LinkEdits DEF Edit
    <2>2. [link[n] EXCEPT !.age = "expired"].user = link[n].user /\ [link[n] EXCEPT !.age = "expired"] \in Link
      BY <1>1, LinkEdits DEF Edit
    <2> QED
      BY <2>1, <2>2 DEF Age
  <1>3. LinksKept
    BY <1>1, <1>2 DEF TypeOK, LinksKept
  <1> QED
    BY <1>3, LinksKeptTypes DEF Age, TypeOK, LinksKept, teamVars, keyVars

LEMMA KeyStepTypes ==
    ASSUME TypeOK, NEW a \in Actions, KeyStep(a)
    PROVE  TypeOK'
  <1> USE DEF Begins, Finds, Ends, teamVars, linkVars, keyVars
  <1>a. Idle \in Action
    BY DEF Action
  <1>1. ASSUME NEW k \in Keys, FindRevoked(a, k) \/ FindRotated(a, k)
        PROVE  TypeOK'
    <2>1. [pc |-> "revoke", key |-> k] \in Action /\ [pc |-> "rotate", key |-> k] \in Action
      BY DEF Action
    <2>2. action' \in [Actions -> Action]
      BY <1>1, <2>1, GoesThere DEF FindRevoked, FindRotated
    <2>3. begun' \in 0..MaxBegun
      BY <1>1, ConstantsAssumption DEF FindRevoked, FindRotated, TypeOK
    <2>4. key[k].family \in Keys
      BY DEF TypeOK, Key
    <2> QED
      BY <1>1, <2>2, <2>3, <2>4 DEF FindRevoked, FindRotated, TypeOK, Rows
  <1>2. CASE Revoke(a)
    <2>1. action[a].key \in Keys
      BY <1>2, Holds DEF Revoke
    <2>2. action' \in [Actions -> Action]
      BY <1>2, <1>a, GoesThere DEF Revoke
    <2>3. key[action[a].key].family \in Keys /\ key' \in [Keys -> Key]
      BY <1>2, <2>1 DEF Revoke, TypeOK, Key
    <2> QED
      BY <1>2, <2>2, <2>3 DEF Revoke, TypeOK, Rows
  <1>3. CASE Rotate(a)
    <2>1. action[a].key \in Keys
      BY <1>3, Holds DEF Rotate
    <2>2. action' \in [Actions -> Action]
      BY <1>3, <1>a, GoesThere DEF Rotate
    <2>3. key' \in [Keys -> Key]
      BY <1>3, <2>1 DEF Rotate, TypeOK, Key
    <2> QED
      BY <1>3, <2>2, <2>3 DEF Rotate, TypeOK, Rows
  <1> QED
    BY <1>1, <1>2, <1>3 DEF KeyStep

LEMMA IssueKeyTypes ==
    ASSUME TypeOK, NEW k \in Keys, IssueKey(k)
    PROVE  TypeOK'
  <1>1. key' \in [Keys -> Key]
    BY DEF IssueKey, TypeOK, Key
  <1> QED
    BY <1>1, ConstantsAssumption DEF IssueKey, TypeOK, Rows, teamVars, linkVars

LEMMA FailTypes ==
    ASSUME TypeOK, NEW a \in Actions, Fail(a)
    PROVE  TypeOK'
  <1>1. Idle \in Action
    BY DEF Action
  <1>2. action' \in [Actions -> Action]
    BY <1>1, GoesThere DEF Fail
  <1>3. LinksKept
    BY LinksAreKept
  <1>4. faults' \in 0..MaxFaults
    BY ConstantsAssumption DEF Fail, TypeOK
  <1> QED
    BY <1>2, <1>3, <1>4, LinksKeptTypes DEF Fail, TypeOK, LinksKept, teamVars, keyVars

\* Where a step leaves the action that takes it, by the group of the step.
GoesTo(a, pcs) == action'[a].pc \in pcs /\ \A b \in Actions : b # a => action'[b] = action[b]

LEMMA TeamStepGoes ==
    ASSUME TypeOK, NEW a \in Actions, TeamStep(a)
    PROVE  /\ GoesTo(a, {"idle", "users", "email", "change", "create", "first"})
           /\ key' = key /\ ended' = ended /\ metKeys' = metKeys
           /\ issued' = issued /\ metIssues' = metIssues /\ metRequests' = metRequests
           /\ Change(a) \/ link' = link
  <1> DEFINE Goal ==
        /\ GoesTo(a, {"idle", "users", "email", "change", "create", "first"})
        /\ key' = key /\ ended' = ended /\ metKeys' = metKeys
        /\ issued' = issued /\ metIssues' = metIssues /\ metRequests' = metRequests
        /\ Change(a) \/ link' = link
  <1> HIDE DEF Goal
  <1> USE GoesThere DEF Begins, Finds, Ends, teamVars, linkVars, keyVars, GoesTo, Idle
  <1>1. ASSUME NEW u \in Users, NEW to \in Role \cup {"removed"}, AskChange(a, u, to)
        PROVE  Goal
    BY <1>1 DEF AskChange, Goal
  <1>2. ASSUME NEW u \in Users, NEW to \in Role, AskAccount(a, u, to)
        PROVE  Goal
    BY <1>2 DEF AskAccount, Goal
  <1>3. ASSUME NEW u \in Users, CountAccounts(a, u)
        PROVE  Goal
    BY <1>3 DEF CountAccounts, Goal
  <1>4. CASE FindEmail(a)
    <2>1. action[a] \in Action /\ action[a].pc = "email"
      BY <1>4 DEF FindEmail, TypeOK
    <2> DEFINE next == [action[a] EXCEPT !.pc = "create"]
    <2>2. next.pc = "create"
      BY <2>1 DEF Action
    <2>3. action'[a] = next \/ action'[a] = Idle
      BY <1>4 DEF FindEmail
    <2> HIDE DEF next
    <2> QED
      BY <1>4, <2>2, <2>3 DEF FindEmail, Goal
  <1>5. CASE ReadUsers(a)
    BY <1>5 DEF ReadUsers, Goal
  <1>6. CASE Change(a)
    BY <1>6 DEF Change, Goal
  <1>7. CASE Create(a) \/ CreateFirst(a)
    BY <1>7 DEF Create, CreateFirst, Goal
  <1> QED
    BY <1>1, <1>2, <1>3, <1>4, <1>5, <1>6, <1>7 DEF TeamStep, Goal

LEMMA LinkStepGoes ==
    ASSUME TypeOK, NEW a \in Actions, LinkStep(a)
    PROVE  /\ GoesTo(a, {"idle", "latest", "recipient", "retire", "issue", "claim", "password",
                         "operator", "retireAll"})
           /\ role' = role /\ firsts' = firsts /\ metFirst' = metFirst /\ metOwners' = metOwners
           /\ key' = key /\ ended' = ended /\ metKeys' = metKeys
  <1> USE GoesThere DEF Begins, Finds, Ends, teamVars, linkVars, keyVars, GoesTo, Idle
  <1>0. action[a] \in Action
    BY DEF TypeOK
  <1>1. ASSUME NEW u \in Users, AskLink(a, u)
        PROVE  action'[a].pc = "latest"
    BY <1>1 DEF AskLink
  <1>2. ASSUME NEW u \in Users, AskToSend(a, u)
        PROVE  action'[a].pc = "recipient"
    BY <1>2 DEF AskToSend
  <1>3. ASSUME NEW u \in Users, OperatorFinds(a, u)
        PROVE  action'[a].pc = "operator"
    BY <1>3 DEF OperatorFinds
  <1>4. ASSUME NEW n \in Links, FollowLink(a, n)
        PROVE  action'[a].pc = "claim"
    BY <1>4 DEF FollowLink
  <1>5. CASE FindLatest(a)
    BY <1>5 DEF FindLatest
  <1>6. CASE FindRecipient(a)
    <2> DEFINE next == [action[a] EXCEPT !.pc = "retire"]
    <2>1. next.pc = "retire"
      BY <1>0, <1>6 DEF FindRecipient, Action
    <2>2. action'[a] = next \/ action'[a] = Idle
      BY <1>6 DEF FindRecipient
    <2> HIDE DEF next
    <2> QED
      BY <1>6, <2>1, <2>2 DEF FindRecipient
  <1>7. CASE RetireOthers(a)
    <2>1. [action[a] EXCEPT !.pc = "issue"].pc = "issue"
      BY <1>0, <1>7 DEF RetireOthers, Action
    <2>2. action'[a].pc = "issue"
      BY <1>7, <2>1 DEF RetireOthers
    <2> QED
      BY <1>7, <2>2 DEF RetireOthers
  <1>8. CASE IssueLink(a) \/ SetPassword(a) \/ OperatorRetires(a)
    BY <1>8 DEF IssueLink, SetPassword, OperatorRetires
  <1>9. CASE Claim(a)
    BY <1>9 DEF Claim
  <1>10. CASE OperatorSets(a)
    <2>1. action'[a] = [pc |-> "retireAll", user |-> action[a].user] \/ action'[a] = Idle
      BY <1>10 DEF OperatorSets
    <2>2. UNCHANGED <<role, firsts, metFirst, metOwners, key, ended, metKeys>>
      BY <1>10 DEF OperatorSets
    <2>3. Goes(a, action'[a])
      BY <1>10 DEF OperatorSets, Goes
    <2> QED
      BY <2>1, <2>2, <2>3
  <1> QED
    BY <1>1, <1>2, <1>3, <1>4, <1>5, <1>6, <1>7, <1>8, <1>9, <1>10
       DEF LinkStep, AskLink, AskToSend, OperatorFinds, FollowLink

LEMMA KeyStepGoes ==
    ASSUME TypeOK, NEW a \in Actions, KeyStep(a)
    PROVE  /\ GoesTo(a, {"idle", "revoke", "rotate"})
           /\ role' = role /\ firsts' = firsts /\ metFirst' = metFirst /\ metOwners' = metOwners
           /\ link' = link /\ issued' = issued /\ metIssues' = metIssues
           /\ metRequests' = metRequests
  <1> USE GoesThere DEF Begins, Finds, Ends, teamVars, linkVars, keyVars, GoesTo, Idle
  <1>1. ASSUME NEW k \in Keys, FindRevoked(a, k) \/ FindRotated(a, k)
        PROVE  action'[a].pc \in {"revoke", "rotate"}
    BY <1>1 DEF FindRevoked, FindRotated
  <1>2. CASE Revoke(a) \/ Rotate(a)
    BY <1>2 DEF Revoke, Rotate
  <1> QED
    BY <1>1, <1>2 DEF KeyStep, FindRevoked, FindRotated

LEMMA FailGoes ==
    ASSUME TypeOK, NEW a \in Actions, Fail(a)
    PROVE  /\ GoesTo(a, {"idle"})
           /\ role' = role /\ firsts' = firsts /\ metFirst' = metFirst /\ metOwners' = metOwners
           /\ key' = key /\ ended' = ended /\ metKeys' = metKeys
           /\ issued' = issued /\ metIssues' = metIssues /\ metRequests' = metRequests
  BY GoesThere DEF Fail, teamVars, keyVars, GoesTo, Idle

LEMMA LoneStepsGo ==
    /\ \A n \in Links : Age(n) =>
         /\ action' = action
         /\ role' = role /\ firsts' = firsts /\ metFirst' = metFirst /\ metOwners' = metOwners
         /\ key' = key /\ ended' = ended /\ metKeys' = metKeys
         /\ issued' = issued /\ metIssues' = metIssues /\ metRequests' = metRequests
    /\ \A k \in Keys : IssueKey(k) =>
         /\ action' = action
         /\ role' = role /\ firsts' = firsts /\ metFirst' = metFirst /\ metOwners' = metOwners
         /\ link' = link /\ issued' = issued /\ metIssues' = metIssues
         /\ metRequests' = metRequests
         /\ ended' = ended /\ metKeys' = metKeys
  BY DEF Age, IssueKey, teamVars, linkVars, keyVars

LEMMA Stutter ==
    ASSUME UNCHANGED vars
    PROVE  /\ role' = role /\ firsts' = firsts /\ metFirst' = metFirst /\ metOwners' = metOwners
           /\ link' = link /\ issued' = issued /\ metIssues' = metIssues
           /\ metRequests' = metRequests
           /\ key' = key /\ ended' = ended /\ metKeys' = metKeys
           /\ action' = action /\ begun' = begun /\ faults' = faults
  BY DEF vars, teamVars, linkVars, keyVars

\* Accounts, links, keys and actions keep their values in every behaviour.
THEOREM ConsoleTypeCorrect == Spec => []TypeOK
  <1>1. Init => TypeOK
    <2> SUFFICES ASSUME Init PROVE TypeOK
      OBVIOUS
    <2>1. NoLink \in Link
      BY DEF NoLink, Link
    <2>2. Idle \in Action
      BY DEF Action
    <2>3. key \in [Keys -> Key]
      BY DEF Init, Key
    <2>4. issued \in 0..MaxLinks /\ begun \in 0..MaxBegun /\ faults \in 0..MaxFaults
      BY ConstantsAssumption DEF Init
    <2>5. \A n \in Links : link[n] = NoLink /\ link[n].user = None
      BY DEF Init, NoLink
    <2> QED
      BY <2>1, <2>2, <2>3, <2>4, <2>5 DEF Init, TypeOK
  <1>2. TypeOK /\ [Next]_vars => TypeOK'
    <2> SUFFICES ASSUME TypeOK, [Next]_vars PROVE TypeOK'
      OBVIOUS
    <2>1. CASE Next
      BY <2>1, Steps, TeamStepTypes, LinkStepTypes, KeyStepTypes, AgeTypes, IssueKeyTypes,
         FailTypes
    <2>2. CASE UNCHANGED vars
      BY <2>2, Stutter DEF TypeOK, Rows
    <2> QED
      BY <2>1, <2>2
  <1> QED
    BY <1>1, <1>2, PTL DEF Spec

----------------------------------------------------------------------------
(* Accounts and roles *)

Born == \E u \in Users : role[u] # "unborn"

\* While no two changes have met, one at most has counted the owners, and what
\* it counted is still so; likewise for the first account.
TeamInv ==
    /\ \A a \in Actions : action[a].pc \in {"email", "create"} => Born
    /\ \A u \in firsts : role[u] # "unborn"
    /\ metOwners
       \/ /\ \A a, b \in Actions : action[a].pc = "change" /\ action[b].pc = "change" => a = b
          /\ \A a \in Actions :
               action[a].pc = "change" => ~WouldLeaveNoOwner(action[a].user, action[a].to)
          /\ Born => Owners # {}
    /\ metOwners \/ metFirst
       \/ /\ \A a, b \in Actions : action[a].pc = "first" /\ action[b].pc = "first" => a = b
          /\ \A a \in Actions : action[a].pc = "first" => firsts = {}
          /\ \A u, v \in firsts : u = v

\* No action comes to stand at one of pcs.
NobodyComesTo(pcs) == \A b \in Actions : action'[b] = action[b] \/ action'[b].pc \notin pcs

TeamUntouched ==
    /\ role' = role /\ firsts' = firsts /\ metFirst' = metFirst /\ metOwners' = metOwners
    /\ NobodyComesTo({"change", "email", "create", "first"})

LEMMA TeamStays ==
    ASSUME TypeOK, TeamInv, TeamUntouched
    PROVE  TeamInv'
  BY DEF TeamInv, TeamUntouched, NobodyComesTo, Born, Owners, WouldLeaveNoOwner

LEMMA OthersLeaveTheTeam ==
    ASSUME TypeOK
    PROVE  /\ \A a \in Actions : LinkStep(a) \/ KeyStep(a) => TeamUntouched
           /\ \A n \in Links : Age(n) => TeamUntouched
           /\ \A k \in Keys : IssueKey(k) => TeamUntouched
           /\ \A a \in Actions : Fail(a) => TeamUntouched
  BY LinkStepGoes, KeyStepGoes, LoneStepsGo, FailGoes DEF TeamUntouched, NobodyComesTo, GoesTo

\* What a change of roles or the first account's maker has read is still so,
\* while no two of them have met.
THEOREM TeamInvariance == Spec => []TeamInv
  <1>1. Init => TeamInv
    BY DEF Init, TeamInv, Idle, Born
  <1>2. TypeOK /\ TeamInv /\ [Next]_vars => TeamInv'
    <2> SUFFICES ASSUME TypeOK, TeamInv, [Next]_vars PROVE TeamInv'
      OBVIOUS
    <2>1. ASSUME NEW a \in Actions, TeamStep(a)
          PROVE  TeamInv'
      <3> USE GoesThere DEF Begins, Finds, Ends, Idle, linkVars, keyVars
      <3>1. ASSUME NEW u \in Users, NEW to \in Role \cup {"removed"}, AskChange(a, u, to)
            PROVE  TeamInv'
        <4> TeamUntouched
          BY <3>1 DEF AskChange, TeamUntouched, NobodyComesTo, teamVars
        <4> QED
          BY TeamStays
      <3>2. ASSUME NEW u \in Users, NEW to \in Role, AskAccount(a, u, to)
            PROVE  TeamInv'
        <4>1. Born
          BY <3>2 DEF AskAccount, RequireOwner, Owners, Born
        <4>2. action'[a].pc = "email"
          BY <3>2 DEF AskAccount
        <4> QED
          BY <3>2, <4>1, <4>2 DEF AskAccount, TeamInv, Born, Owners, WouldLeaveNoOwner, teamVars
      <3>3. ASSUME NEW u \in Users, CountAccounts(a, u)
            PROVE  TeamInv'
        <4>1. action'[a].pc = "first"
          BY <3>3 DEF CountAccounts
        <4>2. metOwners \/ firsts = {}
          BY <3>3 DEF CountAccounts, NobodyYet, Rows, Owners, Role, TeamInv, Born, TypeOK
        <4>3. /\ metOwners' \/ metFirst' \/ \A c \in Actions : c # a => action[c].pc # "first"
              /\ metFirst => metFirst'
          BY <3>3 DEF CountAccounts
        <4> QED
          BY <3>3, <4>1, <4>2, <4>3
             DEF CountAccounts, TeamInv, Born, Owners, WouldLeaveNoOwner
      <3>4. CASE ReadUsers(a)
        <4> DEFINE u == action[a].user
                   to == action[a].to
                   passes == u \in Rows /\ ~WouldLeaveNoOwner(u, to)
        <4>1. /\ passes => action'[a] = [pc |-> "change", user |-> u, to |-> to]
              /\ ~passes => action'[a] = [pc |-> "idle"]
          BY <3>4 DEF ReadUsers
        <4>2. metOwners' = (metOwners \/ (passes /\ \E b \in Actions : action[b].pc = "change"))
          BY <3>4 DEF ReadUsers
        <4>3. /\ role' = role /\ firsts' = firsts /\ metFirst' = metFirst
              /\ \A b \in Actions : b # a => action'[b] = action[b]
          BY <3>4 DEF ReadUsers
        <4>4. passes => ~WouldLeaveNoOwner(u, to)
          OBVIOUS
        <4> HIDE DEF passes, u, to
        <4>5. CASE ~passes
          <5>1. metOwners' = metOwners
            BY <4>2, <4>5 DEF TypeOK
          <5> QED
            BY <4>1, <4>3, <4>5, <5>1, TeamStays DEF TeamUntouched, NobodyComesTo
        <4>6. CASE passes
          <5>0. action'[a].pc = "change" /\ action'[a].user = u /\ action'[a].to = to
            BY <4>1, <4>6
          <5>a. metOwners' \/ \A b \in Actions : action[b].pc # "change"
            BY <4>2, <4>6, Zenon
          <5>b. metOwners => metOwners'
            BY <4>2, Zenon
          <5>1. /\ action'[a].pc = "change" /\ action'[a].user = u /\ action'[a].to = to
                /\ metOwners => metOwners'
                /\ metOwners' \/ \A b \in Actions : action[b].pc # "change"
            BY <5>0, <5>a, <5>b
          <5>2. ~WouldLeaveNoOwner(u, to)
            BY <4>4, <4>6
          <5>3. metOwners'
                \/ /\ \A b, c \in Actions : action'[b].pc = "change" /\ action'[c].pc = "change" => b = c
                   /\ \A b \in Actions :
                        action'[b].pc = "change" => ~WouldLeaveNoOwner(action[b].user, action[b].to)'
            BY <4>3, <5>1, <5>2 DEF WouldLeaveNoOwner, Owners
          <5> QED
            BY <4>3, <5>1, <5>3 DEF TeamInv, Born, Owners
        <4> QED
          BY <4>5, <4>6
      <3>5. CASE Change(a)
        <4> DEFINE u == action[a].user
                   to == action[a].to
        <4>1. u \in Users /\ to \in Role \cup {"removed"} /\ action[a].pc = "change"
          BY <3>5, Holds DEF Change
        <4>2. role' = IF u \in Rows THEN [role EXCEPT ![u] = to] ELSE role
          BY <3>5 DEF Change
        <4>3. /\ firsts' = firsts /\ metFirst' = metFirst /\ metOwners' = metOwners
              /\ action'[a] = [pc |-> "idle"]
              /\ \A b \in Actions : b # a => action'[b] = action[b]
          BY <3>5 DEF Change
        <4> HIDE DEF u, to
        <4>4. \A v \in Users : role[v] # "unborn" <=> role'[v] # "unborn"
          BY <4>1, <4>2 DEF Rows, Role, TypeOK
        <4>5. ~WouldLeaveNoOwner(u, to) /\ u \in Rows => Owners' # {}
          BY <4>1, <4>2 DEF WouldLeaveNoOwner, Owners, TypeOK
        <4>6. metOwners \/ (Born' => Owners' # {})
          <5>1. metOwners \/ ~WouldLeaveNoOwner(u, to)
            BY <4>1 DEF TeamInv, u, to
          <5>2. u \notin Rows => Owners' = Owners
            BY <4>2 DEF Owners
          <5> QED
            BY <4>4, <4>5, <5>1, <5>2 DEF TeamInv, Born
        <4>7. metOwners \/ \A b \in Actions : action'[b].pc # "change"
          BY <4>1, <4>3 DEF TeamInv
        <4> QED
          BY <4>3, <4>4, <4>6, <4>7 DEF TeamInv, Born, TypeOK
      <3>6. CASE FindEmail(a)
        <4>1. Born /\ role' = role /\ firsts' = firsts /\ metFirst' = metFirst /\ metOwners' = metOwners
          BY <3>6 DEF FindEmail, TeamInv, teamVars
        <4>2. /\ action'[a].pc \in {"idle", "create"}
              /\ \A b \in Actions : b # a => action'[b] = action[b]
          <5> DEFINE next == [action[a] EXCEPT !.pc = "create"]
          <5>1. next.pc = "create"
            BY <3>6 DEF FindEmail, TypeOK, Action
          <5>2. action'[a] = next \/ action'[a] = Idle
            BY <3>6 DEF FindEmail
          <5> HIDE DEF next
          <5> QED
            BY <3>6, <5>1, <5>2 DEF FindEmail
        <4> QED
          BY <4>1, <4>2 DEF TeamInv, Born, Owners, WouldLeaveNoOwner
      <3>7. CASE Create(a)
        <4> DEFINE u == action[a].user
                   to == action[a].to
        <4>1. u \in Users /\ to \in Role /\ Born
          BY <3>7, Holds DEF Create, TeamInv
        <4>2. role' = IF role[u] = "unborn" THEN [role EXCEPT ![u] = to] ELSE role
          BY <3>7 DEF Create, Insert
        <4>3. /\ firsts' = firsts /\ metFirst' = metFirst /\ metOwners' = metOwners
              /\ action'[a] = [pc |-> "idle"]
              /\ \A b \in Actions : b # a => action'[b] = action[b]
          BY <3>7 DEF Create
        <4> HIDE DEF u, to
        <4>4. /\ \A v \in Users : role[v] # "unborn" => role'[v] = role[v]
              /\ Owners \subseteq Owners'
          BY <4>1, <4>2 DEF Role, TypeOK, Owners
        <4> QED
          BY <4>1, <4>3, <4>4 DEF TeamInv, Born, WouldLeaveNoOwner, TypeOK
      <3>8. CASE CreateFirst(a)
        <4> DEFINE u == action[a].user
        <4>1. u \in Users /\ action[a].pc = "first"
          BY <3>8, Holds DEF CreateFirst
        <4>2. role' = IF role[u] = "unborn" THEN [role EXCEPT ![u] = "OWNER"] ELSE role
          BY <3>8 DEF CreateFirst, Insert
        <4>3. /\ firsts' = IF role[u] = "unborn" THEN firsts \cup {u} ELSE firsts
              /\ metFirst' = metFirst /\ metOwners' = metOwners
              /\ action'[a] = [pc |-> "idle"]
              /\ \A b \in Actions : b # a => action'[b] = action[b]
          BY <3>8 DEF CreateFirst
        <4> HIDE DEF u
        <4>4. /\ \A v \in Users : role[v] # "unborn" => role'[v] = role[v]
              /\ Owners \subseteq Owners'
              /\ role[u] = "unborn" => role'[u] = "OWNER"
          BY <4>1, <4>2 DEF Role, TypeOK, Owners
        <4>5. metOwners \/ (Born' => Owners' # {})
          BY <4>1, <4>2, <4>4 DEF TeamInv, Born, Owners
        <4>6. metOwners \/ metFirst \/ firsts = {}
          BY <4>1 DEF TeamInv
        <4>7. metOwners \/ metFirst \/ \A b \in Actions : action'[b].pc # "first"
          BY <4>1, <4>3 DEF TeamInv
        <4>8. metOwners \/ metFirst \/ \A v, w \in firsts' : v = w
          BY <4>3, <4>6 DEF TeamInv
        <4>9. \A v \in firsts' : role'[v] # "unborn"
          BY <4>3, <4>4 DEF TeamInv, TypeOK
        <4>10. \A b \in Actions : action'[b].pc \in {"email", "create"} => Born'
          BY <4>3, <4>4 DEF TeamInv, Born
        <4>11. metOwners
               \/ /\ \A b, c \in Actions : action'[b].pc = "change" /\ action'[c].pc = "change" => b = c
                  /\ \A b \in Actions :
                       action'[b].pc = "change" => ~WouldLeaveNoOwner(action[b].user, action[b].to)'
          BY <4>3, <4>4 DEF TeamInv, WouldLeaveNoOwner
        <4> QED
          BY <4>3, <4>5, <4>7, <4>8, <4>9, <4>10, <4>11 DEF TeamInv
      <3> QED
        BY <2>1, <3>1, <3>2, <3>3, <3>4, <3>5, <3>6, <3>7, <3>8 DEF TeamStep
    <2>2. CASE \E a \in Actions : LinkStep(a) \/ KeyStep(a)
      BY <2>2, OthersLeaveTheTeam, TeamStays
    <2>3. CASE \/ \E n \in Links : Age(n)
               \/ \E k \in Keys : IssueKey(k)
               \/ \E a \in Actions : Fail(a)
      BY <2>3, OthersLeaveTheTeam, TeamStays
    <2>4. CASE UNCHANGED vars
      BY <2>4, Stutter, TeamStays DEF TeamUntouched, NobodyComesTo
    <2> QED
      BY <2>1, <2>2, <2>3, <2>4, Steps
  <1> QED
    BY <1>1, <1>2, ConsoleTypeCorrect, PTL DEF Spec

\* An owner is lost, and so is the claim to the first account, to an overlap.
THEOREM OwnersRemain == Spec => []OwnerLossTakesOverlap
  <1>1. TeamInv => OwnerLossTakesOverlap
    BY DEF TeamInv, OwnerLossTakesOverlap, Born
  <1> QED
    BY <1>1, TeamInvariance, PTL

\* auth.ts:61-64: a second first account takes two makers that overlapped, or a
\* deployment that has lost its owners to an overlap.
THEOREM FirstIsOnlyOne == Spec => []SecondFirstTakesOverlap
  <1>1. TeamInv => SecondFirstTakesOverlap
    BY DEF TeamInv, SecondFirstTakesOverlap
  <1> QED
    BY <1>1, TeamInvariance, PTL

----------------------------------------------------------------------------
(* What the steps do to the links, field by field *)

SameOrigin(l, m) == m.user = l.user /\ m.by = l.by
SameUse(l, m) == m.used = l.used /\ m.sets = l.sets
SameMarks(l, m) ==
    m.outlived = l.outlived /\ m.raced = l.raced /\ m.cut = l.cut /\ m.overwrote = l.overwrote

LEMMA RetireEffect ==
    ASSUME TypeOK, NEW u \in Users, Retire(u)
    PROVE  \A n \in Links :
             LET l == link[n]
                 m == link'[n]
             IN  /\ SameOrigin(l, m) /\ SameMarks(l, m) /\ m.age = l.age /\ m.sets = l.sets
                 /\ m.used = (l.used \/ l.user = u)
  BY DEF Retire, Retired, TypeOK, Link, SameOrigin, SameMarks

LEMMA ChangeEffect ==
    ASSUME TypeOK, NEW a \in Actions, Change(a)
    PROVE  \A n \in Links :
             LET l == link[n]
                 m == link'[n]
             IN  /\ m.user = l.user \/ m.user = None
                 /\ m.by = l.by /\ SameUse(l, m) /\ SameMarks(l, m) /\ m.age = l.age
  <1>1. \A n \in Links : link'[n] = link[n] \/ link'[n] = [link[n] EXCEPT !.user = None]
    BY DEF Change
  <1>2. \A n \in Links : link[n] \in Link
    BY DEF TypeOK
  <1> QED
    BY <1>1, <1>2 DEF Link, SameUse, SameMarks

LEMMA IssueEffect ==
    ASSUME TypeOK, NEW a \in Actions, IssueLink(a)
    PROVE  \/ link' = link /\ issued' = issued
           \/ /\ issued' = issued + 1 /\ issued + 1 \in Links
              /\ \A n \in Links : n # issued + 1 => link'[n] = link[n]
              /\ LET m == link'[issued + 1]
                 IN  /\ m.user = action[a].user /\ m.by = action[a].by
                     /\ ~m.used /\ m.sets = 0 /\ ~m.outlived /\ ~m.raced /\ ~m.cut /\ ~m.overwrote
  <1>1. action[a].user \in Users /\ action[a].by \in {"request", "owner"}
    BY Holds DEF IssueLink
  <1>2. CASE action[a].user \in Rows
    <2> DEFINE new == [NoLink EXCEPT !.user = action[a].user, !.by = action[a].by]
    <2>1. issued + 1 \in Links
      BY ConstantsAssumption DEF IssueLink, TypeOK, Links
    <2>2. link' = [link EXCEPT ![issued + 1] = new] /\ issued' = issued + 1
      BY <1>2 DEF IssueLink
    <2>3. /\ new.user = action[a].user /\ new.by = action[a].by
          /\ ~new.used /\ new.sets = 0 /\ ~new.outlived /\ ~new.raced /\ ~new.cut /\ ~new.overwrote
      <3> \A u \in Users, by \in {"request", "owner"} :
             LET l == [NoLink EXCEPT !.user = u, !.by = by]
             IN  /\ l.user = u /\ l.by = by /\ l.sets = 0
                 /\ ~l.used /\ ~l.outlived /\ ~l.raced /\ ~l.cut /\ ~l.overwrote
        BY ZenonT(40), NewLink
      <3> QED
        BY <1>1
    <2> HIDE DEF new
    <2> QED
      BY <2>1, <2>2, <2>3 DEF TypeOK
  <1>3. CASE action[a].user \notin Rows
    BY <1>3 DEF IssueLink
  <1> QED
    BY <1>2, <1>3

LEMMA AgeEffect ==
    ASSUME TypeOK, NEW n \in Links, Age(n)
    PROVE  \A k \in Links :
             LET l == link[k]
                 m == link'[k]
             IN  /\ SameOrigin(l, m) /\ SameMarks(l, m) /\ SameUse(l, m)
                 /\ m.age = "fresh" => l.age = "fresh"
  <1>1. \A k \in Links : \/ link'[k] = link[k]
                         \/ link'[k] = [link[k] EXCEPT !.age = "old"]
                         \/ link'[k] = [link[k] EXCEPT !.age = "expired"]
    BY DEF Age, TypeOK
  <1>2. \A k \in Links : link[k] \in Link
    BY DEF TypeOK
  <1>3. ASSUME NEW l \in Link, NEW age \in {"old", "expired"}
        PROVE  LET m == [l EXCEPT !.age = age]
               IN  SameOrigin(l, m) /\ SameMarks(l, m) /\ SameUse(l, m) /\ m.age # "fresh"
    BY DEF Link, SameUse, SameMarks, SameOrigin
  <1>4. \A l \in Link : SameOrigin(l, l) /\ SameMarks(l, l) /\ SameUse(l, l)
    BY DEF SameUse, SameMarks, SameOrigin
  <1> QED
    BY ZenonT(40), <1>1, <1>2, <1>3, <1>4

LEMMA FollowEffect ==
    ASSUME TypeOK, NEW a \in Actions, NEW n \in Links, FollowLink(a, n)
    PROVE  \A k \in Links :
             LET l == link[k]
                 m == link'[k]
             IN  /\ SameOrigin(l, m) /\ SameUse(l, m) /\ m.age = l.age
                 /\ m.outlived = l.outlived /\ m.overwrote = l.overwrote /\ m.cut = l.cut
                 /\ l.raced => m.raced
                 /\ k = n /\ At("retireAll", "user", l.user) => m.raced
  <1> DEFINE b == link[n].raced \/ At("retireAll", "user", link[n].user)
  <1>1. link' = [link EXCEPT ![n] = [link[n] EXCEPT !.raced = b]]
    BY DEF FollowLink
  <1>2. link[n].raced => b
    OBVIOUS
  <1>3. At("retireAll", "user", link[n].user) => b
    OBVIOUS
  <1> HIDE DEF b
  <1>4. \A k \in Links : k # n => link'[k] = link[k]
    BY <1>1 DEF TypeOK
  <1>5. link'[n] = [link[n] EXCEPT !.raced = b] /\ link[n] \in Link
    BY <1>1 DEF TypeOK
  <1>6. LET l == link[n]
            m == link'[n]
        IN  /\ SameOrigin(l, m) /\ SameUse(l, m) /\ m.age = l.age
            /\ m.outlived = l.outlived /\ m.overwrote = l.overwrote /\ m.cut = l.cut
            /\ m.raced = b
    BY <1>5 DEF Link, SameOrigin, SameUse
  <1> QED
    BY <1>2, <1>3, <1>4, <1>6 DEF SameOrigin, SameUse

LEMMA ClaimEffect ==
    ASSUME TypeOK, NEW a \in Actions, Claim(a)
    PROVE  \A k \in Links :
             LET l == link[k]
                 m == link'[k]
             IN  /\ SameOrigin(l, m) /\ SameMarks(l, m) /\ m.age = l.age /\ m.sets = l.sets
                 /\ l.used => m.used
                 /\ m.used => l.used \/ (k = action[a].link /\ Claimable(k))
                 /\ k = action[a].link /\ Claimable(k) => m.used
  <1>1. action[a].link \in Links
    BY Holds DEF Claim
  <1>2. \A k \in Links :
           \/ link'[k] = link[k] /\ ~(k = action[a].link /\ Claimable(k))
           \/ link'[k] = [link[k] EXCEPT !.used = TRUE] /\ k = action[a].link /\ Claimable(k)
    BY <1>1 DEF Claim, TypeOK
  <1>3. \A k \in Links : link[k] \in Link
    BY DEF TypeOK
  <1> HIDE DEF Claimable
  <1> QED
    BY ZenonT(40), <1>2, <1>3 DEF Link, SameMarks, SameOrigin

LEMMA SetEffect ==
    ASSUME TypeOK, NEW a \in Actions, SetPassword(a)
    PROVE  \A k \in Links :
             LET l == link[k]
                 m == link'[k]
             IN  \/ m = l
                 \/ /\ k = action[a].link /\ l.user # None
                    /\ SameOrigin(l, m) /\ m.used = l.used /\ m.age = l.age
                    /\ m.sets = IF l.sets < 2 THEN l.sets + 1 ELSE l.sets
                    /\ m.outlived = l.outlived /\ m.raced = l.raced /\ m.cut = l.cut
                    /\ m.overwrote => l.overwrote \/ l.outlived
  <1> DEFINE n == action[a].link
             s == IF link[n].sets < 2 THEN link[n].sets + 1 ELSE link[n].sets
             b == link[n].overwrote \/ link[n].outlived
  <1>1. n \in Links
    BY Holds DEF SetPassword
  <1>2. link' = IF link[n].user = None THEN link
                ELSE [link EXCEPT ![n] = [link[n] EXCEPT !.sets = s, !.overwrote = b]]
    BY DEF SetPassword
  <1>3. b => link[n].overwrote \/ link[n].outlived
    OBVIOUS
  <1>4. s = IF link[n].sets < 2 THEN link[n].sets + 1 ELSE link[n].sets
    OBVIOUS
  <1> HIDE DEF n, s, b
  <1>5. \A k \in Links : link'[k] = link[k] \/ (k = n /\ link[n].user # None)
    BY <1>1, <1>2 DEF TypeOK
  <1>6. link[n].user # None => link'[n] = [link[n] EXCEPT !.sets = s, !.overwrote = b]
    BY <1>1, <1>2 DEF TypeOK
  <1>7. LET m == [link[n] EXCEPT !.sets = s, !.overwrote = b]
        IN  /\ SameOrigin(link[n], m) /\ m.used = link[n].used /\ m.age = link[n].age
            /\ m.sets = s
            /\ m.outlived = link[n].outlived /\ m.raced = link[n].raced /\ m.cut = link[n].cut
            /\ m.overwrote = b
    BY <1>1 DEF TypeOK, Link, SameOrigin
  <1> QED
    BY <1>3, <1>4, <1>5, <1>6, <1>7 DEF n

LEMMA OperatorEffect ==
    ASSUME TypeOK, NEW a \in Actions, OperatorSets(a)
    PROVE  \A k \in Links :
             LET l == link[k]
                 m == link'[k]
             IN  /\ SameOrigin(l, m) /\ SameUse(l, m) /\ m.age = l.age
                 /\ m.overwrote = l.overwrote /\ m.cut = l.cut
                 /\ m.outlived => l.outlived \/ l.user = action[a].user
                 /\ l.raced => m.raced
                 /\ l.user = action[a].user /\ (At("claim", "link", k) \/ At("password", "link", k))
                      => m.raced
  <1> DEFINE b(k) == link[k].raced \/ At("claim", "link", k) \/ At("password", "link", k)
             u == action[a].user
  <1>1. \A k \in Links : link'[k] = IF link[k].user = u
                                    THEN [link[k] EXCEPT !.outlived = TRUE, !.raced = b(k)] ELSE link[k]
    BY DEF OperatorSets
  <1>2. \A k \in Links : /\ link[k].raced => b(k)
                         /\ At("claim", "link", k) \/ At("password", "link", k) => b(k)
    OBVIOUS
  <1> HIDE DEF b, u
  <1>3. \A k \in Links : link[k] \in Link
    BY DEF TypeOK
  <1>4. \A k \in Links :
           LET l == link[k]
               m == [link[k] EXCEPT !.outlived = TRUE, !.raced = b(k)]
           IN  /\ SameOrigin(l, m) /\ SameUse(l, m) /\ m.age = l.age
               /\ m.overwrote = l.overwrote /\ m.cut = l.cut /\ m.raced = b(k)
    BY <1>3 DEF Link, SameOrigin, SameUse
  <1> QED
    BY ZenonT(40), <1>1, <1>2, <1>4 DEF SameOrigin, SameUse, u

\* What was cut short marks the links it would have retired.
LEMMA FailEffect ==
    ASSUME TypeOK, NEW a \in Actions, Fail(a)
    PROVE  \A k \in Links :
             LET l == link[k]
                 m == link'[k]
             IN  /\ SameOrigin(l, m) /\ SameUse(l, m) /\ m.age = l.age
                 /\ m.outlived = l.outlived /\ m.raced = l.raced /\ m.overwrote = l.overwrote
                 /\ l.cut => m.cut
                 /\ action[a].pc = "retireAll" /\ l.user = action[a].user /\ l.outlived => m.cut
  <1> DEFINE mine(k) == action[a].pc = "retireAll" /\ link[k].user = action[a].user
  <1> SUFFICES ASSUME NEW k \in Links
               PROVE  LET l == link[k]
                          m == link'[k]
                      IN  /\ SameOrigin(l, m) /\ SameUse(l, m) /\ m.age = l.age
                          /\ m.outlived = l.outlived /\ m.raced = l.raced
                          /\ m.overwrote = l.overwrote
                          /\ l.cut => m.cut
                          /\ mine(k) /\ l.outlived => m.cut
    OBVIOUS
  <1>1. CASE ~mine(k)
    BY <1>1 DEF Fail, SameOrigin, SameUse
  <1>2. CASE mine(k)
    <2> DEFINE b == link[k].cut \/ link[k].outlived
    <2>1. link'[k] = [link[k] EXCEPT !.cut = b] /\ link[k] \in Link
      BY <1>2 DEF Fail, TypeOK
    <2>2. (link[k].cut => b) /\ (link[k].outlived => b)
      OBVIOUS
    <2> HIDE DEF b
    <2> QED
      BY <2>1, <2>2 DEF Link, SameOrigin, SameUse
  <1> QED
    BY <1>1, <1>2

\* Where each of them leaves the action that takes it.
LEMMA LinkStepsGo ==
    ASSUME TypeOK, NEW a \in Actions
    PROVE  LET was == action[a]
               is == action'[a]
           IN  /\ \A u \in Users : AskLink(a, u) \/ AskToSend(a, u) \/ OperatorFinds(a, u) =>
                    is.pc \in {"latest", "recipient", "operator"}
               /\ FindLatest(a) => \/ is.pc = "idle" /\ ~CanRequestAnother(was.user)
                                   \/ /\ is.pc = "retire" /\ is.user = was.user
                                      /\ is.by = "request" /\ CanRequestAnother(was.user)
               /\ FindRecipient(a) => \/ is.pc = "idle"
                                      \/ is.pc = "retire" /\ is.by = was.by
               /\ RetireOthers(a) => is.pc = "issue" /\ is.user = was.user /\ is.by = was.by
               /\ IssueLink(a) \/ SetPassword(a) \/ OperatorRetires(a) => is.pc = "idle"
               /\ \A n \in Links : FollowLink(a, n) => is.pc = "claim" /\ is.link = n
               /\ Claim(a) => \/ is.pc = "idle" /\ ~Claimable(was.link)
                              \/ is.pc = "password" /\ is.link = was.link /\ Claimable(was.link)
               /\ OperatorSets(a) => \/ is.pc = "idle" /\ was.user \notin Rows
                                     \/ is.pc = "retireAll" /\ is.user = was.user
  <1> USE GoesThere DEF Begins, Finds, Ends, Idle
  <1>0. action[a] \in Action
    BY DEF TypeOK
  <1>1. ASSUME NEW u \in Users, AskLink(a, u) \/ AskToSend(a, u) \/ OperatorFinds(a, u)
        PROVE  action'[a].pc \in {"latest", "recipient", "operator"}
    BY <1>1 DEF AskLink, AskToSend, OperatorFinds
  <1>2. ASSUME FindLatest(a)
        PROVE  \/ action'[a].pc = "idle" /\ ~CanRequestAnother(action[a].user)
               \/ /\ action'[a].pc = "retire" /\ action'[a].user = action[a].user
                  /\ action'[a].by = "request" /\ CanRequestAnother(action[a].user)
    <2> HIDE DEF CanRequestAnother
    <2> QED
      BY <1>2 DEF FindLatest
  <1>3. ASSUME FindRecipient(a)
        PROVE  action'[a].pc = "idle" \/ (action'[a].pc = "retire" /\ action'[a].by = action[a].by)
    <2> DEFINE next == [action[a] EXCEPT !.pc = "retire"]
    <2>1. next.pc = "retire" /\ next.by = action[a].by
      BY <1>0, <1>3 DEF FindRecipient, Action
    <2>2. action'[a] = next \/ action'[a] = Idle
      BY <1>3 DEF FindRecipient
    <2> HIDE DEF next
    <2> QED
      BY <2>1, <2>2
  <1>4. ASSUME RetireOthers(a)
        PROVE  /\ action'[a].pc = "issue" /\ action'[a].user = action[a].user
               /\ action'[a].by = action[a].by
    <2> DEFINE next == [action[a] EXCEPT !.pc = "issue"]
    <2>1. next.pc = "issue" /\ next.user = action[a].user /\ next.by = action[a].by
      BY <1>0, <1>4 DEF RetireOthers, Action
    <2>2. action'[a] = next
      BY <1>4 DEF RetireOthers
    <2> HIDE DEF next
    <2> QED
      BY <2>1, <2>2
  <1>5. ASSUME IssueLink(a) \/ SetPassword(a) \/ OperatorRetires(a)
        PROVE  action'[a].pc = "idle"
    BY <1>5 DEF IssueLink, SetPassword, OperatorRetires
  <1>6. ASSUME NEW n \in Links, FollowLink(a, n)
        PROVE  action'[a].pc = "claim" /\ action'[a].link = n
    BY <1>6 DEF FollowLink
  <1>7. ASSUME Claim(a)
        PROVE  \/ action'[a].pc = "idle" /\ ~Claimable(action[a].link)
               \/ /\ action'[a].pc = "password" /\ action'[a].link = action[a].link
                  /\ Claimable(action[a].link)
    <2> HIDE DEF Claimable
    <2> QED
      BY <1>7 DEF Claim
  <1>8. ASSUME OperatorSets(a)
        PROVE  \/ action'[a].pc = "idle" /\ action[a].user \notin Rows
               \/ action'[a].pc = "retireAll" /\ action'[a].user = action[a].user
    <2>1. Goes(a, IF action[a].user \in Rows
                  THEN [pc |-> "retireAll", user |-> action[a].user] ELSE [pc |-> "idle"])
      BY <1>8 DEF OperatorSets
    <2> QED
      BY <2>1
  <1> QED
    BY <1>1, <1>2, <1>3, <1>4, <1>5, <1>6, <1>7, <1>8

----------------------------------------------------------------------------
(* One password per link *)

\* A link is followed by name, and used before it sets a password; the one who
\* used it is the only one who will.
SetsInv ==
    /\ \A a \in Actions : action[a].pc \in {"claim", "password"} => action[a].link <= issued
    /\ \A a \in Actions : action[a].pc = "password" =>
         link[action[a].link].used /\ link[action[a].link].sets = 0
    /\ \A a, b \in Actions :
         action[a].pc = "password" /\ action[b].pc = "password" /\ action[a].link = action[b].link
         => a = b
    /\ \A n \in Links : link[n].sets <= 1 /\ (link[n].sets = 1 => link[n].used)

SetsUntouched ==
    /\ issued' = issued
    /\ \A n \in Links : link'[n].sets = link[n].sets /\ (link[n].used => link'[n].used)
    /\ NobodyComesTo({"claim", "password"})

LEMMA SetsStay ==
    ASSUME TypeOK, TypeOK', SetsInv, SetsUntouched
    PROVE  SetsInv'
  <1>1. \A a \in Actions : action'[a].pc \in {"claim", "password"} =>
           action'[a] = action[a] /\ action[a].link \in Links
    BY Holds DEF SetsUntouched, NobodyComesTo
  <1>2. \A a \in Actions : action'[a].pc \in {"claim", "password"} => action'[a].link <= issued'
    BY <1>1 DEF SetsInv, SetsUntouched
  <1>3. \A a \in Actions : action'[a].pc = "password" =>
           link'[action'[a].link].used /\ link'[action'[a].link].sets = 0
    BY <1>1 DEF SetsInv, SetsUntouched
  <1>4. \A n \in Links : link'[n].sets <= 1 /\ (link'[n].sets = 1 => link'[n].used)
    BY DEF SetsInv, SetsUntouched
  <1> QED
    BY <1>1, <1>2, <1>3, <1>4 DEF SetsInv

\* A link is used before it sets a password, by the one who will set it.
THEOREM SetsInvariance == Spec => []SetsInv
  <1>1. Init => SetsInv
    BY DEF Init, SetsInv, Idle, NoLink
  <1>2. TypeOK /\ TypeOK' /\ SetsInv /\ [Next]_vars => SetsInv'
    <2> SUFFICES ASSUME TypeOK, TypeOK', SetsInv, [Next]_vars PROVE SetsInv'
      OBVIOUS
    <2> USE GoesThere DEF Begins, Finds, Ends, Idle, teamVars, linkVars, keyVars
    <2>1. ASSUME NEW a \in Actions, TeamStep(a)
          PROVE  SetsInv'
      <3>1. \A n \in Links : link'[n].sets = link[n].sets /\ link'[n].used = link[n].used
        BY <2>1, TeamStepGoes, ChangeEffect DEF SameUse
      <3> QED
        BY <2>1, <3>1, TeamStepGoes, SetsStay DEF SetsUntouched, NobodyComesTo, GoesTo
    <2>2. ASSUME NEW a \in Actions, KeyStep(a)
          PROVE  SetsInv'
      BY <2>2, KeyStepGoes, SetsStay DEF SetsUntouched, NobodyComesTo, GoesTo
    <2>3. ASSUME NEW a \in Actions, LinkStep(a)
          PROVE  SetsInv'
      <3>1. ASSUME NEW u \in Users, AskLink(a, u) \/ AskToSend(a, u) \/ OperatorFinds(a, u)
            PROVE  SetsInv'
        <4> SetsUntouched
          BY <3>1 DEF AskLink, AskToSend, OperatorFinds, SetsUntouched, NobodyComesTo
        <4> QED
          BY SetsStay
      <3>2. CASE FindLatest(a) \/ FindRecipient(a)
        <4>1. link' = link /\ issued' = issued
          BY <3>2 DEF FindLatest, FindRecipient
        <4> QED
          BY <2>3, <3>2, <4>1, LinkStepGoes, LinkStepsGo, SetsStay DEF SetsUntouched, NobodyComesTo, GoesTo
      <3>3. CASE RetireOthers(a) \/ OperatorRetires(a)
        <4>1. action[a].user \in Users /\ Retire(action[a].user) /\ issued' = issued
          BY <3>3, Holds DEF RetireOthers, OperatorRetires
        <4>2. \A n \in Links : link'[n].sets = link[n].sets /\ (link[n].used => link'[n].used)
          BY <4>1, RetireEffect
        <4> QED
          BY <2>3, <3>3, <4>1, <4>2, LinkStepGoes, LinkStepsGo, SetsStay
             DEF SetsUntouched, NobodyComesTo, GoesTo
      <3>4. CASE IssueLink(a)
        <4>1. action'[a].pc = "idle" /\ \A b \in Actions : b # a => action'[b] = action[b]
          BY <2>3, <3>4, LinkStepsGo, LinkStepGoes DEF GoesTo
        <4>2. issued \in Int /\ issued' \in Int /\ issued <= issued'
          BY <3>4, IssueEffect, ConstantsAssumption DEF TypeOK
        <4>3. \A n \in Links : n <= issued => link'[n] = link[n]
          BY <3>4, <4>2, IssueEffect, ConstantsAssumption DEF Links
        <4>4. \A n \in Links : link'[n] = link[n] \/ link'[n].sets = 0
          BY <3>4, IssueEffect
        <4>5. \A b \in Actions : action[b].pc \in {"claim", "password"} => action[b].link \in Links
          BY Holds
        <4>6. \A b \in Actions : action'[b].pc \in {"claim", "password"} =>
                 b # a /\ action'[b] = action[b] /\ link'[action[b].link] = link[action[b].link]
                 /\ action[b].link <= issued'
          BY <4>1, <4>2, <4>3, <4>5, ConstantsAssumption DEF SetsInv, Links
        <4> QED
          BY <4>4, <4>6 DEF SetsInv
      <3>5. ASSUME NEW n \in Links, FollowLink(a, n)
            PROVE  SetsInv'
        <4>1. /\ action'[a].pc = "claim" /\ action'[a].link = n /\ n <= issued /\ issued' = issued
              /\ \A b \in Actions : b # a => action'[b] = action[b]
          BY <2>3, <3>5, LinkStepsGo, LinkStepGoes DEF GoesTo, FollowLink
        <4>2. \A k \in Links : link'[k].used = link[k].used /\ link'[k].sets = link[k].sets
          BY <3>5, FollowEffect DEF SameUse
        <4> QED
          BY <4>1, <4>2, Holds DEF SetsInv
      <3>6. CASE Claim(a)
        <4> DEFINE n == action[a].link
        <4>1. action[a].pc = "claim" /\ n \in Links /\ n <= issued /\ issued' = issued
          BY <3>6, Holds DEF Claim, SetsInv
        <4>2. \A b \in Actions : b # a => action'[b] = action[b]
          BY <2>3, LinkStepGoes DEF GoesTo
        <4>3. \A k \in Links : link'[k].sets = link[k].sets /\ (link[k].used => link'[k].used)
          BY <3>6, ClaimEffect
        <4>4. CASE action'[a].pc = "idle"
          BY <4>1, <4>2, <4>3, <4>4, SetsStay DEF SetsUntouched, NobodyComesTo
        <4>5. CASE action'[a].pc # "idle"
          <5>1. action'[a].pc = "password" /\ action'[a].link = n /\ ~link[n].used /\ link'[n].used
            BY <3>6, <4>5, LinkStepsGo, <4>1, ClaimEffect DEF Claimable
          <5>2. \A b \in Actions : b # a /\ action[b].pc = "password" => action[b].link # n
            BY <5>1 DEF SetsInv
          <5>3. link[n].sets = 0 /\ link'[n].sets = 0
            BY <4>1, <4>3, <5>1 DEF SetsInv, TypeOK, Link
          <5>4. \A b \in Actions : action'[b].pc = "password" =>
                   /\ link'[action'[b].link].used /\ link'[action'[b].link].sets = 0
                   /\ b # a => action'[b].link # n
            BY <4>2, <4>3, <5>1, <5>2, <5>3, Holds DEF SetsInv
          <5>5. \A k \in Links : link'[k].sets <= 1 /\ (link'[k].sets = 1 => link'[k].used)
            BY <4>3 DEF SetsInv
          <5> QED
            BY <4>1, <4>2, <5>1, <5>4, <5>5 DEF SetsInv
        <4> QED
          BY <4>4, <4>5
      <3>7. CASE SetPassword(a)
        <4> DEFINE n == action[a].link
        <4>1. action[a].pc = "password" /\ n \in Links /\ issued' = issued
          BY <3>7, Holds DEF SetPassword
        <4>2. action'[a].pc = "idle" /\ \A b \in Actions : b # a => action'[b] = action[b]
          BY <2>3, <3>7, LinkStepsGo, LinkStepGoes DEF GoesTo
        <4>3. \A k \in Links : link'[k].used = link[k].used /\ (k # n => link'[k] = link[k])
          BY <3>7, SetEffect
        <4>4. link'[n].sets \in {link[n].sets, 1}
          BY <3>7, <4>1, SetEffect DEF SetsInv
        <4>5. \A b \in Actions : action'[b].pc = "password" => action[b].link # n
          BY <4>1, <4>2 DEF SetsInv
        <4>6. \A k \in Links : link'[k].sets <= 1 /\ (link'[k].sets = 1 => link'[k].used)
          BY <4>1, <4>3, <4>4 DEF SetsInv
        <4> HIDE DEF n
        <4> QED
          BY <4>1, <4>2, <4>3, <4>5, <4>6, Holds DEF SetsInv
      <3>8. CASE OperatorSets(a)
        <4>1. \A k \in Links : link'[k].used = link[k].used /\ link'[k].sets = link[k].sets
          BY <3>8, OperatorEffect DEF SameUse
        <4>2. issued' = issued
          BY <3>8 DEF OperatorSets
        <4>3. action'[a].pc \in {"idle", "retireAll"}
          BY <3>8, LinkStepsGo
        <4> QED
          BY <2>3, <4>1, <4>2, <4>3, LinkStepGoes, SetsStay DEF SetsUntouched, NobodyComesTo, GoesTo
      <3> QED
        BY <2>3, <3>1, <3>2, <3>3, <3>4, <3>5, <3>6, <3>7, <3>8 DEF LinkStep
    <2>4. ASSUME NEW n \in Links, Age(n)
          PROVE  SetsInv'
      BY <2>4, AgeEffect, LoneStepsGo, SetsStay DEF SetsUntouched, NobodyComesTo, SameUse
    <2>5. ASSUME NEW k \in Keys, IssueKey(k)
          PROVE  SetsInv'
      BY <2>5, LoneStepsGo, SetsStay DEF SetsUntouched, NobodyComesTo
    <2>6. CASE UNCHANGED vars
      BY <2>6, Stutter, SetsStay DEF SetsUntouched, NobodyComesTo
    <2>7. ASSUME NEW a \in Actions, Fail(a)
          PROVE  SetsInv'
      BY <2>7, FailGoes, FailEffect, SetsStay DEF SetsUntouched, NobodyComesTo, GoesTo, SameUse
    <2> QED
      BY <2>1, <2>2, <2>3, <2>4, <2>5, <2>6, <2>7, Steps
  <1> QED
    BY <1>1, <1>2, ConsoleTypeCorrect, PTL DEF Spec

\* password-reset.ts:137-138, for any number of submissions of any links.
THEOREM OnePasswordPerLink == Spec => []LinkSetsOnePassword
  <1>1. SetsInv => LinkSetsOnePassword
    BY DEF SetsInv, LinkSetsOnePassword
  <1> QED
    BY <1>1, SetsInvariance, PTL

----------------------------------------------------------------------------
(* Links, the operator's reset and the cooldown *)

\* An overlap with the operator's reset, or a reset that was cut short.
Excused(l) == l.raced \/ l.cut

\* A link older than an operator's reset is used, or about to be retired, or it
\* was left by a reset cut short; whoever follows it has met one or the other.
ResetInv ==
    /\ \A n \in Links :
         link[n].outlived /\ ~link[n].used /\ link[n].user # None
           => At("retireAll", "user", link[n].user) \/ link[n].cut
    /\ \A a \in Actions :
         LET n == action[a].link
         IN  action[a].pc \in {"claim", "password"} /\ link[n].outlived /\ link[n].user # None
               => Excused(link[n])
    /\ \A n \in Links : link[n].overwrote => Excused(link[n])

ResetUntouched ==
    /\ \A n \in Links :
         LET l == link[n]
             m == link'[n]
         IN  /\ m.user = l.user \/ m.user = None
             /\ l.used => m.used
             /\ m.outlived => l.outlived
             /\ l.raced => m.raced
             /\ l.cut => m.cut
             /\ m.overwrote => l.overwrote
    /\ NobodyComesTo({"claim", "password"})
    /\ \A b \in Actions : action[b].pc = "retireAll" => action'[b] = action[b]

LEMMA ResetStays ==
    ASSUME TypeOK, ResetInv, ResetUntouched
    PROVE  ResetInv'
  <1> USE DEF Excused
  <1>1. ASSUME NEW n \in Links, link'[n].outlived, ~link'[n].used, link'[n].user # None, ~link'[n].cut
        PROVE  \E b \in Actions : action'[b].pc = "retireAll" /\ action'[b].user = link'[n].user
    <2>1. At("retireAll", "user", link[n].user) /\ link'[n].user = link[n].user
      BY <1>1 DEF ResetInv, ResetUntouched
    <2>2. PICK b \in Actions : action[b].pc = "retireAll" /\ action[b].user = link[n].user
      BY <2>1 DEF At
    <2> QED
      BY <2>1, <2>2 DEF ResetUntouched
  <1>2. ASSUME NEW a \in Actions, action'[a].pc \in {"claim", "password"},
               link'[action'[a].link].outlived, link'[action'[a].link].user # None
        PROVE  Excused(link'[action'[a].link])
    <2>1. action'[a] = action[a] /\ action[a].link \in Links
      BY <1>2, Holds DEF ResetUntouched, NobodyComesTo
    <2> QED
      BY <1>2, <2>1 DEF ResetInv, ResetUntouched
  <1>3. \A n \in Links : link'[n].overwrote => Excused(link'[n])
    BY DEF ResetInv, ResetUntouched
  <1> QED
    BY <1>1, <1>2, <1>3 DEF ResetInv, At

\* Of an account two of whose links were not issued at once, one at most is
\* about to be issued, and then none is unused; and one at most is unused.
IssueInv ==
    \A u \in Users :
        \/ u \in metIssues
        \/ /\ \A a, b \in Actions :
                /\ action[a].pc = "issue" /\ action[a].user = u
                /\ action[b].pc = "issue" /\ action[b].user = u
                => a = b
           /\ \A a \in Actions, n \in Links :
                action[a].pc = "issue" /\ action[a].user = u /\ link[n].user = u => link[n].used
           /\ \A n, m \in Links :
                link[n].user = u /\ link[m].user = u /\ ~link[n].used /\ ~link[m].used => n = m

IssueUntouched ==
    /\ metIssues' = metIssues
    /\ \A n \in Links :
         /\ link'[n].user = link[n].user \/ link'[n].user = None
         /\ link[n].used => link'[n].used
    /\ NobodyComesTo({"issue"})

LEMMA IssuesStay ==
    ASSUME TypeOK, IssueInv, IssueUntouched
    PROVE  IssueInv'
  <1>1. \A n \in Links, u \in Users : link'[n].user = u => link[n].user = u
    BY ConstantsAssumption DEF IssueUntouched
  <1> QED
    BY <1>1 DEF IssueInv, IssueUntouched, NobodyComesTo

\* Likewise of the links an account asked for, and of being fresh.
Requested(a, u) == action[a].pc \in {"retire", "issue"} /\ action[a].by = "request" /\ action[a].user = u
FreshRequest(n, u) == link[n].user = u /\ link[n].by = "request" /\ link[n].age = "fresh"

RequestInv ==
    /\ \A a \in Actions : action[a].pc = "recipient" => action[a].by = "owner"
    /\ \A u \in Users :
         \/ u \in metRequests
         \/ /\ \A a, b \in Actions : Requested(a, u) /\ Requested(b, u) => a = b
            /\ \A a \in Actions, n \in Links : ~(Requested(a, u) /\ FreshRequest(n, u))
            /\ \A n, m \in Links : FreshRequest(n, u) /\ FreshRequest(m, u) => n = m

RequestUntouched ==
    /\ metRequests' = metRequests
    /\ \A n \in Links :
         /\ link'[n].user = link[n].user \/ link'[n].user = None
         /\ link'[n].by = link[n].by
         /\ link'[n].age = "fresh" => link[n].age = "fresh"
    /\ \A b \in Actions :
         \/ action'[b] = action[b]
         \/ action'[b].pc \notin {"recipient", "retire", "issue"}
         \/ action'[b].by = "owner"

LEMMA RequestsStay ==
    ASSUME TypeOK, RequestInv, RequestUntouched
    PROVE  RequestInv'
  <1>1. \A n \in Links, u \in Users : FreshRequest(n, u)' => FreshRequest(n, u)
    BY ConstantsAssumption DEF RequestUntouched, FreshRequest
  <1>2. \A a \in Actions, u \in Users : Requested(a, u)' => Requested(a, u)
    BY DEF RequestUntouched, Requested
  <1>3. \A a \in Actions : action'[a].pc = "recipient" => action'[a].by = "owner"
    BY DEF RequestInv, RequestUntouched
  <1> QED
    BY <1>1, <1>2, <1>3 DEF RequestInv, RequestUntouched

LinkInv == ResetInv /\ IssueInv /\ RequestInv
LinkUntouched == ResetUntouched /\ IssueUntouched /\ RequestUntouched

LEMMA LinksStay ==
    ASSUME TypeOK, LinkInv, LinkUntouched
    PROVE  LinkInv'
  BY ResetStays, IssuesStay, RequestsStay DEF LinkInv, LinkUntouched

LEMMA OthersLeaveTheLinks ==
    ASSUME TypeOK
    PROVE  /\ \A a \in Actions : TeamStep(a) \/ KeyStep(a) => LinkUntouched
           /\ \A n \in Links : Age(n) => LinkUntouched
           /\ \A k \in Keys : IssueKey(k) => LinkUntouched
           /\ UNCHANGED vars => LinkUntouched
  <1> USE DEF LinkUntouched, ResetUntouched, IssueUntouched, RequestUntouched, NobodyComesTo
  <1>1. ASSUME NEW a \in Actions, TeamStep(a)
        PROVE  LinkUntouched
    <2>1. action[a].pc # "retireAll"
      <3>1. \A u \in Users, to \in Role \cup {"removed"} : AskChange(a, u, to) => action[a].pc = "idle"
        BY DEF AskChange, Begins, Idle
      <3>2. \A u \in Users, to \in Role : AskAccount(a, u, to) => action[a].pc = "idle"
        BY DEF AskAccount, Begins, Idle
      <3>3. \A u \in Users : CountAccounts(a, u) => action[a].pc = "idle"
        BY DEF CountAccounts, Begins, Idle
      <3>4. ReadUsers(a) => action[a].pc = "users"
        BY DEF ReadUsers
      <3>5. Change(a) => action[a].pc = "change"
        BY DEF Change
      <3>6. FindEmail(a) => action[a].pc = "email"
        BY DEF FindEmail
      <3>7. Create(a) \/ CreateFirst(a) => action[a].pc \in {"create", "first"}
        BY DEF Create, CreateFirst
      <3> QED
        BY <1>1, <3>1, <3>2, <3>3, <3>4, <3>5, <3>6, <3>7 DEF TeamStep
    <2> QED
      BY <1>1, <2>1, TeamStepGoes, ChangeEffect DEF GoesTo, SameUse, SameMarks
  <1>2. ASSUME NEW a \in Actions, KeyStep(a)
        PROVE  LinkUntouched
    <2>1. action[a].pc # "retireAll"
      <3>1. \A k \in Keys : FindRevoked(a, k) \/ FindRotated(a, k) => action[a].pc = "idle"
        BY DEF FindRevoked, FindRotated, Begins, Idle
      <3>2. Revoke(a) \/ Rotate(a) => action[a].pc \in {"revoke", "rotate"}
        BY DEF Revoke, Rotate
      <3> QED
        BY <1>2, <3>1, <3>2 DEF KeyStep
    <2> QED
      BY <1>2, <2>1, KeyStepGoes DEF GoesTo
  <1>3. ASSUME NEW n \in Links, Age(n)
        PROVE  LinkUntouched
    BY <1>3, AgeEffect, LoneStepsGo DEF SameOrigin, SameUse, SameMarks
  <1>4. ASSUME NEW k \in Keys, IssueKey(k)
        PROVE  LinkUntouched
    BY <1>4, LoneStepsGo
  <1>5. UNCHANGED vars => LinkUntouched
    BY Stutter
  <1> QED
    BY <1>1, <1>2, <1>3, <1>4, <1>5

\* What the steps about links leave alone of what else is asked.
LEMMA LinkStepsLeave ==
    ASSUME TypeOK, NEW a \in Actions
    PROVE  /\ \A u \in Users : AskLink(a, u) \/ AskToSend(a, u) \/ OperatorFinds(a, u) =>
                action[a].pc = "idle" /\ link' = link /\ metIssues' = metIssues /\ metRequests' = metRequests
           /\ FindLatest(a) => action[a].pc = "latest" /\ link' = link /\ metIssues' = metIssues
           /\ FindRecipient(a) => /\ action[a].pc = "recipient" /\ link' = link
                                  /\ metIssues' = metIssues /\ metRequests' = metRequests
           /\ RetireOthers(a) => action[a].pc = "retire" /\ metRequests' = metRequests
           /\ IssueLink(a) => /\ action[a].pc = "issue"
                              /\ metIssues' = metIssues /\ metRequests' = metRequests
           /\ \A n \in Links : FollowLink(a, n) =>
                action[a].pc = "idle" /\ metIssues' = metIssues /\ metRequests' = metRequests
           /\ Claim(a) => action[a].pc = "claim" /\ metIssues' = metIssues /\ metRequests' = metRequests
           /\ SetPassword(a) => action[a].pc = "password" /\ metIssues' = metIssues /\ metRequests' = metRequests
           /\ OperatorSets(a) => action[a].pc = "operator" /\ metIssues' = metIssues /\ metRequests' = metRequests
           /\ OperatorRetires(a) => action[a].pc = "retireAll" /\ metIssues' = metIssues /\ metRequests' = metRequests
  <1> USE DEF Begins, Idle, linkVars
  <1>1. ASSUME NEW u \in Users, AskLink(a, u) \/ AskToSend(a, u) \/ OperatorFinds(a, u)
        PROVE  action[a].pc = "idle" /\ link' = link /\ metIssues' = metIssues /\ metRequests' = metRequests
    BY <1>1 DEF AskLink, AskToSend, OperatorFinds
  <1>2. ASSUME NEW n \in Links, FollowLink(a, n)
        PROVE  action[a].pc = "idle" /\ metIssues' = metIssues /\ metRequests' = metRequests
    BY <1>2 DEF FollowLink
  <1>3. FindLatest(a) => action[a].pc = "latest" /\ link' = link /\ metIssues' = metIssues
    BY DEF FindLatest
  <1>4. FindRecipient(a) => /\ action[a].pc = "recipient" /\ link' = link
                            /\ metIssues' = metIssues /\ metRequests' = metRequests
    BY DEF FindRecipient
  <1>5. RetireOthers(a) => action[a].pc = "retire" /\ metRequests' = metRequests
    BY DEF RetireOthers
  <1>6. IssueLink(a) => action[a].pc = "issue" /\ metIssues' = metIssues /\ metRequests' = metRequests
    BY DEF IssueLink
  <1>7. Claim(a) => action[a].pc = "claim" /\ metIssues' = metIssues /\ metRequests' = metRequests
    BY DEF Claim
  <1>8. SetPassword(a) => action[a].pc = "password" /\ metIssues' = metIssues /\ metRequests' = metRequests
    BY DEF SetPassword
  <1>9. OperatorSets(a) => action[a].pc = "operator" /\ metIssues' = metIssues /\ metRequests' = metRequests
    BY DEF OperatorSets
  <1>10. OperatorRetires(a) => action[a].pc = "retireAll" /\ metIssues' = metIssues /\ metRequests' = metRequests
    BY DEF OperatorRetires
  <1> QED
    BY <1>1, <1>2, <1>3, <1>4, <1>5, <1>6, <1>7, <1>8, <1>9, <1>10

LEMMA LinkStepKeepsReset ==
    ASSUME TypeOK, SetsInv, ResetInv, NEW a \in Actions, LinkStep(a)
    PROVE  ResetInv'
  <1> USE DEF ResetUntouched, NobodyComesTo, SameOrigin, SameUse, SameMarks, Excused
  <1>a. \A b \in Actions : b # a => action'[b] = action[b]
    BY LinkStepGoes DEF GoesTo
  <1>1. CASE \/ \E u \in Users : AskLink(a, u) \/ AskToSend(a, u) \/ OperatorFinds(a, u)
             \/ FindLatest(a) \/ FindRecipient(a)
    BY <1>1, <1>a, LinkStepsLeave, LinkStepsGo, ResetStays
  <1>2. CASE RetireOthers(a)
    <2>1. action[a].user \in Users /\ Retire(action[a].user)
      BY <1>2, Holds DEF RetireOthers
    <2> QED
      BY ZenonT(40), <1>2, <1>a, <2>1, RetireEffect, LinkStepsLeave, LinkStepsGo, ResetStays
  <1>3. CASE IssueLink(a)
    <2>1. action[a].pc = "issue" /\ action'[a].pc = "idle"
      BY <1>3, LinkStepsLeave, LinkStepsGo
    <2>2. CASE link' = link
      BY <1>a, <2>1, <2>2, ResetStays
    <2>3. CASE link' # link
      <3>1. \A n \in Links : \/ link'[n] = link[n]
                             \/ n = issued + 1 /\ ~link'[n].outlived /\ ~link'[n].overwrote
        BY <1>3, <2>3, IssueEffect
      <3>2. \A b \in Actions : action'[b].pc \in {"claim", "password"} =>
               /\ action'[b] = action[b] /\ action[b].link \in Links
               /\ link'[action[b].link] = link[action[b].link]
        <4>1. issued \in Int
          BY DEF TypeOK
        <4> QED
          BY <1>a, <2>1, <3>1, <4>1, Holds, ConstantsAssumption DEF SetsInv, Links
      <3>3. ASSUME NEW n \in Links, link'[n].outlived, ~link'[n].used, link'[n].user # None, ~link'[n].cut
            PROVE  \E b \in Actions : action'[b].pc = "retireAll" /\ action'[b].user = link'[n].user
        <4>1. At("retireAll", "user", link[n].user) /\ link'[n] = link[n]
          BY <3>1, <3>3 DEF ResetInv
        <4> QED
          BY <1>a, <2>1, <4>1 DEF At
      <3> QED
        BY <3>1, <3>2, <3>3 DEF ResetInv, At
    <2> QED
      BY <2>2, <2>3
  <1>4. ASSUME NEW n \in Links, FollowLink(a, n)
        PROVE  ResetInv'
    <2>1. /\ action[a].pc = "idle" /\ action'[a].pc = "claim" /\ action'[a].link = n
          /\ ~link[n].used /\ link[n].user # None
      BY <1>4, LinkStepsLeave, LinkStepsGo DEF FollowLink, Usable
    <2>2. link[n].outlived => At("retireAll", "user", link[n].user) \/ link[n].cut
      BY <2>1 DEF ResetInv
    <2>3. link'[n].outlived => Excused(link'[n])
      BY <1>4, <2>2, FollowEffect
    <2>4. ASSUME NEW k \in Links, link'[k].outlived, ~link'[k].used, link'[k].user # None, ~link'[k].cut
          PROVE  \E b \in Actions : action'[b].pc = "retireAll" /\ action'[b].user = link'[k].user
      <3>1. /\ link'[k].user = link[k].user
            /\ At("retireAll", "user", link[k].user)
        BY <1>4, <2>4, FollowEffect DEF ResetInv
      <3> QED
        BY <1>a, <2>1, <3>1 DEF At
    <2>5. ASSUME NEW b \in Actions, b # a, action'[b].pc \in {"claim", "password"},
                 link'[action'[b].link].outlived, link'[action'[b].link].user # None
          PROVE  Excused(link'[action'[b].link])
      BY <1>4, <1>a, <2>5, FollowEffect, Holds DEF ResetInv
    <2>6. \A k \in Links : link'[k].overwrote => Excused(link'[k])
      BY <1>4, FollowEffect DEF ResetInv
    <2> QED
      BY <2>1, <2>3, <2>4, <2>5, <2>6 DEF ResetInv, At
  <1>5. CASE Claim(a)
    <2>1. /\ action[a].pc = "claim" /\ action[a].link \in Links
          /\ action'[a].pc = "idle" \/ action'[a].link = action[a].link
      BY <1>5, Holds, LinkStepsLeave, LinkStepsGo
    <2>2. ASSUME NEW k \in Links, link'[k].outlived, ~link'[k].used, link'[k].user # None, ~link'[k].cut
          PROVE  \E b \in Actions : action'[b].pc = "retireAll" /\ action'[b].user = link'[k].user
      <3>1. /\ link'[k].user = link[k].user
            /\ At("retireAll", "user", link[k].user)
        BY <1>5, <2>2, ClaimEffect DEF ResetInv
      <3> QED
        BY <1>a, <2>1, <3>1 DEF At
    <2>3. ASSUME NEW b \in Actions, action'[b].pc \in {"claim", "password"},
                 link'[action'[b].link].outlived, link'[action'[b].link].user # None
          PROVE  Excused(link'[action'[b].link])
      <3>1. action[b].pc \in {"claim", "password"} /\ action'[b].link = action[b].link
        BY <1>a, <2>1, <2>3
      <3> QED
        BY <1>5, <2>3, <3>1, ClaimEffect, Holds DEF ResetInv
    <2>4. \A k \in Links : link'[k].overwrote => Excused(link'[k])
      BY <1>5, ClaimEffect DEF ResetInv
    <2> QED
      BY <2>2, <2>3, <2>4 DEF ResetInv, At
  <1>6. CASE SetPassword(a)
    <2> DEFINE n == action[a].link
    <2>1. action[a].pc = "password" /\ n \in Links /\ action'[a].pc = "idle"
      BY <1>6, Holds, LinkStepsLeave, LinkStepsGo
    <2>2. link[n].outlived /\ link[n].user # None => Excused(link[n])
      BY <2>1 DEF ResetInv
    <2>3. \A k \in Links :
             /\ link'[k].user = link[k].user /\ link'[k].used = link[k].used
             /\ link'[k].outlived = link[k].outlived /\ link'[k].raced = link[k].raced
             /\ link'[k].cut = link[k].cut
      BY <1>6, SetEffect
    <2>4. \A k \in Links : link'[k].overwrote =>
             link[k].overwrote \/ (k = n /\ link[n].outlived /\ link[n].user # None)
      BY <1>6, SetEffect
    <2>5. ASSUME NEW k \in Links, link'[k].outlived, ~link'[k].used, link'[k].user # None, ~link'[k].cut
          PROVE  \E b \in Actions : action'[b].pc = "retireAll" /\ action'[b].user = link'[k].user
      BY <1>a, <2>1, <2>3, <2>5 DEF ResetInv, At
    <2>6. ASSUME NEW b \in Actions, action'[b].pc \in {"claim", "password"},
                 link'[action'[b].link].outlived, link'[action'[b].link].user # None
          PROVE  Excused(link'[action'[b].link])
      BY <1>a, <2>1, <2>3, <2>6, Holds DEF ResetInv
    <2>7. \A k \in Links : link'[k].overwrote => Excused(link'[k])
      BY <2>2, <2>3, <2>4 DEF ResetInv
    <2> QED
      BY <2>5, <2>6, <2>7 DEF ResetInv, At
  <1>7. CASE OperatorSets(a)
    <2> DEFINE u == action[a].user
    <2>1. /\ action[a].pc = "operator" /\ u \in Users
          /\ \/ action'[a].pc = "idle" /\ u \notin Rows
             \/ action'[a].pc = "retireAll" /\ action'[a].user = u
      BY <1>7, Holds, LinkStepsLeave, LinkStepsGo
    <2> HIDE DEF u
    <2>2. ASSUME NEW k \in Links, link'[k].outlived, ~link'[k].used, link'[k].user # None, ~link'[k].cut
          PROVE  \E b \in Actions : action'[b].pc = "retireAll" /\ action'[b].user = link'[k].user
      <3>1. link'[k].user = link[k].user /\ ~link[k].used /\ (link[k].outlived \/ link[k].user = u)
        BY <1>7, <2>2, OperatorEffect DEF u
      <3>2. CASE link[k].user = u
        <4>1. u \in Rows
          BY <2>2, <3>1, <3>2 DEF TypeOK
        <4> QED
          BY <2>1, <3>1, <3>2, <4>1
      <3>3. CASE link[k].user # u
        <4>1. At("retireAll", "user", link[k].user)
          BY <1>7, <2>2, <3>1, <3>3, OperatorEffect DEF ResetInv
        <4> QED
          BY <1>a, <2>1, <3>1, <4>1 DEF At
      <3> QED
        BY <3>2, <3>3
    <2>3. ASSUME NEW b \in Actions, action'[b].pc \in {"claim", "password"},
                 link'[action'[b].link].outlived, link'[action'[b].link].user # None
          PROVE  Excused(link'[action'[b].link])
      <3> DEFINE k == action[b].link
      <3>1. action'[b] = action[b] /\ k \in Links /\ (At("claim", "link", k) \/ At("password", "link", k))
        BY <1>a, <2>1, <2>3, Holds DEF At
      <3>2. link'[k].user = link[k].user /\ (link[k].outlived \/ link[k].user = u)
        BY <1>7, <2>3, <3>1, OperatorEffect DEF u, SameOrigin
      <3>3. CASE link[k].user = u
        BY <1>7, <3>1, <3>3, OperatorEffect DEF u
      <3>4. CASE link[k].user # u
        <4>1. link[k].outlived /\ link[k].user # None
          BY <2>3, <3>1, <3>2, <3>4
        <4>2. Excused(link[k])
          BY <2>3, <3>1, <4>1 DEF ResetInv
        <4> QED
          BY <1>7, <3>1, <4>2, OperatorEffect
      <3> QED
        BY <3>3, <3>4
    <2>4. \A k \in Links : link'[k].overwrote => Excused(link'[k])
      BY <1>7, OperatorEffect DEF ResetInv
    <2> QED
      BY <2>2, <2>3, <2>4 DEF ResetInv, At
  <1>8. CASE OperatorRetires(a)
    <2> DEFINE u == action[a].user
    <2>1. action[a].pc = "retireAll" /\ u \in Users /\ Retire(u) /\ action'[a].pc = "idle"
      BY <1>8, Holds, LinkStepsGo DEF OperatorRetires
    <2>2. ASSUME NEW k \in Links, link'[k].outlived, ~link'[k].used, link'[k].user # None, ~link'[k].cut
          PROVE  \E b \in Actions : action'[b].pc = "retireAll" /\ action'[b].user = link'[k].user
      <3>1. /\ link'[k].user = link[k].user /\ link[k].user # u
            /\ At("retireAll", "user", link[k].user)
        BY <2>1, <2>2, RetireEffect DEF ResetInv
      <3> QED
        BY <1>a, <2>1, <3>1 DEF At
    <2>3. ASSUME NEW b \in Actions, action'[b].pc \in {"claim", "password"},
                 link'[action'[b].link].outlived, link'[action'[b].link].user # None
          PROVE  Excused(link'[action'[b].link])
      <3>1. action'[b] = action[b] /\ action[b].link \in Links
        BY <1>a, <2>1, <2>3, Holds
      <3> QED
        BY <2>1, <2>3, <3>1, RetireEffect DEF ResetInv
    <2>4. \A k \in Links : link'[k].overwrote => Excused(link'[k])
      BY <2>1, RetireEffect DEF ResetInv
    <2> QED
      BY <2>2, <2>3, <2>4 DEF ResetInv, At
  <1> QED
    BY <1>1, <1>2, <1>3, <1>4, <1>5, <1>6, <1>7, <1>8 DEF LinkStep

LEMMA FailKeepsLinks ==
    ASSUME TypeOK, LinkInv, NEW a \in Actions, Fail(a)
    PROVE  LinkInv'
  <1> USE DEF SameOrigin, SameUse, Excused
  <1>1. action'[a].pc = "idle" /\ \A b \in Actions : b # a => action'[b] = action[b]
    BY FailGoes DEF GoesTo
  <1>2. ASSUME NEW k \in Links, link'[k].outlived, ~link'[k].used, link'[k].user # None, ~link'[k].cut
        PROVE  \E b \in Actions : action'[b].pc = "retireAll" /\ action'[b].user = link'[k].user
    <2>1. link'[k].user = link[k].user /\ At("retireAll", "user", link[k].user)
      BY <1>2, FailEffect DEF LinkInv, ResetInv
    <2>2. PICK b \in Actions : action[b].pc = "retireAll" /\ action[b].user = link[k].user
      BY <2>1 DEF At
    <2>3. b # a
      BY <1>2, <2>2, FailEffect
    <2> QED
      BY <1>1, <2>1, <2>2, <2>3
  <1>3. ASSUME NEW b \in Actions, action'[b].pc \in {"claim", "password"},
               link'[action'[b].link].outlived, link'[action'[b].link].user # None
        PROVE  Excused(link'[action'[b].link])
    <2>1. action'[b] = action[b] /\ action[b].link \in Links
      BY <1>1, <1>3, Holds
    <2> QED
      BY <1>3, <2>1, FailEffect DEF LinkInv, ResetInv
  <1>4. \A k \in Links : link'[k].overwrote => Excused(link'[k])
    BY FailEffect DEF LinkInv, ResetInv
  <1>5. ResetInv'
    BY <1>2, <1>3, <1>4 DEF ResetInv, At
  <1>6. IssueInv'
    BY <1>1, FailGoes, FailEffect, IssuesStay DEF LinkInv, IssueUntouched, NobodyComesTo
  <1>7. RequestInv'
    BY <1>1, FailGoes, FailEffect, RequestsStay DEF LinkInv, RequestUntouched
  <1> QED
    BY <1>5, <1>6, <1>7 DEF LinkInv

LEMMA LinkStepKeepsIssues ==
    ASSUME TypeOK, IssueInv, NEW a \in Actions, LinkStep(a)
    PROVE  IssueInv'
  <1> USE DEF IssueUntouched, NobodyComesTo, SameOrigin, SameUse
  <1>a. \A b \in Actions : b # a => action'[b] = action[b]
    BY LinkStepGoes DEF GoesTo
  <1>1. CASE \/ \E u \in Users : AskLink(a, u) \/ AskToSend(a, u) \/ OperatorFinds(a, u)
             \/ FindLatest(a) \/ FindRecipient(a)
    BY <1>1, <1>a, LinkStepsLeave, LinkStepsGo, IssuesStay
  <1>2. CASE RetireOthers(a)
    <2> DEFINE u == action[a].user
    <2>1. u \in Users /\ Retire(u) /\ action'[a].pc = "issue" /\ action'[a].user = u
      BY <1>2, Holds, LinkStepsGo DEF RetireOthers
    <2>2. metIssues' = metIssues \cup {v \in {u} : At("issue", "user", u)} /\ action[a].pc = "retire"
      BY <1>2 DEF RetireOthers
    <2> HIDE DEF u
    <2>3. \A n \in Links : /\ link'[n].user = link[n].user
                           /\ link[n].used => link'[n].used
                           /\ link[n].user = u => link'[n].used
      BY <2>1, RetireEffect
    <2>4. u \in metIssues' \/ \A b \in Actions : ~(action[b].pc = "issue" /\ action[b].user = u)
      BY <2>2 DEF At
    <2> QED
      BY <1>a, <2>1, <2>2, <2>3, <2>4 DEF IssueInv
  <1>3. CASE IssueLink(a)
    <2> DEFINE u == action[a].user
    <2>1. action[a].pc = "issue" /\ u \in Users /\ action'[a].pc = "idle" /\ metIssues' = metIssues
      BY <1>3, Holds, LinkStepsGo, LinkStepsLeave
    <2>2. CASE link' = link
      BY <1>a, <2>1, <2>2, IssuesStay
    <2>3. CASE link' # link
      <3>1. /\ issued + 1 \in Links /\ link'[issued + 1].user = u
            /\ \A n \in Links : n # issued + 1 => link'[n] = link[n]
        BY <1>3, <2>3, IssueEffect
      <3>2. u \in metIssues
            \/ /\ \A b \in Actions : b # a => ~(action[b].pc = "issue" /\ action[b].user = u)
               /\ \A n \in Links : link[n].user = u => link[n].used
        BY <2>1 DEF IssueInv
      <3> HIDE DEF u
      <3> QED
        BY <1>a, <2>1, <3>1, <3>2 DEF IssueInv
    <2> QED
      BY <2>2, <2>3
  <1>4. ASSUME NEW n \in Links, FollowLink(a, n)
        PROVE  IssueInv'
    BY <1>4, <1>a, FollowEffect, LinkStepsLeave, LinkStepsGo, IssuesStay
  <1>5. CASE Claim(a)
    BY <1>5, <1>a, ClaimEffect, LinkStepsLeave, LinkStepsGo, IssuesStay
  <1>6. CASE SetPassword(a)
    BY <1>6, <1>a, SetEffect, LinkStepsLeave, LinkStepsGo, IssuesStay
  <1>7. CASE OperatorSets(a)
    BY <1>7, <1>a, OperatorEffect, LinkStepsLeave, LinkStepsGo, IssuesStay
  <1>8. CASE OperatorRetires(a)
    <2>1. action[a].user \in Users /\ Retire(action[a].user)
      BY <1>8, Holds DEF OperatorRetires
    <2> QED
      BY <1>8, <1>a, <2>1, RetireEffect, LinkStepsLeave, LinkStepsGo, IssuesStay
  <1> QED
    BY <1>1, <1>2, <1>3, <1>4, <1>5, <1>6, <1>7, <1>8 DEF LinkStep

LEMMA LinkStepKeepsRequests ==
    ASSUME TypeOK, RequestInv, NEW a \in Actions, LinkStep(a)
    PROVE  RequestInv'
  <1> USE DEF RequestUntouched, SameOrigin, SameUse
  <1>a. \A b \in Actions : b # a => action'[b] = action[b]
    BY LinkStepGoes DEF GoesTo
  <1>1. ASSUME NEW u \in Users, AskLink(a, u) \/ AskToSend(a, u) \/ OperatorFinds(a, u)
        PROVE  RequestInv'
    <2>1. action'[a].pc \notin {"recipient", "retire", "issue"} \/ action'[a].by = "owner"
      <3>1. CASE AskToSend(a, u)
        BY <3>1, GoesThere DEF AskToSend, Begins
      <3>2. CASE AskLink(a, u) \/ OperatorFinds(a, u)
        BY <3>2, GoesThere DEF AskLink, OperatorFinds, Begins
      <3> QED
        BY <1>1, <3>1, <3>2
    <2> QED
      BY <1>1, <1>a, <2>1, LinkStepsLeave, RequestsStay
  <1>2. CASE FindLatest(a)
    <2> DEFINE u == action[a].user
               another == \E b \in Actions : /\ action[b].pc \in {"retire", "issue"}
                                            /\ action[b].user = u /\ action[b].by = "request"
    <2>1. /\ action[a].pc = "latest" /\ u \in Users /\ link' = link
          /\ \/ action'[a].pc = "idle" /\ ~CanRequestAnother(u)
             \/ /\ action'[a].pc = "retire" /\ action'[a].user = u /\ action'[a].by = "request"
                /\ CanRequestAnother(u)
      BY <1>2, Holds, LinkStepsGo, LinkStepsLeave
    <2>2. metRequests' = metRequests \cup {v \in {u} : CanRequestAnother(u) /\ another}
      BY <1>2 DEF FindLatest
    <2>3. CanRequestAnother(u) => \A n \in Links : ~FreshRequest(n, u)
      BY DEF CanRequestAnother, FreshRequest
    <2>4. another <=> \E b \in Actions : Requested(b, u)
      BY DEF Requested
    <2> HIDE DEF u, another, CanRequestAnother
    <2>5. CASE ~CanRequestAnother(u)
      <3>1. metRequests' = metRequests
        BY <2>2, <2>5
      <3> QED
        BY <1>a, <2>1, <2>5, <3>1, RequestsStay
    <2>6. CASE CanRequestAnother(u)
      <3>1. u \in metRequests' \/ \A b \in Actions : ~Requested(b, u)
        BY <2>2, <2>4, <2>6
      <3>2. /\ action'[a].pc = "retire" /\ action'[a].user = u
            /\ \A n \in Links : ~FreshRequest(n, u)
        BY <2>1, <2>3, <2>6
      <3>3. \A b \in Actions, v \in Users :
              Requested(b, v)' => (b = a /\ v = u) \/ (b # a /\ Requested(b, v))
        BY <1>a, <3>2 DEF Requested
      <3>4. \A n \in Links, v \in Users : FreshRequest(n, v)' <=> FreshRequest(n, v)
        BY <2>1 DEF FreshRequest
      <3>5. \A b \in Actions : action'[b].pc = "recipient" => action'[b].by = "owner"
        BY <1>a, <3>2 DEF RequestInv
      <3>6. ASSUME NEW v \in Users
            PROVE  \/ v \in metRequests'
                   \/ /\ \A b, c \in Actions : Requested(b, v)' /\ Requested(c, v)' => b = c
                      /\ \A b \in Actions, n \in Links : ~(Requested(b, v)' /\ FreshRequest(n, v)')
                      /\ \A n, m \in Links : FreshRequest(n, v)' /\ FreshRequest(m, v)' => n = m
        <4>1. CASE v = u
          BY <3>1, <3>2, <3>3, <3>4, <4>1
        <4>2. CASE v # u
          <5>1. v \in metRequests => v \in metRequests'
            BY <2>2
          <5> QED
            BY <3>3, <3>4, <4>2, <5>1 DEF RequestInv
        <4> QED
          BY <4>1, <4>2
      <3> QED
        BY <3>5, <3>6 DEF RequestInv
    <2> QED
      BY <2>5, <2>6
  <1>3. CASE FindRecipient(a)
    <2>1. action'[a].pc = "idle" \/ action'[a].by = "owner"
      BY <1>3, LinkStepsGo, LinkStepsLeave DEF RequestInv
    <2> QED
      BY <1>3, <1>a, <2>1, LinkStepsLeave, RequestsStay
  <1>4. CASE RetireOthers(a)
    <2>1. /\ action[a].user \in Users /\ Retire(action[a].user)
          /\ action[a].pc = "retire" /\ metRequests' = metRequests
          /\ action'[a].pc = "issue" /\ action'[a].user = action[a].user
          /\ action'[a].by = action[a].by
      BY <1>4, Holds, LinkStepsGo, LinkStepsLeave DEF RetireOthers
    <2>2. \A b \in Actions, v \in Users : Requested(b, v)' <=> Requested(b, v)
      BY <1>a, <2>1 DEF Requested
    <2>3. \A n \in Links, v \in Users : FreshRequest(n, v)' <=> FreshRequest(n, v)
      BY <2>1, RetireEffect DEF FreshRequest
    <2>4. \A b \in Actions : action'[b].pc = "recipient" => action'[b].by = "owner"
      BY <1>a, <2>1 DEF RequestInv
    <2> QED
      BY <2>1, <2>2, <2>3, <2>4 DEF RequestInv
  <1>5. CASE IssueLink(a)
    <2> DEFINE u == action[a].user
    <2>1. action[a].pc = "issue" /\ u \in Users /\ action'[a].pc = "idle" /\ metRequests' = metRequests
      BY <1>5, Holds, LinkStepsGo, LinkStepsLeave
    <2>2. CASE link' = link
      BY <1>a, <2>1, <2>2, RequestsStay
    <2>3. CASE link' # link
      <3>1. /\ issued + 1 \in Links
            /\ link'[issued + 1].user = u /\ link'[issued + 1].by = action[a].by
            /\ \A n \in Links : n # issued + 1 => link'[n] = link[n]
        BY <1>5, <2>3, IssueEffect
      <3>2. \A b \in Actions, v \in Users : Requested(b, v)' => b # a /\ Requested(b, v)
        BY <1>a, <2>1 DEF Requested
      <3>3. \A n \in Links, v \in Users : FreshRequest(n, v)' =>
               FreshRequest(n, v) \/ (n = issued + 1 /\ v = u /\ Requested(a, u))
        BY <2>1, <3>1 DEF FreshRequest, Requested
      <3>4. \A b \in Actions : action'[b].pc = "recipient" => action'[b].by = "owner"
        BY <1>a, <2>1 DEF RequestInv
      <3> HIDE DEF u
      <3>5. ASSUME NEW v \in Users
            PROVE  \/ v \in metRequests'
                   \/ /\ \A b, c \in Actions : Requested(b, v)' /\ Requested(c, v)' => b = c
                      /\ \A b \in Actions, n \in Links : ~(Requested(b, v)' /\ FreshRequest(n, v)')
                      /\ \A n, m \in Links : FreshRequest(n, v)' /\ FreshRequest(m, v)' => n = m
        BY <2>1, <3>2, <3>3 DEF RequestInv
      <3> QED
        BY <3>4, <3>5 DEF RequestInv
    <2> QED
      BY <2>2, <2>3
  <1>6. ASSUME NEW n \in Links, FollowLink(a, n)
        PROVE  RequestInv'
    BY <1>6, <1>a, FollowEffect, LinkStepsLeave, LinkStepsGo, RequestsStay
  <1>7. CASE Claim(a)
    BY <1>7, <1>a, ClaimEffect, LinkStepsLeave, LinkStepsGo, RequestsStay
  <1>8. CASE SetPassword(a)
    BY <1>8, <1>a, SetEffect, LinkStepsLeave, LinkStepsGo, RequestsStay
  <1>9. CASE OperatorSets(a)
    BY <1>9, <1>a, OperatorEffect, LinkStepsLeave, LinkStepsGo, RequestsStay
  <1>10. CASE OperatorRetires(a)
    <2>1. action[a].user \in Users /\ Retire(action[a].user)
      BY <1>10, Holds DEF OperatorRetires
    <2> QED
      BY <1>10, <1>a, <2>1, RetireEffect, LinkStepsLeave, LinkStepsGo, RequestsStay
  <1> QED
    BY <1>1, <1>2, <1>3, <1>4, <1>5, <1>6, <1>7, <1>8, <1>9, <1>10 DEF LinkStep

\* What asks for a link, issues it or resets a password, against the links there are.
THEOREM LinkInvariance == Spec => []LinkInv
  <1>1. Init => LinkInv
    <2> SUFFICES ASSUME Init PROVE LinkInv
      OBVIOUS
    <2>1. /\ \A a \in Actions : action[a].pc = "idle"
          /\ \A n \in Links : link[n].user = None /\ ~link[n].outlived /\ ~link[n].overwrote
      BY DEF Init, Idle, NoLink
    <2> QED
      BY <2>1, ConstantsAssumption
         DEF LinkInv, ResetInv, IssueInv, RequestInv, Requested, FreshRequest
  <1>2. TypeOK /\ SetsInv /\ LinkInv /\ [Next]_vars => LinkInv'
    <2> SUFFICES ASSUME TypeOK, SetsInv, LinkInv, [Next]_vars PROVE LinkInv'
      OBVIOUS
    <2>1. ASSUME NEW a \in Actions, LinkStep(a)
          PROVE  LinkInv'
      BY <2>1, LinkStepKeepsReset, LinkStepKeepsIssues, LinkStepKeepsRequests DEF LinkInv
    <2>2. CASE \/ \E a \in Actions : TeamStep(a) \/ KeyStep(a)
               \/ \E n \in Links : Age(n)
               \/ \E k \in Keys : IssueKey(k)
               \/ UNCHANGED vars
      BY <2>2, OthersLeaveTheLinks, LinksStay
    <2>3. CASE \E a \in Actions : Fail(a)
      BY <2>3, FailKeepsLinks
    <2> QED
      BY <2>1, <2>2, <2>3, Steps
  <1> QED
    BY <1>1, <1>2, ConsoleTypeCorrect, SetsInvariance, PTL DEF Spec

\* auth.ts:129-133, however many links, resets and submissions there are.
THEOREM OperatorHasTheLastWord == Spec => []OperatorResetStands
  <1>1. LinkInv => OperatorResetStands
    BY DEF LinkInv, ResetInv, Excused, OperatorResetStands
  <1> QED
    BY <1>1, LinkInvariance, PTL

\* password-reset.ts:53-54 and 88-96, however many requests there are.
THEOREM OneUsableLink == Spec => []MoreLinksTakeOverlap
  <1>1. TypeOK /\ LinkInv => MoreLinksTakeOverlap
    <2> SUFFICES ASSUME TypeOK, LinkInv, NEW n \in Links, NEW m \in Links,
                        n # m, link[n].user # None, link[n].user = link[m].user
                 PROVE  /\ Usable(n) /\ Usable(m) => link[n].user \in metIssues
                        /\ /\ {link[n].by, link[m].by} = {"request"}
                           /\ {link[n].age, link[m].age} = {"fresh"}
                           => link[n].user \in metRequests
      BY DEF MoreLinksTakeOverlap
    <2>1. link[n].user \in Users
      BY DEF TypeOK, Link
    <2>2. Usable(n) /\ Usable(m) => link[n].user \in metIssues
      BY <2>1 DEF Usable, LinkInv, IssueInv
    <2>3. /\ {link[n].by, link[m].by} = {"request"}
          /\ {link[n].age, link[m].age} = {"fresh"}
          => FreshRequest(n, link[n].user) /\ FreshRequest(m, link[n].user)
      BY DEF FreshRequest
    <2> QED
      BY <2>1, <2>2, <2>3 DEF LinkInv, RequestInv
  <1> QED
    BY <1>1, ConsoleTypeCorrect, LinkInvariance, PTL

----------------------------------------------------------------------------
(* API keys *)

Issued(k) == key[k].state # "unborn"
Live(k) == key[k].state = "live"

\* A family is named after its first key.  Where no rotation met another change
\* of its key, whoever rotates a key holds a live one, alone; and the family has
\* one live key, or none once that was revoked.
KeyInv ==
    /\ \A k \in Keys : ~Issued(k) => key[k].family = k /\ k \notin ended
    /\ \A k \in Keys : Issued(k) => Issued(key[k].family) /\ key[key[k].family].family = key[k].family
    /\ \A a \in Actions : action[a].pc \in {"revoke", "rotate"} => Issued(action[a].key)
    /\ \A a \in Actions :
         LET k == action[a].key
         IN  action[a].pc = "rotate" /\ key[k].family \notin metKeys =>
               /\ Live(k)
               /\ \A b \in Actions : action[b].pc = "rotate" /\ action[b].key = k => b = a
    /\ \A f \in Keys :
         f \notin metKeys =>
           /\ \A k, n \in Keys : Live(k) /\ Live(n) /\ key[k].family = f /\ key[n].family = f => k = n
           /\ f \in ended => \A k \in Keys : Live(k) => key[k].family # f
           /\ Issued(f) /\ key[f].family = f /\ f \notin ended =>
                \E k \in Keys : Live(k) /\ key[k].family = f

KeysUntouched ==
    /\ key' = key /\ ended' = ended /\ metKeys' = metKeys
    /\ NobodyComesTo({"revoke", "rotate"})

LEMMA KeysStay ==
    ASSUME TypeOK, KeyInv, KeysUntouched
    PROVE  KeyInv'
  BY DEF KeyInv, KeysUntouched, NobodyComesTo, Issued, Live

LEMMA OthersLeaveTheKeys ==
    ASSUME TypeOK
    PROVE  /\ \A a \in Actions : TeamStep(a) \/ LinkStep(a) => KeysUntouched
           /\ \A n \in Links : Age(n) => KeysUntouched
           /\ \A a \in Actions : Fail(a) => KeysUntouched
           /\ UNCHANGED vars => KeysUntouched
  BY TeamStepGoes, LinkStepGoes, LoneStepsGo, FailGoes, Stutter DEF KeysUntouched, NobodyComesTo, GoesTo

LEMMA IssueKeyKeeps ==
    ASSUME TypeOK, KeyInv, NEW k \in Keys, IssueKey(k)
    PROVE  KeyInv'
  <1>1. /\ ~Issued(k) /\ key' = [key EXCEPT ![k].state = "live"]
        /\ ended' = ended /\ metKeys' = metKeys /\ action' = action
    BY DEF IssueKey, Issued
  <1>2. /\ \A n \in Keys : n # k => key'[n] = key[n]
        /\ key'[k].state = "live" /\ key'[k].family = key[k].family
    BY <1>1 DEF TypeOK, Key
  <1>3. key[k].family = k /\ k \notin ended
    BY <1>1 DEF KeyInv
  <1>4. \A n \in Keys : key'[n].family = key[n].family
    BY <1>2
  <1>5. \A n \in Keys : n # k => key[n].family # k
    BY <1>1 DEF KeyInv
  <1>6. \A n \in Keys : key[n].family \in Keys
    BY DEF TypeOK, Key
  <1>7. \A n \in Keys : Issued(n) => Issued(n)'
    BY <1>2 DEF Issued
  <1>8. \A n \in Keys : n # k => (Issued(n)' <=> Issued(n)) /\ (Live(n)' <=> Live(n))
    BY <1>2 DEF Issued, Live
  <1>9. Live(k)' /\ Issued(k)' /\ ~Live(k)
    BY <1>1, <1>2 DEF Issued, Live
  <1>10. \A a \in Actions : action[a].pc \in {"revoke", "rotate"} => action[a].key \in Keys /\ action[a].key # k
    BY <1>1, Holds DEF KeyInv
  <1> USE <1>1, <1>3, <1>4, <1>6
  <1>11. \A n \in Keys : ~Issued(n)' => key[n].family = n /\ n \notin ended
    BY <1>7 DEF KeyInv
  <1>12. \A n \in Keys : Issued(n)' => Issued(key[n].family)' /\ key[key[n].family].family = key[n].family
    BY <1>7, <1>8, <1>9 DEF KeyInv
  <1>13. \A a \in Actions : action[a].pc \in {"revoke", "rotate"} => Issued(action[a].key)'
    BY <1>7, <1>10 DEF KeyInv
  <1>14. ASSUME NEW a \in Actions, action[a].pc = "rotate", key[action[a].key].family \notin metKeys
         PROVE  /\ Live(action[a].key)'
                /\ \A b \in Actions : action[b].pc = "rotate" /\ action[b].key = action[a].key => b = a
    <2>1. Live(action[a].key) /\ \A b \in Actions : action[b].pc = "rotate" /\ action[b].key = action[a].key => b = a
      BY <1>14 DEF KeyInv
    <2> QED
      BY <1>8, <1>10, <1>14, <2>1
  <1>15. ASSUME NEW f \in Keys, f \notin metKeys
         PROVE  /\ \A m, n \in Keys : Live(m)' /\ Live(n)' /\ key[m].family = f /\ key[n].family = f => m = n
                /\ f \in ended => \A n \in Keys : Live(n)' => key[n].family # f
                /\ Issued(f)' /\ key[f].family = f /\ f \notin ended =>
                     \E n \in Keys : Live(n)' /\ key[n].family = f
    <2>1. CASE f = k
      BY <1>5, <1>9, <2>1
    <2>2. CASE f # k
      BY <1>8, <1>9, <1>15, <2>2 DEF KeyInv
    <2> QED
      BY <2>1, <2>2
  <1>16. \A a \in Actions : action[a].pc = "rotate" => key'[action[a].key].family = key[action[a].key].family
    BY <1>10
  <1>17. \A n \in Keys : key'[key'[n].family].family = key[key[n].family].family
    OBVIOUS
  <1> QED
    BY <1>11, <1>12, <1>13, <1>14, <1>15, <1>16, <1>17 DEF KeyInv

LEMMA KeyStepKeeps ==
    ASSUME TypeOK, KeyInv, NEW a \in Actions, KeyStep(a)
    PROVE  KeyInv'
  <1> USE GoesThere DEF Begins, Ends, Idle, teamVars, linkVars
  <1>a. \A b \in Actions : b # a => action'[b] = action[b]
    BY KeyStepGoes DEF GoesTo
  <1>b. \A k \in Keys : key[k].family \in Keys
    BY DEF TypeOK, Key
  <1>1. ASSUME NEW k \in Keys, FindRevoked(a, k)
        PROVE  KeyInv'
    <2>1. /\ key' = key /\ ended' = ended /\ metKeys' = metKeys /\ Issued(k)
          /\ action'[a].pc = "revoke" /\ action'[a].key = k
      BY <1>1 DEF FindRevoked, keyVars, Issued
    <2> QED
      BY <1>a, <2>1 DEF KeyInv, Issued, Live
  <1>2. ASSUME NEW k \in Keys, FindRotated(a, k)
        PROVE  KeyInv'
    <2>1. /\ key' = key /\ ended' = ended /\ Live(k) /\ action[a].pc = "idle"
          /\ metKeys' = metKeys \cup {f \in {key[k].family} : At("rotate", "key", k)}
          /\ action'[a].pc = "rotate" /\ action'[a].key = k
      BY <1>2 DEF FindRotated, Rotatable, Live
    <2>2. /\ metKeys \subseteq metKeys'
          /\ key[k].family \in metKeys' \/ \A b \in Actions : ~(action[b].pc = "rotate" /\ action[b].key = k)
      BY <2>1 DEF At
    <2>3. ASSUME NEW b \in Actions, action'[b].pc = "rotate", key[action'[b].key].family \notin metKeys'
          PROVE  /\ Live(action'[b].key)
                 /\ \A c \in Actions : action'[c].pc = "rotate" /\ action'[c].key = action'[b].key => c = b
      <3>1. CASE action'[b].key = k
        BY <1>a, <2>1, <2>2, <2>3, <3>1
      <3>2. CASE action'[b].key # k
        <4>1. b # a /\ action'[b] = action[b] /\ key[action[b].key].family \notin metKeys
          BY <1>a, <2>1, <2>2, <2>3, <3>2
        <4> QED
          BY <1>a, <2>1, <2>3, <3>2, <4>1 DEF KeyInv
      <3> QED
        BY <3>1, <3>2
    <2>4. \A b \in Actions : action'[b].pc \in {"revoke", "rotate"} => Issued(action'[b].key)
      BY <1>a, <2>1 DEF KeyInv, Issued, Live
    <2> QED
      BY <2>1, <2>2, <2>3, <2>4 DEF KeyInv, Issued, Live
  <1>3. CASE Revoke(a)
    <2> DEFINE k == action[a].key
               g == key[k].family
    <2>1. /\ action[a].pc = "revoke" /\ k \in Keys /\ Issued(k) /\ g \in Keys
          /\ action'[a].pc = "idle"
      BY <1>3, <1>b, Holds DEF Revoke, KeyInv
    <2>2. /\ key' = [key EXCEPT ![k].state = "revoked"]
          /\ ended' = ended \cup {f \in {g} : key[k].state = "live"}
          /\ metKeys' = metKeys \cup {f \in {f \in {g} : key[k].state = "live"} : At("rotate", "key", k)}
      BY <1>3 DEF Revoke
    <2>3. /\ \A n \in Keys : n # k => key'[n] = key[n]
          /\ key'[k].state = "revoked" /\ key'[k].family = g
      BY <2>1, <2>2 DEF TypeOK, Key
    <2>4. /\ \A n \in Keys : key'[n].family = key[n].family
          /\ \A n \in Keys : Issued(n)' <=> Issued(n)
          /\ \A n \in Keys : Live(n)' <=> Live(n) /\ n # k
      BY <2>1, <2>3 DEF Issued, Live
    <2>5. /\ metKeys \subseteq metKeys'
          /\ ended' = IF Live(k) THEN ended \cup {g} ELSE ended
          /\ Live(k) => g \in metKeys' \/ \A b \in Actions : ~(action[b].pc = "rotate" /\ action[b].key = k)
      BY <2>2 DEF At, Live
    <2>6. \A b \in Actions : action[b].pc \in {"revoke", "rotate"} => action[b].key \in Keys
      BY Holds
    <2> HIDE DEF k, g
    <2>7. ASSUME NEW b \in Actions, action'[b].pc = "rotate", key'[action'[b].key].family \notin metKeys'
          PROVE  /\ Live(action[b].key)'
                 /\ \A c \in Actions : action'[c].pc = "rotate" /\ action'[c].key = action'[b].key => c = b
      <3>1. /\ b # a /\ action'[b] = action[b] /\ action[b].key \in Keys
            /\ key[action[b].key].family \notin metKeys
        BY <1>a, <2>1, <2>4, <2>5, <2>6, <2>7
      <3>2. /\ Live(action[b].key)
            /\ \A c \in Actions : action[c].pc = "rotate" /\ action[c].key = action[b].key => c = b
        BY <2>7, <3>1 DEF KeyInv
      <3>3. action[b].key # k
        BY <2>3, <2>5, <2>7, <3>1, <3>2
      <3> QED
        BY <1>a, <2>1, <2>3, <3>1, <3>2, <3>3 DEF Live
    <2>8. ASSUME NEW f \in Keys, f \notin metKeys'
          PROVE  /\ \A m, n \in Keys : Live(m)' /\ Live(n)' /\ key[m].family = f /\ key[n].family = f => m = n
                 /\ f \in ended' => \A n \in Keys : Live(n)' => key[n].family # f
                 /\ Issued(f) /\ key[f].family = f /\ f \notin ended' =>
                      \E n \in Keys : Live(n)' /\ key[n].family = f
      <3>1. /\ \A m, n \in Keys : Live(m) /\ Live(n) /\ key[m].family = f /\ key[n].family = f => m = n
            /\ f \in ended => \A n \in Keys : Live(n) => key[n].family # f
            /\ Issued(f) /\ key[f].family = f /\ f \notin ended =>
                 \E n \in Keys : Live(n) /\ key[n].family = f
        BY <2>5, <2>8 DEF KeyInv
      <3>2. \A n \in Keys : n = k => key[n].family = g
        BY DEF g
      <3> QED
        BY <2>1, <2>4, <2>5, <3>1, <3>2
    <2>9. \A n \in Keys : ~Issued(n)' => key[n].family = n /\ n \notin ended'
      <3>1. Issued(g)
        BY <2>1 DEF KeyInv, g
      <3> QED
        BY <2>4, <2>5, <3>1 DEF KeyInv
    <2>10. \A b \in Actions : action'[b].pc \in {"revoke", "rotate"} =>
              action'[b] = action[b] /\ action[b].key \in Keys /\ Issued(action[b].key)'
      BY <1>a, <2>1, <2>4, <2>6 DEF KeyInv
    <2>11. \A n \in Keys : Issued(n)' => Issued(key[n].family)' /\ key[key[n].family].family = key[n].family
      BY <1>b, <2>4 DEF KeyInv
    <2>12. \A n \in Keys : key'[key'[n].family].family = key[key[n].family].family
      BY <1>b, <2>4
    <2> QED
      BY <1>b, <2>4, <2>7, <2>8, <2>9, <2>10, <2>11, <2>12 DEF KeyInv, Issued, Live
  <1>4. CASE Rotate(a)
    <2> DEFINE k == action[a].key
               g == key[k].family
    <2>1. /\ action[a].pc = "rotate" /\ k \in Keys /\ Issued(k) /\ g \in Keys
          /\ action'[a].pc = "idle" /\ ended' = ended /\ metKeys' = metKeys
      BY <1>4, <1>b, Holds DEF Rotate, KeyInv
    <2>2. PICK n \in Keys :
            /\ ~Issued(n)
            /\ key' = [key EXCEPT ![n] = [state |-> "live", family |-> g], ![k].state = "revoked"]
      BY <1>4 DEF Rotate, Issued
    <2>3. n # k
      BY <2>1, <2>2
    <2> HIDE DEF k, g
    <2>4. /\ \A m \in Keys : m # k /\ m # n => key'[m] = key[m]
          /\ key'[k].state = "revoked" /\ key'[k].family = key[k].family
          /\ key'[n].state = "live" /\ key'[n].family = g
      BY <2>1, <2>2, <2>3 DEF TypeOK, Key
    <2>5. /\ key[n].family = n /\ n \notin ended
          /\ Issued(g) /\ key[g].family = g /\ g # n
      BY <2>1, <2>2 DEF KeyInv, g
    <2>6. \A m \in Keys : m # n => key[m].family # n
      BY <2>2 DEF KeyInv
    <2>7. /\ \A m \in Keys : m # n => key'[m].family = key[m].family
          /\ \A m \in Keys : Issued(m)' <=> Issued(m) \/ m = n
          /\ \A m \in Keys : Live(m)' <=> (Live(m) /\ m # k) \/ m = n
      BY <2>1, <2>2, <2>3, <2>4 DEF Issued, Live
    <2>8. /\ ~Live(n) /\ key[k].family = g
          /\ g \notin metKeys => Live(k) /\ \A b \in Actions : action[b].pc = "rotate" /\ action[b].key = k => b = a
      <3>1. ~Live(n) /\ key[k].family = g
        BY <2>2 DEF Issued, Live, g
      <3>2. g \notin metKeys => Live(k) /\ \A b \in Actions : action[b].pc = "rotate" /\ action[b].key = k => b = a
        BY <2>1 DEF KeyInv, k, g
      <3> QED
        BY <3>1, <3>2
    <2>9. \A b \in Actions : action'[b].pc \in {"revoke", "rotate"} =>
             /\ b # a /\ action'[b] = action[b] /\ action[b].key \in Keys
             /\ Issued(action[b].key) /\ action[b].key # n
      BY <1>a, <2>1, <2>2, Holds DEF KeyInv
    <2>10. ASSUME NEW b \in Actions, action'[b].pc = "rotate", key'[action'[b].key].family \notin metKeys
           PROVE  /\ Live(action[b].key)'
                  /\ \A c \in Actions : action'[c].pc = "rotate" /\ action'[c].key = action'[b].key => c = b
      <3>1. /\ b # a /\ action'[b] = action[b] /\ action[b].key \in Keys /\ action[b].key # n
            /\ key[action[b].key].family \notin metKeys
        BY <2>7, <2>9, <2>10
      <3>2. /\ Live(action[b].key)
            /\ \A c \in Actions : action[c].pc = "rotate" /\ action[c].key = action[b].key => c = b
        BY <2>10, <3>1 DEF KeyInv
      <3>3. action[b].key # k
        BY <2>8, <2>10, <3>1
      <3>4. key'[action[b].key] = key[action[b].key]
        BY <2>4, <3>1, <3>3
      <3> QED
        BY <1>a, <2>1, <3>1, <3>2, <3>4 DEF Live
    <2>11. ASSUME NEW f \in Keys, f \notin metKeys
           PROVE  /\ \A m, l \in Keys : Live(m)' /\ Live(l)' /\ key'[m].family = f /\ key'[l].family = f => m = l
                  /\ f \in ended => \A m \in Keys : Live(m)' => key'[m].family # f
                  /\ Issued(f)' /\ key'[f].family = f /\ f \notin ended =>
                       \E m \in Keys : Live(m)' /\ key'[m].family = f
      <3>1. /\ \A m, l \in Keys : Live(m) /\ Live(l) /\ key[m].family = f /\ key[l].family = f => m = l
            /\ f \in ended => \A m \in Keys : Live(m) => key[m].family # f
            /\ Issued(f) /\ key[f].family = f /\ f \notin ended =>
                 \E m \in Keys : Live(m) /\ key[m].family = f
        BY <2>11 DEF KeyInv
      <3>2. CASE f = g
        <4>1. Live(k) /\ g \notin ended
          BY <2>1, <2>8, <2>11, <3>1, <3>2
        <4>2. \A m \in Keys : Live(m)' /\ key'[m].family = g => m = n
          BY <2>1, <2>7, <2>8, <3>1, <3>2, <4>1
        <4> QED
          BY <2>4, <2>7, <3>2, <4>1, <4>2
      <3>3. CASE f # g
        <4>1. \A m \in Keys : key'[m].family = f => m # n /\ key[m].family = f /\ (Live(m)' <=> Live(m))
          BY <2>1, <2>4, <2>7, <2>8, <3>3
        <4>2. \A m \in Keys : Live(m) /\ key[m].family = f => Live(m)' /\ key'[m].family = f
          BY <2>1, <2>7, <2>8, <3>3
        <4>3. key'[f].family = f => f # n /\ (Issued(f)' => Issued(f))
          BY <2>4, <2>7, <3>3
        <4> QED
          BY <2>7, <3>1, <4>1, <4>2, <4>3
      <3> QED
        BY <3>2, <3>3
    <2>12. \A m \in Keys : ~Issued(m)' => key'[m].family = m /\ m \notin ended
      BY <2>7 DEF KeyInv
    <2>13. ASSUME NEW m \in Keys, Issued(m)'
           PROVE  Issued(key[m].family)' /\ key'[key'[m].family].family = key'[m].family
      <3>1. CASE m = n
        BY <2>1, <2>4, <2>5, <2>7, <3>1
      <3>2. CASE m # n
        <4>1. Issued(m) /\ key'[m].family = key[m].family /\ key[m].family \in Keys
          BY <1>b, <2>7, <2>13, <3>2
        <4>2. Issued(key[m].family) /\ key[key[m].family].family = key[m].family
          BY <4>1 DEF KeyInv
        <4>3. key[m].family # n
          BY <2>2, <4>2
        <4>4. Issued(key[m].family)' /\ key'[key[m].family].family = key[key[m].family].family
          BY <2>7, <4>1, <4>2, <4>3
        <4> QED
          BY <4>1, <4>2, <4>4
      <3> QED
        BY <3>1, <3>2
    <2>14. \A b \in Actions : action'[b].pc \in {"revoke", "rotate"} => Issued(action[b].key)' /\ action'[b] = action[b]
      BY <2>7, <2>9
    <2> QED
      BY <2>1, <2>10, <2>11, <2>12, <2>13, <2>14 DEF KeyInv, Issued, Live
  <1> QED
    BY <1>1, <1>2, <1>3, <1>4 DEF KeyStep

\* Who rotates a key holds a live one, alone, unless another change met it.
THEOREM KeyInvariance == Spec => []KeyInv
  <1>1. Init => KeyInv
    <2> SUFFICES ASSUME Init PROVE KeyInv
      OBVIOUS
    <2>1. /\ \A k \in Keys : ~Issued(k) /\ ~Live(k) /\ key[k].family = k
          /\ ended = {}
          /\ \A a \in Actions : action[a].pc = "idle"
      BY DEF Init, Issued, Live, Idle
    <2> QED
      BY <2>1 DEF KeyInv
  <1>2. TypeOK /\ KeyInv /\ [Next]_vars => KeyInv'
    <2> SUFFICES ASSUME TypeOK, KeyInv, [Next]_vars PROVE KeyInv'
      OBVIOUS
    <2>1. CASE \/ \E a \in Actions : TeamStep(a) \/ LinkStep(a) \/ Fail(a)
               \/ \E n \in Links : Age(n)
               \/ UNCHANGED vars
      BY <2>1, OthersLeaveTheKeys, KeysStay
    <2>2. CASE \/ \E a \in Actions : KeyStep(a)
               \/ \E k \in Keys : IssueKey(k)
      BY <2>2, KeyStepKeeps, IssueKeyKeeps
    <2> QED
      BY <2>1, <2>2, Steps
  <1> QED
    BY <1>1, <1>2, ConsoleTypeCorrect, PTL DEF Spec

\* keys/[id]/route.ts:7-14, for any number of keys, revocations and rotations.
THEOREM OneKeyOfAFamilyLives == Spec => []OneKeyLives
  <1>1. KeyInv => OneKeyLives
    <2> SUFFICES ASSUME KeyInv, NEW f \in Keys,
                        key[f].family = f, key[f].state # "unborn", f \notin metKeys
                 PROVE  IF f \in ended THEN LiveKeys(f) = {} ELSE \E k \in Keys : LiveKeys(f) = {k}
      BY DEF OneKeyLives
    <2>1. CASE f \in ended
      BY <2>1 DEF KeyInv, Live, LiveKeys
    <2>2. CASE f \notin ended
      <3>1. PICK k \in Keys : Live(k) /\ key[k].family = f
        BY <2>2 DEF KeyInv, Issued
      <3>2. LiveKeys(f) = {k}
        BY <3>1 DEF KeyInv, Live, LiveKeys
      <3> QED
        BY <2>2, <3>2
    <2> QED
      BY <2>1, <2>2
  <1> QED
    BY <1>1, KeyInvariance, PTL

----------------------------------------------------------------------------
(* What the overlaps take: two actions on one thing at the same time *)

\* Role changes are made one after the other, and first accounts too.
ChangesApart ==
    /\ \A a, b \in Actions :
         action[a].pc \in {"users", "change"} /\ action[b].pc \in {"users", "change"} => a = b
    /\ \A a, b \in Actions : action[a].pc = "first" /\ action[b].pc = "first" => a = b

LEMMA NoChangesMeetStep ==
    ASSUME TypeOK, ChangesApart, [Next]_vars, ChangesApart', ~metOwners, ~metFirst
    PROVE  ~metOwners' /\ ~metFirst'
  <1>1. CASE metOwners' = metOwners /\ metFirst' = metFirst
    BY <1>1
  <1>2. ASSUME NEW a \in Actions, ReadUsers(a) PROVE ~metOwners' /\ metFirst' = metFirst
    <2>1. ASSUME NEW b \in Actions, action[b].pc = "change" PROVE FALSE
      <3>1. action[a].pc = "users"
        BY <1>2 DEF ReadUsers
      <3> QED
        BY <2>1, <3>1 DEF ChangesApart
    <2> QED
      BY <1>2, <2>1 DEF ReadUsers
  <1>3. ASSUME NEW a \in Actions, NEW u \in Users, CountAccounts(a, u)
        PROVE  ~metFirst' /\ metOwners' = metOwners
    <2>1. ASSUME NEW b \in Actions, action[b].pc = "first" PROVE FALSE
      <3>1. action[a].pc = "idle" /\ action'[a].pc = "first"
            /\ \A c \in Actions : c # a => action'[c] = action[c]
        BY <1>3, GoesThere DEF CountAccounts, Begins, Idle
      <3>2. b # a /\ action'[b].pc = "first"
        BY <2>1, <3>1
      <3> QED
        BY <3>1, <3>2 DEF ChangesApart
    <2> QED
      BY <1>3, <2>1 DEF CountAccounts
  <1>4. ASSUME NEW a \in Actions, TeamStep(a)
        PROVE  \/ metOwners' = metOwners /\ metFirst' = metFirst
               \/ ReadUsers(a) \/ \E u \in Users : CountAccounts(a, u)
    BY <1>4 DEF TeamStep, AskChange, AskAccount, Change, FindEmail, Create, CreateFirst, teamVars
  <1>5. ASSUME NEW a \in Actions, LinkStep(a) \/ KeyStep(a) \/ Fail(a)
        PROVE  metOwners' = metOwners /\ metFirst' = metFirst
    BY <1>5, OthersLeaveTheTeam DEF TeamUntouched
  <1> QED
    BY <1>1, <1>2, <1>3, <1>4, <1>5, Steps, Stutter, LoneStepsGo

\* team.ts:60-64 and auth.ts:61-64, without exception while changes are made one
\* after the other, whatever else goes on: a deployment that has had an account
\* has an owner, and one account only was made as the first.
THEOREM OwnersRemainOneByOne ==
    Spec /\ []ChangesApart =>
      []( /\ (\E u \in Users : role[u] # "unborn") => Owners # {}
          /\ \A u, v \in firsts : u = v )
  <1>1. Init => ~metOwners /\ ~metFirst
    BY DEF Init
  <1>2. TypeOK /\ ChangesApart /\ [Next]_vars /\ ChangesApart' /\ (~metOwners /\ ~metFirst)
        => (~metOwners /\ ~metFirst)'
    BY NoChangesMeetStep
  <1>3. OwnerLossTakesOverlap /\ SecondFirstTakesOverlap /\ (~metOwners /\ ~metFirst)
        => /\ (\E u \in Users : role[u] # "unborn") => Owners # {}
           /\ \A u, v \in firsts : u = v
    BY DEF OwnerLossTakesOverlap, SecondFirstTakesOverlap
  <1> QED
    BY <1>1, <1>2, <1>3, ConsoleTypeCorrect, OwnersRemain, FirstIsOnlyOne, PTL DEF Spec

\* The account whose links or password an action is about.
IsAbout(a, u) ==
    \/ /\ action[a].pc \in {"latest", "recipient", "retire", "issue", "operator", "retireAll"}
       /\ action[a].user = u
    \/ /\ action[a].pc \in {"claim", "password"}
       /\ link[action[a].link].user = u

\* One action at a time about the links and the password of an account.
LinksApart == \A u \in Users, a, b \in Actions : IsAbout(a, u) /\ IsAbout(b, u) => a = b

NoLinksMet ==
    /\ metIssues = {} /\ metRequests = {}
    /\ \A n \in Links : ~link[n].raced

\* Where the two histories of the requests come from.
LEMMA RequestsMeet ==
    ASSUME TypeOK, LinksApart, Next, metIssues = {}, metRequests = {}
    PROVE  metIssues' = {} /\ metRequests' = {}
  <1>1. ASSUME NEW a \in Actions, RetireOthers(a) PROVE metIssues' = {} /\ metRequests' = {}
    <2>1. action[a].pc = "retire" /\ action[a].user \in Users
      BY <1>1, Holds DEF RetireOthers
    <2>2. ~At("issue", "user", action[a].user)
      <3> SUFFICES ASSUME NEW b \in Actions, action[b].pc = "issue", action[b].user = action[a].user
                   PROVE  FALSE
        BY DEF At
      <3>1. IsAbout(a, action[a].user) /\ IsAbout(b, action[a].user)
        BY <2>1 DEF IsAbout
      <3>2. a = b
        BY <2>1, <3>1 DEF LinksApart
      <3> QED
        BY <2>1, <3>2
    <2> QED
      BY <1>1, <2>2, LinkStepsLeave DEF RetireOthers
  <1>2. ASSUME NEW a \in Actions, FindLatest(a) PROVE metIssues' = {} /\ metRequests' = {}
    <2>1. action[a].pc = "latest" /\ action[a].user \in Users
      BY <1>2, Holds DEF FindLatest
    <2>2. ASSUME NEW b \in Actions, action[b].pc \in {"retire", "issue"},
                 action[b].user = action[a].user
          PROVE  FALSE
      <3>1. IsAbout(a, action[a].user) /\ IsAbout(b, action[a].user)
        BY <2>1, <2>2 DEF IsAbout
      <3>2. a = b
        BY <2>1, <3>1 DEF LinksApart
      <3> QED
        BY <2>1, <2>2, <3>2
    <2>3. metRequests' \subseteq metRequests
      BY <1>2, <2>2 DEF FindLatest
    <2> QED
      BY <1>2, <2>3, LinkStepsLeave
  <1>3. ASSUME NEW a \in Actions, LinkStep(a)
        PROVE  metIssues' = {} /\ metRequests' = {}
    BY <1>1, <1>2, <1>3, LinkStepsLeave DEF LinkStep
  <1>4. ASSUME NEW a \in Actions, TeamStep(a) \/ KeyStep(a) \/ Fail(a)
        PROVE  metIssues' = {} /\ metRequests' = {}
    BY <1>4, TeamStepGoes, KeyStepGoes, FailGoes
  <1> QED
    BY <1>3, <1>4, Steps, LoneStepsGo

\* A link is marked as raced by who follows it or by the operator, if the other
\* is under way.
LEMMA RacedChange ==
    ASSUME TypeOK, Next, NEW k \in Links, link'[k].raced, ~link[k].raced
    PROVE  \E a \in Actions :
             \/ FollowLink(a, k) /\ At("retireAll", "user", link[k].user)
             \/ /\ OperatorSets(a) /\ link[k].user = action[a].user
                /\ At("claim", "link", k) \/ At("password", "link", k)
  <1>1. ASSUME NEW a \in Actions, NEW n \in Links, FollowLink(a, n)
        PROVE  FollowLink(a, k) /\ At("retireAll", "user", link[k].user)
    <2> DEFINE b == link[n].raced \/ At("retireAll", "user", link[n].user)
    <2>1. link' = [link EXCEPT ![n] = [link[n] EXCEPT !.raced = b]]
      BY <1>1 DEF FollowLink
    <2>2. b => link[n].raced \/ At("retireAll", "user", link[n].user)
      OBVIOUS
    <2> HIDE DEF b
    <2>3. n = k
      BY <2>1 DEF TypeOK
    <2>4. link'[k] = [link[k] EXCEPT !.raced = b] /\ link[k] \in Link
      BY <2>1, <2>3 DEF TypeOK
    <2>5. link'[k].raced = b
      BY <2>4 DEF Link
    <2> QED
      BY <1>1, <2>2, <2>3, <2>5
  <1>2. ASSUME NEW a \in Actions, OperatorSets(a)
        PROVE  /\ link[k].user = action[a].user
               /\ At("claim", "link", k) \/ At("password", "link", k)
    <2> DEFINE b == link[k].raced \/ At("claim", "link", k) \/ At("password", "link", k)
               u == action[a].user
    <2>1. link'[k] = IF link[k].user = u
                     THEN [link[k] EXCEPT !.outlived = TRUE, !.raced = b] ELSE link[k]
      BY <1>2 DEF OperatorSets
    <2>2. b => link[k].raced \/ At("claim", "link", k) \/ At("password", "link", k)
      OBVIOUS
    <2> HIDE DEF b, u
    <2>3. link[k].user = u /\ link'[k] = [link[k] EXCEPT !.outlived = TRUE, !.raced = b]
      BY <2>1
    <2>4. link'[k].raced = b
      BY <2>3 DEF TypeOK, Link
    <2> QED
      BY <2>2, <2>3, <2>4 DEF u
  <1>3. ASSUME NEW a \in Actions, LinkStep(a)
        PROVE  OperatorSets(a) \/ \E n \in Links : FollowLink(a, n)
    <2>1. ASSUME NEW u \in Users, Retire(u) PROVE FALSE
      BY <2>1, RetireEffect DEF SameMarks
    <2>2. CASE RetireOthers(a)
      BY <2>1, <2>2, Holds DEF RetireOthers
    <2>3. CASE OperatorRetires(a)
      BY <2>1, <2>3, Holds DEF OperatorRetires
    <2>4. CASE IssueLink(a)
      BY <2>4, IssueEffect
    <2>5. CASE Claim(a)
      BY <2>5, ClaimEffect DEF SameMarks
    <2>6. CASE SetPassword(a)
      BY <2>6, SetEffect
    <2>7. CASE link' = link
      BY <2>7
    <2> QED
      BY <1>3, <2>2, <2>3, <2>4, <2>5, <2>6, <2>7, LinkStepsLeave DEF LinkStep
  <1>4. ASSUME NEW a \in Actions, TeamStep(a) PROVE FALSE
    <2>1. CASE link' = link
      BY <2>1
    <2>2. CASE Change(a)
      BY <2>2, ChangeEffect DEF SameMarks
    <2> QED
      BY <1>4, <2>1, <2>2
      DEF TeamStep, AskChange, AskAccount, CountAccounts, ReadUsers, FindEmail, Create,
          CreateFirst, linkVars
  <1>5. ASSUME NEW a \in Actions, KeyStep(a) PROVE FALSE
    BY <1>5, KeyStepGoes
  <1>6. ASSUME NEW n \in Links, Age(n) PROVE FALSE
    BY <1>6, AgeEffect DEF SameMarks
  <1>7. ASSUME NEW n \in Keys, IssueKey(n) PROVE FALSE
    BY <1>7, LoneStepsGo
  <1>8. ASSUME NEW a \in Actions, Fail(a) PROVE FALSE
    BY <1>8, FailEffect
  <1> QED
    BY <1>1, <1>2, <1>3, <1>4, <1>5, <1>6, <1>7, <1>8, Steps

LEMMA NoLinksMetStep ==
    ASSUME TypeOK, LinksApart, NoLinksMet, [Next]_vars, LinksApart', TypeOK'
    PROVE  NoLinksMet'
  <1>1. CASE Next
    <2>1. ASSUME NEW k \in Links, link'[k].raced PROVE FALSE
      <3>1. ~link[k].raced
        BY DEF NoLinksMet
      <3>2. PICK a \in Actions :
               \/ FollowLink(a, k) /\ At("retireAll", "user", link[k].user)
               \/ /\ OperatorSets(a) /\ link[k].user = action[a].user
                  /\ At("claim", "link", k) \/ At("password", "link", k)
        BY <1>1, <2>1, <3>1, RacedChange
      <3>3. CASE FollowLink(a, k) /\ At("retireAll", "user", link[k].user)
        <4>1. PICK b \in Actions : action[b].pc = "retireAll" /\ action[b].user = link[k].user
          BY <3>3 DEF At
        <4>2. action[b].user \in Users
          BY <4>1, Holds
        <4>3. link'[k].user = link[k].user
          BY <3>3, FollowEffect DEF SameOrigin
        <4>4. action[a] = Idle /\ action'[a].pc = "claim" /\ action'[a].link = k
          BY <3>3, LinkStepsGo DEF FollowLink, Begins
        <4>5. b # a /\ action'[b] = action[b]
          BY <3>3, <4>1, <4>4, GoesThere DEF FollowLink, Begins, Idle
        <4>6. PICK u \in Users : u = link[k].user
          BY <4>1, <4>2
        <4>7. IsAbout(a, u)' /\ IsAbout(b, u)'
          BY <4>1, <4>3, <4>4, <4>5, <4>6 DEF IsAbout
        <4> QED
          BY <4>5, <4>7 DEF LinksApart
      <3>4. CASE /\ OperatorSets(a) /\ link[k].user = action[a].user
                 /\ At("claim", "link", k) \/ At("password", "link", k)
        <4>1. PICK b \in Actions : action[b].pc \in {"claim", "password"} /\ action[b].link = k
          BY <3>4 DEF At
        <4>2. action[a].pc = "operator" /\ action[a].user \in Users
          BY <3>4, Holds DEF OperatorSets
        <4>3. IsAbout(a, action[a].user) /\ IsAbout(b, action[a].user)
          BY <3>4, <4>1, <4>2 DEF IsAbout
        <4>4. a = b
          BY <4>2, <4>3 DEF LinksApart
        <4> QED
          BY <4>1, <4>2, <4>4
      <3> QED
        BY <3>2, <3>3, <3>4
    <2> QED
      BY <1>1, <2>1, RequestsMeet DEF NoLinksMet
  <1>2. CASE UNCHANGED vars
    BY <1>2, Stutter DEF NoLinksMet
  <1> QED
    BY <1>1, <1>2

\* Nothing but a failure leaves a mark of one.
CutByFault == (\E n \in Links : link[n].cut) => faults > 0

LEMMA FaultsMark ==
    ASSUME TypeOK, CutByFault, [Next]_vars
    PROVE  CutByFault'
  <1> SUFFICES ASSUME NEW n \in Links, link'[n].cut PROVE faults' > 0
    BY DEF CutByFault
  <1>1. CASE link[n].cut /\ faults' = faults
    BY <1>1 DEF CutByFault
  <1>2. ASSUME NEW a \in Actions, Fail(a) PROVE faults' > 0
    BY <1>2, ConstantsAssumption DEF Fail, TypeOK
  <1> USE DEF Begins, Finds, Ends
  <1>3. ASSUME NEW a \in Actions, TeamStep(a) PROVE link[n].cut /\ faults' = faults
    <2>1. faults' = faults
      BY <1>3 DEF TeamStep, AskChange, AskAccount, CountAccounts, ReadUsers, Change, FindEmail,
                  Create, CreateFirst
    <2> QED
      BY <1>3, <2>1, TeamStepGoes, ChangeEffect DEF SameMarks
  <1>4. ASSUME NEW a \in Actions, KeyStep(a) PROVE link[n].cut /\ faults' = faults
    BY <1>4, KeyStepGoes DEF KeyStep, FindRevoked, FindRotated, Revoke, Rotate
  <1>5. ASSUME NEW a \in Actions, LinkStep(a) PROVE link[n].cut /\ faults' = faults
    <2>1. faults' = faults
      BY <1>5 DEF LinkStep, AskLink, AskToSend, OperatorFinds, FindLatest, FindRecipient,
                  RetireOthers, IssueLink, FollowLink, Claim, SetPassword, OperatorSets,
                  OperatorRetires
    <2>2. CASE link' = link
      BY <2>1, <2>2
    <2>3. CASE RetireOthers(a) \/ OperatorRetires(a)
      <3>1. action[a].user \in Users /\ Retire(action[a].user)
        BY <2>3, Holds DEF RetireOthers, OperatorRetires
      <3> QED
        BY <2>1, <3>1, RetireEffect DEF SameMarks
    <2>4. CASE IssueLink(a)
      BY <2>1, <2>4, IssueEffect
    <2>5. ASSUME NEW m \in Links, FollowLink(a, m) PROVE link[n].cut
      BY <2>5, FollowEffect
    <2>6. CASE Claim(a)
      BY <2>1, <2>6, ClaimEffect DEF SameMarks
    <2>7. CASE SetPassword(a)
      BY <2>1, <2>7, SetEffect
    <2>8. CASE OperatorSets(a)
      BY <2>1, <2>8, OperatorEffect
    <2> QED
      BY <1>5, <2>1, <2>2, <2>3, <2>4, <2>5, <2>6, <2>7, <2>8, LinkStepsLeave DEF LinkStep
  <1>6. ASSUME NEW m \in Links, Age(m) PROVE link[n].cut /\ faults' = faults
    BY <1>6, AgeEffect DEF SameMarks, Age
  <1>7. ASSUME NEW k \in Keys, IssueKey(k) PROVE link[n].cut /\ faults' = faults
    BY <1>7, LoneStepsGo DEF IssueKey
  <1>8. CASE UNCHANGED vars
    BY <1>1, <1>8, Stutter
  <1> QED
    BY <1>1, <1>2, <1>3, <1>4, <1>5, <1>6, <1>7, <1>8, Steps

\* password-reset.ts:53-54, 88-96 and auth.ts:129-133, while the actions about
\* one account come one after the other, those about others whenever they like,
\* and however many are cut short: one usable link, one asked for within the
\* cooldown; and no older link replaces the password that the operator set, but
\* for one that a failing reset left, and without a failure none.
THEOREM LinksHoldOneByOne ==
    Spec /\ []LinksApart =>
      []( /\ \A n, m \in Links :
               n # m /\ link[n].user # None /\ link[n].user = link[m].user =>
                 /\ ~(Usable(n) /\ Usable(m))
                 /\ ~( /\ {link[n].by, link[m].by} = {"request"}
                       /\ {link[n].age, link[m].age} = {"fresh"} )
          /\ \A n \in Links : link[n].overwrote => link[n].cut /\ faults > 0 )
  <1>1. Init => NoLinksMet /\ CutByFault
    BY DEF Init, NoLinksMet, CutByFault, NoLink
  <1>2. TypeOK /\ LinksApart /\ NoLinksMet /\ [Next]_vars /\ LinksApart' /\ TypeOK' => NoLinksMet'
    BY NoLinksMetStep
  <1>3. TypeOK /\ CutByFault /\ [Next]_vars => CutByFault'
    BY FaultsMark
  <1>4. MoreLinksTakeOverlap /\ OperatorResetStands /\ NoLinksMet /\ CutByFault
        => /\ \A n, m \in Links :
                n # m /\ link[n].user # None /\ link[n].user = link[m].user =>
                  /\ ~(Usable(n) /\ Usable(m))
                  /\ ~( /\ {link[n].by, link[m].by} = {"request"}
                        /\ {link[n].age, link[m].age} = {"fresh"} )
           /\ \A n \in Links : link[n].overwrote => link[n].cut /\ faults > 0
    BY DEF MoreLinksTakeOverlap, OperatorResetStands, NoLinksMet, CutByFault
  <1> QED
    BY <1>1, <1>2, <1>3, <1>4, ConsoleTypeCorrect, OneUsableLink, OperatorHasTheLastWord, PTL
    DEF Spec

\* One revocation or rotation of a key at a time.
KeysApart ==
    \A a, b \in Actions :
        /\ action[a].pc \in {"revoke", "rotate"}
        /\ action[b].pc \in {"revoke", "rotate"}
        /\ action[a].key = action[b].key
        => a = b

LEMMA NoKeysMeetStep ==
    ASSUME TypeOK, KeysApart, [Next]_vars, KeysApart', metKeys = {}
    PROVE  metKeys' = {}
  <1>1. ASSUME NEW a \in Actions, Revoke(a) PROVE metKeys' = {}
    <2>1. ~At("rotate", "key", action[a].key)
      <3> SUFFICES ASSUME NEW b \in Actions, action[b].pc = "rotate", action[b].key = action[a].key
                   PROVE  FALSE
        BY DEF At
      <3>1. action[a].pc = "revoke"
        BY <1>1 DEF Revoke
      <3> QED
        BY <3>1 DEF KeysApart
    <2> QED
      BY <1>1, <2>1 DEF Revoke
  <1>2. ASSUME NEW a \in Actions, NEW k \in Keys, FindRotated(a, k) PROVE metKeys' = {}
    <2>1. ~At("rotate", "key", k)
      <3> SUFFICES ASSUME NEW b \in Actions, action[b].pc = "rotate", action[b].key = k
                   PROVE  FALSE
        BY DEF At
      <3>1. /\ action[a] = Idle /\ action'[a] = [pc |-> "rotate", key |-> k]
            /\ \A c \in Actions : c # a => action'[c] = action[c]
        BY <1>2, GoesThere DEF FindRotated, Begins
      <3>2. b # a
        BY <3>1 DEF Idle
      <3> QED
        BY <3>1, <3>2 DEF KeysApart
    <2> QED
      BY <1>2, <2>1 DEF FindRotated
  <1>3. ASSUME NEW a \in Actions, KeyStep(a) PROVE metKeys' = {}
    BY <1>1, <1>2, <1>3 DEF KeyStep, FindRevoked, Rotate, keyVars
  <1> QED
    BY <1>3, Steps, OthersLeaveTheKeys, LoneStepsGo DEF KeysUntouched

\* keys/[id]/route.ts:7-14, without exception while each key is revoked or rotated
\* by one request at a time: of a key and its replacements one lives, until that
\* is revoked and then none.
THEOREM KeysLiveOneByOne ==
    Spec /\ []KeysApart =>
      [](\A f \in Keys :
           key[f].family = f /\ key[f].state # "unborn" =>
             IF f \in ended THEN LiveKeys(f) = {} ELSE \E k \in Keys : LiveKeys(f) = {k})
  <1>1. Init => metKeys = {}
    BY DEF Init
  <1>2. TypeOK /\ KeysApart /\ [Next]_vars /\ KeysApart' /\ metKeys = {} => (metKeys = {})'
    BY NoKeysMeetStep
  <1>3. OneKeyLives /\ metKeys = {} =>
          \A f \in Keys :
            key[f].family = f /\ key[f].state # "unborn" =>
              IF f \in ended THEN LiveKeys(f) = {} ELSE \E k \in Keys : LiveKeys(f) = {k}
    BY DEF OneKeyLives
  <1> QED
    BY <1>1, <1>2, <1>3, ConsoleTypeCorrect, OneKeyOfAFamilyLives, PTL DEF Spec
=============================================================================
