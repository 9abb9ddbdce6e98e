------------------------------ MODULE Console ------------------------------
(***************************************************************************)
(* What administrators do: console accounts and their roles                *)
(* (app/actions/team.ts, app/actions/auth.ts), password reset links        *)
(* (app/actions/password-reset.ts) and API keys (app/actions/client.ts and *)
(* the admin API).  Each server action or handler is a few statements to   *)
(* the database, none of them in a transaction with the read it rests on:  *)
(* one step here is one statement.  Any of them may throw, and a server    *)
(* may die between two of them: the action then goes no further.          *)
(*                                                                         *)
(* Passwords, names and tokens are no values here; whoever has an account  *)
(* may be signed in, and whoever has a link may follow it.  An id of Users *)
(* is an account and its address, one of Keys a row of ApiKey.             *)
(***************************************************************************)
EXTENDS Integers

CONSTANTS Users,        \* console accounts
          Keys,         \* API keys
          Actions,      \* server actions and handlers under way at the same time
          None,
          MaxLinks,     \* bound: reset links
          MaxBegun,     \* bound: actions begun
          MaxFaults     \* bound: actions cut short

Links == 1..MaxLinks

ASSUME ConstantsAssumption ==
    /\ None \notin Users
    /\ MaxLinks \in Nat
    /\ MaxBegun \in Nat
    /\ MaxFaults \in Nat

VARIABLES
    role,       \* DashboardUser.role; "unborn" and "removed" have no row
    link,       \* PasswordResetToken, in the order of creation
    issued,     \* links created
    key,        \* ApiKey
    action,     \* per action under way: where it stands
    begun,      \* actions begun
    faults,     \* actions cut short
    \* history
    firsts,     \* accounts made by createFirstAccount
    metFirst,   \* two of those overlapped
    metOwners,  \* two changes overlapped between reading the owners and writing
    metIssues,  \* accounts with two links issued at once
    metRequests,\* accounts with two links requested at once
    ended,      \* families of keys whose live key was revoked
    metKeys     \* families with a rotation and another change of one key at once

teamVars == <<role, firsts, metFirst, metOwners>>
linkVars == <<link, issued, metIssues, metRequests>>
keyVars == <<key, ended, metKeys>>
vars == <<teamVars, linkVars, keyVars, action, begun, faults>>

Role == {"OWNER", "MEMBER"}
Rows == {u \in Users : role[u] \in Role}
Owners == {u \in Users : role[u] = "OWNER"}

\* age: "fresh" within the cooldown, then "old", then "expired".  History: how
\* many passwords the link set (at most two are told apart), whether it is older
\* than an operator's reset, overlapped one, was left by one that was cut short
\* before it retired the links, and replaced the password an operator set.
Link ==
    [user : Users \cup {None}, by : {"request", "owner"}, used : BOOLEAN,
     age : {"fresh", "old", "expired"}, sets : 0..2,
     outlived : BOOLEAN, raced : BOOLEAN, cut : BOOLEAN, overwrote : BOOLEAN]
NoLink ==
    [user |-> None, by |-> "request", used |-> FALSE, age |-> "fresh", sets |-> 0,
     outlived |-> FALSE, raced |-> FALSE, cut |-> FALSE, overwrote |-> FALSE]

\* family: the key it replaces, or replaces the replacement of.
Key == [state : {"unborn", "live", "revoked"}, family : Keys]

Idle == [pc |-> "idle"]
Action ==
    {Idle}
    \cup [pc : {"users", "change"}, user : Users, to : Role \cup {"removed"}]
    \cup [pc : {"email", "create"}, user : Users, to : Role]
    \cup [pc : {"first", "latest", "operator", "retireAll"}, user : Users]
    \cup [pc : {"recipient", "retire", "issue"}, user : Users, by : {"request", "owner"}]
    \cup [pc : {"claim", "password"}, link : Links]
    \cup [pc : {"revoke", "rotate"}, key : Keys]

Init ==
    /\ role = [u \in Users |-> "unborn"]
    /\ link = [n \in Links |-> NoLink]
    /\ issued = 0
    /\ key = [k \in Keys |-> [state |-> "unborn", family |-> k]]
    /\ action = [a \in Actions |-> Idle]
    /\ begun = 0
    /\ faults = 0
    /\ firsts = {}
    /\ metFirst = FALSE
    /\ metOwners = FALSE
    /\ metIssues = {}
    /\ metRequests = {}
    /\ ended = {}
    /\ metKeys = {}

Goes(a, record) == action' = [action EXCEPT ![a] = record]

\* An action begins with its first statement.
Begins(a, record) ==
    /\ action[a] = Idle
    /\ begun < MaxBegun
    /\ begun' = begun + 1
    /\ Goes(a, record)
    /\ UNCHANGED faults

\* It has just found what it looked for, and goes on, or else is refused.
Finds(a, condition, record) ==
    /\ Goes(a, IF condition THEN record ELSE Idle)
    /\ UNCHANGED <<begun, faults>>

Ends(a) == Goes(a, Idle) /\ UNCHANGED <<begun, faults>>

At(pc, field, value) == \E b \in Actions : action[b].pc = pc /\ action[b][field] = value

----------------------------------------------------------------------------
(* Accounts and roles *)

\* requireOwner, by any account: its role is read from the database.
RequireOwner == Owners # {}

\* setTeamAccountRole and removeTeamAccount.  One cannot remove oneself.
AskChange(a, u, to) ==
    /\ \E actor \in Owners : to = "removed" => actor # u
    /\ Begins(a, [pc |-> "users", user |-> u, to |-> to])
    /\ UNCHANGED <<teamVars, linkVars, keyVars>>

\* Seeded fault: the account that changes counts as an owner still.
WouldLeaveNobody(u, to) == Owners = {}

WouldLeaveNoOwner(u, to) == (Owners \ {u}) \cup {v \in {u} : to = "OWNER"} = {}

ReadUsers(a) ==
    LET u == action[a].user
        to == action[a].to
        passes == u \in Rows /\ ~WouldLeaveNoOwner(u, to)
    IN  /\ action[a].pc = "users"
        /\ Finds(a, passes, [pc |-> "change", user |-> u, to |-> to])
        /\ metOwners' = (metOwners \/ (passes /\ \E b \in Actions : action[b].pc = "change"))
        /\ UNCHANGED <<role, firsts, metFirst, linkVars, keyVars>>

\* Seeded fault: the links that are used stay behind.
UnusedOf(n, u) == link[n].user = u /\ ~link[n].used

\* The links that go with an account (onDelete: Cascade).
LinksOf(n, u) == link[n].user = u

\* The row is updated, or deleted with its links; when it is gone the update throws.
Change(a) ==
    LET u == action[a].user
        to == action[a].to
    IN  /\ action[a].pc = "change"
        /\ Ends(a)
        /\ role' = IF u \in Rows THEN [role EXCEPT ![u] = to] ELSE role
        /\ link' = [n \in Links |->
             IF u \in Rows /\ to = "removed" /\ LinksOf(n, u)
             THEN [link[n] EXCEPT !.user = None] ELSE link[n]]
        /\ UNCHANGED <<firsts, metFirst, metOwners, issued, metIssues, metRequests, keyVars>>

\* createTeamAccount
AskAccount(a, u, to) ==
    /\ RequireOwner
    /\ role[u] # "removed"
    /\ Begins(a, [pc |-> "email", user |-> u, to |-> to])
    /\ UNCHANGED <<teamVars, linkVars, keyVars>>

FindEmail(a) ==
    /\ action[a].pc = "email"
    /\ Finds(a, action[a].user \notin Rows, [action[a] EXCEPT !.pc = "create"])
    /\ UNCHANGED <<teamVars, linkVars, keyVars>>

\* Addresses are unique: the second insert of one throws.
Insert(u, to) == role' = IF role[u] = "unborn" THEN [role EXCEPT ![u] = to] ELSE role

Create(a) ==
    /\ action[a].pc = "create"
    /\ Insert(action[a].user, action[a].to)
    /\ Ends(a)
    /\ UNCHANGED <<firsts, metFirst, metOwners, linkVars, keyVars>>

\* Seeded fault: whoever has an address that is free gets a first account.
IsFirst(u) == u \notin Rows

\* createFirstAccount: nobody has an account.
NobodyYet(u) == Rows = {}

CountAccounts(a, u) ==
    /\ role[u] # "removed"
    /\ NobodyYet(u)
    /\ Begins(a, [pc |-> "first", user |-> u])
    /\ metFirst' = (metFirst \/ \E b \in Actions : action[b].pc = "first")
    /\ UNCHANGED <<role, firsts, metOwners, linkVars, keyVars>>

CreateFirst(a) ==
    LET u == action[a].user
    IN  /\ action[a].pc = "first"
        /\ Insert(u, "OWNER")
        /\ firsts' = IF role[u] = "unborn" THEN firsts \cup {u} ELSE firsts
        /\ Ends(a)
        /\ UNCHANGED <<metFirst, metOwners, linkVars, keyVars>>

----------------------------------------------------------------------------
(* Password reset links *)

\* requestPasswordReset: the account, then its latest link.
AskLink(a, u) ==
    /\ u \in Rows
    /\ Begins(a, [pc |-> "latest", user |-> u])
    /\ UNCHANGED <<teamVars, linkVars, keyVars>>

\* One link a minute.
CanRequestAnother(u) == \A n \in Links : link[n].user = u => link[n].age # "fresh"

FindLatest(a) ==
    LET u == action[a].user
        another == \E b \in Actions : /\ action[b].pc \in {"retire", "issue"}
                                     /\ action[b].user = u /\ action[b].by = "request"
    IN  /\ action[a].pc = "latest"
        /\ Finds(a, CanRequestAnother(u), [pc |-> "retire", user |-> u, by |-> "request"])
        /\ metRequests' = metRequests \cup {v \in {u} : CanRequestAnother(u) /\ another}
        /\ UNCHANGED <<teamVars, link, issued, metIssues, keyVars>>

\* sendResetLinkTo
AskToSend(a, u) ==
    /\ RequireOwner
    /\ Begins(a, [pc |-> "recipient", user |-> u, by |-> "owner"])
    /\ UNCHANGED <<teamVars, linkVars, keyVars>>

FindRecipient(a) ==
    /\ action[a].pc = "recipient"
    /\ Finds(a, action[a].user \in Rows, [action[a] EXCEPT !.pc = "retire"])
    /\ UNCHANGED <<teamVars, linkVars, keyVars>>

\* Seeded fault: a link that is not fresh any more is left as it is.
FreshOnly(n, u) == link[n].user = u /\ link[n].age = "fresh"

\* Every link of an account is marked used.
Retired(n, u) == link[n].user = u

Retire(u) == link' = [n \in Links |-> IF Retired(n, u) THEN [link[n] EXCEPT !.used = TRUE] ELSE link[n]]

\* issueLink: first the links already in flight are retired ...
RetireOthers(a) ==
    LET u == action[a].user
    IN  /\ action[a].pc = "retire"
        /\ Retire(u)
        /\ Finds(a, TRUE, [action[a] EXCEPT !.pc = "issue"])
        /\ metIssues' = metIssues \cup {v \in {u} : At("issue", "user", u)}
        /\ UNCHANGED <<teamVars, issued, metRequests, keyVars>>

\* ... then one is created, unless the account has gone: that insert throws.
IssueLink(a) ==
    LET u == action[a].user
    IN  /\ action[a].pc = "issue"
        /\ issued < MaxLinks
        /\ IF u \in Rows
           THEN /\ issued' = issued + 1
                /\ link' = [link EXCEPT ![issued + 1] = [NoLink EXCEPT !.user = u, !.by = action[a].by]]
           ELSE UNCHANGED <<issued, link>>
        /\ Ends(a)
        /\ UNCHANGED <<teamVars, metIssues, metRequests, keyVars>>

\* Time goes by; what was created first is never the younger.
Age(n) ==
    /\ n <= issued
    /\ \/ /\ link[n].age = "fresh"
          /\ \A m \in 1..(n - 1) : link[m].age # "fresh"
          /\ link' = [link EXCEPT ![n].age = "old"]
       \/ /\ link[n].age = "old"
          /\ \A m \in 1..(n - 1) : link[m].age = "expired"
          /\ link' = [link EXCEPT ![n].age = "expired"]
    /\ UNCHANGED <<teamVars, issued, metIssues, metRequests, keyVars, action, begun, faults>>

\* resetTokenProblem is null.
Usable(n) == link[n].user # None /\ ~link[n].used /\ link[n].age # "expired"

\* completePasswordReset: the link is read ...
FollowLink(a, n) ==
    /\ n <= issued
    /\ Usable(n)
    /\ Begins(a, [pc |-> "claim", link |-> n])
    /\ link' = [link EXCEPT ![n].raced = @ \/ At("retireAll", "user", link[n].user)]
    /\ UNCHANGED <<teamVars, issued, metIssues, metRequests, keyVars>>

\* Seeded fault: the claim is not conditional on the link being unused.
ClaimAnyway(n) == link[n].user # None

\* ... claimed, if it is still unused ...
Claimable(n) == link[n].user # None /\ ~link[n].used

Claim(a) ==
    LET n == action[a].link
    IN  /\ action[a].pc = "claim"
        /\ Finds(a, Claimable(n), [pc |-> "password", link |-> n])
        /\ link' = IF Claimable(n) THEN [link EXCEPT ![n].used = TRUE] ELSE link
        /\ UNCHANGED <<teamVars, issued, metIssues, metRequests, keyVars>>

\* ... and the password set, of an account that is still there.
SetPassword(a) ==
    LET n == action[a].link
    IN  /\ action[a].pc = "password"
        /\ link' = IF link[n].user = None THEN link
                   ELSE [link EXCEPT ![n].sets = IF @ < 2 THEN @ + 1 ELSE @,
                                     ![n].overwrote = @ \/ link[n].outlived]
        /\ Ends(a)
        /\ UNCHANGED <<teamVars, issued, metIssues, metRequests, keyVars>>

\* resetPassword, by the operator: the account is found, ...
OperatorFinds(a, u) ==
    /\ u \in Rows
    /\ Begins(a, [pc |-> "operator", user |-> u])
    /\ UNCHANGED <<teamVars, linkVars, keyVars>>

\* ... its password set ...
OperatorSets(a) ==
    LET u == action[a].user
    IN  /\ action[a].pc = "operator"
        /\ Finds(a, u \in Rows, [pc |-> "retireAll", user |-> u])
        /\ link' = [n \in Links |->
             IF link[n].user = u
             THEN [link[n] EXCEPT !.outlived = TRUE,
                                  !.raced = @ \/ At("claim", "link", n) \/ At("password", "link", n)]
             ELSE link[n]]
        /\ UNCHANGED <<teamVars, issued, metIssues, metRequests, keyVars>>

\* ... and every link in flight retired.
OperatorRetires(a) ==
    /\ action[a].pc = "retireAll"
    /\ Retire(action[a].user)
    /\ Ends(a)
    /\ UNCHANGED <<teamVars, issued, metIssues, metRequests, keyVars>>

----------------------------------------------------------------------------
(* API keys *)

\* A key for a client, by the console or the admin API.
IssueKey(k) ==
    /\ key[k].state = "unborn"
    /\ begun < MaxBegun
    /\ begun' = begun + 1
    /\ key' = [key EXCEPT ![k].state = "live"]
    /\ UNCHANGED <<teamVars, linkVars, ended, metKeys, action, faults>>

\* Revocation, by either: the key is found, then revoked, once more if need be.
FindRevoked(a, k) ==
    /\ key[k].state # "unborn"
    /\ Begins(a, [pc |-> "revoke", key |-> k])
    /\ UNCHANGED <<teamVars, linkVars, keyVars>>

Revoke(a) ==
    LET k == action[a].key
        dies == {f \in {key[k].family} : key[k].state = "live"}
    IN  /\ action[a].pc = "revoke"
        /\ key' = [key EXCEPT ![k].state = "revoked"]
        /\ ended' = ended \cup dies
        /\ metKeys' = metKeys \cup {f \in dies : At("rotate", "key", k)}
        /\ Ends(a)
        /\ UNCHANGED <<teamVars, linkVars>>

\* Seeded fault: a key that is revoked already is replaced all the same.
RotatableAnyway(k) == key[k].state # "unborn"

Rotatable(k) == key[k].state = "live"

\* Rotation: the key is found ...
FindRotated(a, k) ==
    /\ Rotatable(k)
    /\ Begins(a, [pc |-> "rotate", key |-> k])
    /\ metKeys' = metKeys \cup {f \in {key[k].family} : At("rotate", "key", k)}
    /\ UNCHANGED <<teamVars, linkVars, key, ended>>

\* ... then a replacement created and the key revoked, in one transaction.
Rotate(a) ==
    LET k == action[a].key
    IN  /\ action[a].pc = "rotate"
        /\ \E n \in Keys :
             /\ key[n].state = "unborn"
             /\ key' = [key EXCEPT ![n] = [state |-> "live", family |-> key[k].family],
                                   ![k].state = "revoked"]
        /\ Ends(a)
        /\ UNCHANGED <<teamVars, linkVars, ended, metKeys>>

----------------------------------------------------------------------------
\* A statement throws, or the server dies before it: what came before remains.
Fail(a) ==
    /\ action[a] # Idle
    /\ faults < MaxFaults
    /\ faults' = faults + 1
    /\ Goes(a, Idle)
    /\ link' = [n \in Links |->
         IF action[a].pc = "retireAll" /\ link[n].user = action[a].user
         THEN [link[n] EXCEPT !.cut = @ \/ link[n].outlived] ELSE link[n]]
    /\ UNCHANGED <<teamVars, issued, metIssues, metRequests, keyVars, begun>>

Next ==
    \/ \E a \in Actions :
         \/ \E u \in Users :
              \/ \E to \in Role \cup {"removed"} : AskChange(a, u, to)
              \/ \E to \in Role : AskAccount(a, u, to)
              \/ CountAccounts(a, u) \/ AskLink(a, u) \/ AskToSend(a, u) \/ OperatorFinds(a, u)
         \/ ReadUsers(a) \/ Change(a) \/ FindEmail(a) \/ Create(a) \/ CreateFirst(a)
         \/ FindLatest(a) \/ FindRecipient(a) \/ RetireOthers(a) \/ IssueLink(a)
         \/ \E n \in Links : FollowLink(a, n)
         \/ Claim(a) \/ SetPassword(a) \/ OperatorSets(a) \/ OperatorRetires(a)
         \/ \E k \in Keys : FindRevoked(a, k) \/ FindRotated(a, k)
         \/ Revoke(a) \/ Rotate(a)
         \/ Fail(a)
    \/ \E n \in Links : Age(n)
    \/ \E k \in Keys : IssueKey(k)

Spec == Init /\ [][Next]_vars

----------------------------------------------------------------------------
(* Properties *)

\* The rows, the actions and what they hold.  Users are never unborn again.
TypeOK ==
    /\ role \in [Users -> Role \cup {"unborn", "removed"}]
    /\ link \in [Links -> Link]
    /\ issued \in 0..MaxLinks
    /\ \A n \in Links : n > issued => link[n] = NoLink
    /\ \A n \in Links : link[n].user # None => link[n].user \in Rows
    /\ key \in [Keys -> Key]
    /\ action \in [Actions -> Action]
    /\ begun \in 0..MaxBegun
    /\ faults \in 0..MaxFaults
    /\ firsts \subseteq Users
    /\ {metFirst, metOwners} \subseteq BOOLEAN
    /\ {metIssues, metRequests} \subseteq SUBSET Users
    /\ {ended, metKeys} \subseteq SUBSET Keys

\* team.ts:60-64: once somebody has had an account the deployment has an owner,
\* unless two changes overlapped, each of which had counted the other's owner.
OwnerLossTakesOverlap ==
    Owners = {} /\ (\E u \in Users : role[u] # "unborn") => metOwners

\* auth.ts:61-64, "creates the first account, and only the first": a second one
\* takes two that overlapped, or a deployment that has lost its owners so.
SecondFirstTakesOverlap ==
    \A u, v \in firsts : u = v \/ metFirst \/ metOwners

\* password-reset.ts:137-138: "two submissions of the same link cannot both set
\* a password".
LinkSetsOnePassword == \A n \in Links : link[n].sets <= 1

\* password-reset.ts:53-54, 88-96: an account has one usable link, and one asked
\* for within the cooldown; more of them take requests that overlapped.
MoreLinksTakeOverlap ==
    \A n, m \in Links :
        n # m /\ link[n].user # None /\ link[n].user = link[m].user =>
            /\ Usable(n) /\ Usable(m) => link[n].user \in metIssues
            /\ {link[n].by, link[m].by} = {"request"} /\ {link[n].age, link[m].age} = {"fresh"}
                 => link[n].user \in metRequests

\* auth.ts:129-133: the password the operator set is not replaced through a link
\* that is older, unless that was being followed while the operator set it, or
\* the operator's action was cut short before the older links were retired.
OperatorResetStands ==
    \A n \in Links : link[n].overwrote => link[n].raced \/ link[n].cut

LiveKeys(f) == {k \in Keys : key[k].state = "live" /\ key[k].family = f}

\* keys/[id]/route.ts:7-14: of an issued key and its replacements one is live,
\* until that one is revoked and then none; anything else takes a rotation that
\* overlapped another rotation or a revocation of the same key.
OneKeyLives ==
    \A f \in Keys :
        key[f].family = f /\ key[f].state # "unborn" /\ f \notin metKeys =>
            IF f \in ended THEN LiveKeys(f) = {} ELSE \E k \in Keys : LiveKeys(f) = {k}
=============================================================================
