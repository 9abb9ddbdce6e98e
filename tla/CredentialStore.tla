-------------------------- MODULE CredentialStore --------------------------
(***************************************************************************)
(* What the stored credential of one connection promises: a cell that is   *)
(* written under a lease and that nobody writes over unseen.  A renewal    *)
(* replaces exactly the tokens it read under the lease it still holds, by  *)
(* later ones of the same grant; a reconnect replaces the grant, once, by  *)
(* one never stored before; a deletion waits for nobody and is final.      *)
(*                                                                         *)
(* How the server does it - a map of promises per instance, a Postgres     *)
(* advisory lock, a transaction that may time out, a provider that may not *)
(* answer - is TokenRefresh, which implements this.                        *)
(***************************************************************************)
EXTENDS Naturals

CONSTANTS Callers,      \* who may renew
          Reconnects,   \* who may reconnect, once each
          FirstGrant,
          NoOne, NoToken

VARIABLES row,          \* [exists, access, refresh]
          holder,       \* who has the lease
          basis,        \* the tokens its renewal read
          over          \* the reconnects that wrote, or gave up
store == <<row, holder, basis, over>>

Tokens(r) == [access |-> r.access, refresh |-> r.refresh]
NoBasis == [access |-> NoToken, refresh |-> NoToken]

First(g) == [grant |-> g, serial |-> 0]

\* A row that holds the first tokens of grant g; there may be no refresh token.
Granted(g) == {[exists |-> TRUE, access |-> First(g), refresh |-> r] : r \in {First(g), NoToken}}

Init ==
    /\ row \in Granted(FirstGrant)
    /\ holder = NoOne
    /\ basis = NoBasis
    /\ over = {}

Take(w) ==
    /\ holder = NoOne
    /\ holder' = w
    /\ UNCHANGED <<row, basis, over>>

LetGo ==
    /\ holder' = NoOne
    /\ basis' = NoBasis
    /\ UNCHANGED <<row, over>>

Read(c) ==
    /\ holder = c
    /\ row.exists
    /\ row.refresh # NoToken
    /\ basis' = Tokens(row)
    /\ UNCHANGED <<row, holder, over>>

\* Later tokens of the grant; the refresh token may stay.
Renew(c) ==
    /\ holder = c
    /\ row.exists
    /\ basis = Tokens(row)
    /\ row'.exists
    /\ row'.access.grant = row.access.grant
    /\ row'.access.serial > row.access.serial
    /\ row'.refresh \in {row.refresh, row'.access}
    /\ holder' = NoOne
    /\ basis' = NoBasis
    /\ UNCHANGED over

Replace(k) ==
    /\ holder = k
    /\ row.exists
    /\ k \notin over
    /\ row' \in Granted(k)
    /\ holder' = NoOne
    /\ over' = over \cup {k}
    /\ UNCHANGED basis

\* A reconnect that fails keeps its grant to itself, whether it had the lease or not.
GiveUp(k) ==
    /\ k \notin over
    /\ over' = over \cup {k}
    /\ holder' = IF holder = k THEN NoOne ELSE holder
    /\ UNCHANGED <<row, basis>>

Delete ==
    /\ row.exists
    /\ row' = [row EXCEPT !.exists = FALSE]
    /\ UNCHANGED <<holder, basis, over>>

Next ==
    \/ \E w \in Callers \cup Reconnects : Take(w)
    \/ LetGo
    \/ \E c \in Callers : Read(c) \/ Renew(c)
    \/ \E k \in Reconnects : Replace(k) \/ GiveUp(k)
    \/ Delete

Spec == Init /\ [][Next]_store
=============================================================================
