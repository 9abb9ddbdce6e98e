# OpenIPaaS in TLA+

OpenIPaaS is a self-hosted API in front of business services (ERPs and CRMs):
a client of the API holds a key, its end customers connect their accounts at a
provider, and one unified request is turned into calls of that provider. The
program is a Next.js server. Several instances of it may run at once; what they
share is one Postgres database and, optionally, one Redis. Nothing else
coordinates them, so most of what can go wrong is an interleaving of two
requests around a row of that database, or a call to a provider whose answer is
late or lost. This directory models that part, checks it with TLC and proves
the central statements with TLAPS.

Paths below are relative to the root of the repository; `lib/` stands for
`src/lib/`.

## 1. Inventory

| Component | State it keeps | Operations | Modelled |
|---|---|---|---|
| Token renewal, `lib/token-refresh.ts` | `OAuthCredential` row, advisory lock, `inFlight` map per process | `refreshCredential`, `refreshWithLock`, `persistNewCredential` | `TokenRefresh` |
| Provider calls, `lib/providers/core/BaseProvider.ts`, `http.ts` | `renewed` map per request, attempts | `request`, `httpRequest` | `TokenRefresh`, `IdempotentWrites` |
| Webhook outbox, `lib/webhooks.ts` | `WebhookEndpoint`, `WebhookDelivery` rows | `emit`, `emitConnectionEvent`, `deliverPending`, endpoint actions | `Webhooks` |
| Idempotent writes, `lib/idempotency.ts` | `IdempotencyKey` rows | `lookup`, `remember` | `IdempotentWrites` |
| API wrapper, `lib/api-auth.ts` | none of its own | `withUnifiedAuth` | its budgets in `Limits`, from the lookup on in `IdempotentWrites` |
| Connections, `app/actions/linked-account.ts`, the OAuth callback | `LinkedAccount` rows | connect, reconnect, remove | connecting in `Connect`, reconnecting in `TokenRefresh`, removal in `Webhooks` |
| API rate limits, `lib/api-rate-limit.ts` | window counters, Redis or local | `consume`, `consumeForKey` | `Limits` |
| Provider throttle, `lib/providers/core/rate-limit.ts` | token buckets, Redis or local | `acquireSlot` | `Limits` |
| OAuth flow, hosted connect, `lib/oauth.ts`, `lib/connect-session.ts` | `OAuthState`, `ConnectSession` rows | begin, consume, complete, hosted forms | `Connect` |
| Dashboard accounts, `app/actions/team.ts`, `auth.ts`, `password-reset.ts` | `DashboardUser`, `PasswordResetToken` rows | roles, removal, first account, reset links | `Console` |
| API keys, `app/api/admin/v1/keys` | `ApiKey` rows | issue, revoke, rotate | `Console` |
| Pure rules: scopes, pagination, onboarding, connection health | none | | no, see section 7 |
| Provider implementations, registry, MCP server, request log, OpenAPI, mail, screens | none that steps interact over | | no, see section 7 |

How they interact:

- A unified request (`withUnifiedAuth`) checks key, scope and rate limit, finds
  the connection and its credential, looks the `Idempotency-Key` up, and calls a
  provider object. The provider object holds the access token it was given for
  as long as the request lasts, and asks `refreshCredential` for another when
  the token is refused or about to expire.
- `refreshCredential` shares one run per credential within a process and takes a
  Postgres advisory lock across processes. When the renewal fails it emits
  `connection.expired` before the caller's promise rejects.
- The OAuth callback writes new tokens through `persistNewCredential` under the
  same lock and emits `connection.connected`; removal emits
  `connection.disconnected` and deletes the account with its credential.
- The callback, the hosted form and the console's form create accounts; what
  ties them together is the state an authorization was begun with and the
  connect link it was begun from, both read in one statement and marked used in
  another.
- Every API request passes two budgets, and every call to a provider waits for a
  token of that provider account's bucket. Both live in Redis while it answers
  and in the instance's memory when it does not.
- `emitConnectionEvent` inserts rows of the outbox and starts a delivery run
  without waiting for it; a scheduler starts delivery runs as well. Runs know
  nothing of each other.

What is hard, and what makes each part correct:

- *Renewal*: refresh tokens may rotate, so spending one twice kills a healthy
  connection. Any number of callers find the same token expired; a run may time
  out after the provider acted; a user may reconnect in between. Correct means:
  a refresh token is presented only while the provider accepts it, the row keeps
  up with the provider, a reconnect is never overwritten by an older renewal,
  nobody uses a token that was not stored, and every renewal ends.
- *Outbox*: delivery is at least once; overlapping runs write rows from stale
  reads. Correct means: a row is given up only after all tries, `DELIVERED` is
  true, every row comes to rest, all subscribers hear of the same events, and a
  flood of expiries is one event.
- *Idempotent writes*: the stored answer and the provider's record are two
  systems without a common transaction. Correct means: one record per key where
  that is possible, all replays alike, and a replay only for the same request.
- *Limits*: two budgets per request, Redis that may fail in between, waiters on
  one bucket, clocks that differ, calls that cross. Correct means: a store lets no more pass in any
  interval than windows and buckets allow, the reset a 429 names is kept, and a
  waiter sleeps exactly until there is a token.
- *Connecting*: two tabs, two callbacks, a link used twice, a callback that dies
  half way. Correct means: one state is used once, one service has one account
  and one credential, a link ends with one connection of the service it was for,
  and what subscribers hear is so.
- *Accounts and keys*: rules over several rows checked before a write to one of
  them. Correct means: there is always an owner, one first account, one reset
  link that works, one replacement of a rotated key.

The last two rest on reads that no transaction ties to the write they justify,
so several of their rules do break when two requests overlap. The properties
say exactly that: a rule holds unless two requests met at one place, which a
history variable (`met...`, `raced`) records. That is what the code provides.
In both modules a request may be cut short between any two of its statements
(`Fail`), so such a property also says that no failure breaks the rule by
itself, with one exception, which has a mark of its own: an operator's reset
that ends after the new password is written and before the links in flight are
retired leaves every one of them usable (`cut`). Each property covers its own
rule only. Nothing is said of two callbacks that follow each other from one
connect link, which may connect two accounts: the comment at
`lib/connect-session.ts:135-136` holds for forms alone (see section 6).

`PROJECT.json` lists the hazards at their lines with the properties that cover
them; a note says why where none does.

## 2. Modules

| Module | What it is |
|---|---|
| `TokenRefresh` | renewal of one credential by callers on several instances, with reconnects, deletion, crashes and the provider's token endpoint |
| `CredentialStore` | what a stored credential promises: a cell written under a lease |
| `TokenRefreshProofs` | its inductive invariants and fifteen theorems, `TokenRefresh` implements `CredentialStore` among them |
| `MCTokenRefresh` | instances for TLC: who runs where |
| `Connect` | connecting accounts: OAuth states, connect links, accounts and their first credentials |
| `ConnectProofs` | four inductive invariants and thirteen theorems |
| `MCConnect` | instance for TLC, symmetry |
| `Limits` | the two budgets of a request and the token bucket of a provider account, in Redis and in memory |
| `LimitsProofs` | two inductive invariants and eleven theorems |
| `MCLimits` | instance for TLC: two instances and their clocks |
| `Console` | console accounts, reset links and API keys |
| `ConsoleProofs` | four inductive invariants and fourteen theorems |
| `MCConsole` | instance for TLC, symmetry |
| `Webhooks` | the outbox of one client: emitters, endpoints, delivery runs, time |
| `WebhooksProofs` | two inductive invariants, of the delivery runs and of the emissions, and eleven theorems |
| `Outbox` | what the outbox promises its subscribers, with rows that may be taken up again or not |
| `OutboxProofs` | `Webhooks` implements `Outbox`, and the stricter one while its runs stay apart |
| `MCWebhooks` | instances for TLC: who subscribes to what, symmetry |
| `IdempotentWrites` | keyed requests, the attempts they make at the provider, the stored answers |
| `IdempotentWritesProofs` | its inductive invariant and seven theorems |
| `MCIdempotentWrites` | instances for TLC: a write, its retry, another body |

Definitions whose comment begins with "Seeded fault" are variants of a
definition with one plausible bug; no specification uses them. Each property is
known to fail when the variant takes the place of the original.

### TokenRefresh

One credential, because map, lock and row are all keyed by its id.

- `row` is the `OAuthCredential`; `lock` who holds `pg_advisory_xact_lock`;
  `inFlight[i]` the run in instance `i`'s map. `pc`, `token`, `awaiting` are one
  caller of `BaseProvider.request` each: where its call stands, the access token
  its provider object goes on with, and whose promise it awaits. `phase`,
  `presented`, `answer` are the run it may have started. `issued`, `live`,
  `revoked`, `stray` are the provider's side.
- A token is `[grant, serial]`: the n-th token of one authorization. That is all
  the properties tell apart. `token[c] = row.access` is the comparison in
  `refreshWithLock`.
- Steps split where the code awaits: `TakeLock` (the lock), `Present` or one of
  the `Read...` actions (the read and what follows it up to the request),
  `TokenEndpoint` (the provider acts), `Save`/`SaveFails`/`RefusalArrives` (the
  answer is back), `Announce` (the event is queued). `Settle` is a promise that
  settles, for everybody who joined it, with `inFlight.delete`. The announcement
  happens after the lock is released and before the promise rejects, as in the
  code, so others may join a run that has already failed.
- Timeouts strike at any time (`Abandon` 10 s, `TransactionTimeout` 25 s) and a
  request whose sender is gone stays in `stray`: the provider may process it.
- The provider accepts a refresh token if it is the live one of a grant that is
  not revoked; it may rotate or not at each renewal and may revoke a grant on
  reuse or on a reconnect. A status that is not OK for a token it accepts
  (`TokenEndpointDown`) is taken to have changed nothing; that the provider acts
  and the answer is lost is `Abandon`.
- `lost` is a history variable: the grants whose answer was never stored (crash,
  timeout, failed write) or that were revoked. The code cannot save those, and
  says so (`lib/token-refresh.ts:186-191`); the properties hold for all others.

### CredentialStore

What a reader of `lib/token-refresh.ts` may take a credential to be, without
maps, locks, transactions and timeouts: `row`, who holds the lease on it, and the
tokens the holder read under it. `Renew` replaces exactly those tokens by later
ones of the same grant, `Replace` (a reconnect) the grant by one never stored
before, and both give the lease back in the same step. `over` are the reconnects
that wrote or gave up (`GiveUp`): each has one chance. `TokenRefresh` implements
it with `holder <- lock`, `over <- Over` and `basis <- Basis`, the tokens of the
run that holds the lock while its request is under way or answered. Taking the
lock, timing out and crashing are `Take` and `LetGo`; joining, awaiting,
announcing and everything at the provider are stutters.

### Connect

One client, whose id every lookup of the code carries. The tables are `session`,
`pin` and `result` (`ConnectSession`: open or expired, its provider, its
`linkedAccountId`, which is set together with `usedAt`), `flow` (`OAuthState`),
`accounts` with `about` (`LinkedAccount`), and `credential`, the number of an
account's rows in `OAuthCredential`, since nothing in the code keeps that to one.

- A request is one callback, hosted form or console form; `request[r].pc` is the
  statement it is at. The callback reads the state (`ReadState`), marks it used
  (`BurnState`), exchanges the code (`ExchangeFails` or `FindAccount`, the lookup
  that follows), may create the account, looks for its credential, inserts or
  replaces it, announces, and completes its link. The form resolves its link,
  creates account and credential in one statement, claims the link, and announces
  or removes the account again. The console's form creates and announces.
- `CompleteConnectSession` is the conditional update both of them end with.
- `Fail` strikes between any two statements: an error of the database or the end
  of the process. `dropped` are the accounts such a request had in hand.
- `PersistFails` is the foreign key of a removed account; a removal itself is in
  `Webhooks` with its announcement, and `Remove` here.
- `metFlows`, `metServices`, `metAccounts` record where two requests stood at the
  same statement with the same row in hand: both had read a state as unused, both
  had found no account, both had found no credential.
- Tokens, PKCE, redirect origins and the text of pages are data and left out.

### Limits

A store is Redis or the memory of one instance, and each holds one fixed window
per counter (the client and its keys) and one bucket. The scripts run atomically
in Redis, and the functions of the local stores have no `await`.

- A request counts against the client's window, then against its key's, and goes
  on to the provider's bucket. There it reads its clock and sends the script
  (`Ask`), which runs some time later (`TakeToken` or `Sleep`, with the time that
  was read, `Reading`), up to `MaxDelay` ticks. Calls of one instance run in the
  order it sent them (`Ready`), calls of different instances may cross. The local
  bucket is read and refilled in one step. After `MaxTries` rounds the call is
  made without a token (`GoOnWithout`).
- `Consume(r, c, from, hits)` says who answered and who counted: with Redis
  failing, the instance answers, and Redis may have counted too. `RedisFails` is
  the same for the bucket, with the script that did run and whose answer is lost.
  The client of Redis may send a command again (`maxRetriesPerRequest`,
  `lib/redis.ts:29`), so one request may count twice in a window (`CountsInVain`)
  or take two tokens.
- `Over` is when a window makes way for the next: in the map at its reset time, in
  Redis a tick later, since a key still counts in the tick in which it expires. A
  request refused in that tick gets no PTTL and is told to wait a whole window
  (`Refuses`, line 91 of `lib/api-rate-limit.ts`). Retry-After is a number of
  seconds, so clocks play no part in what it promises; for the same reason windows
  run on the store's own time.
- Tokens are counted in units: a tick mints `Mint`, a token costs `Cost`, so the
  bucket may hold a fraction of a token, and `Wait` rounds up to whole ticks as the
  code does. The rounding error of floating-point numbers is left out.
- `Skew` is how far an instance's clock is ahead, all the time. The bucket's
  script is given the caller's time and stores it even when it is behind the last.
- An observer begins to count at any moment (`Watch`): `passed` and `granted` are
  what got through since, so the properties speak of every interval, not only of
  those that begin with a window. `calls` are the calls made of the provider,
  `without` those among them that had no token. `late` counts the runs of the
  script that came with an older time than the stored one: each makes the bucket
  mint the time in between once more, at most a `Loan`. Nothing else is excused.
- A command that runs in Redis after its caller gave it up for lost is not modelled.

### Console

Three small systems that have in common that each server action is two or three
statements: `role` (`DashboardUser`), `link` (`PasswordResetToken`, numbered as
they are created) and `key` (`ApiKey`). `action[a]` is the statement an action is
at. An element of `Users` is an account and its address; an address is not used
again after its account was removed, and signing in, changing one's own password
and admin keys, which are single statements on one row, are left out.
`Fail` ends an action between any two statements: an error of the database or the
end of the process. Passwords
are no values: what matters is how many a link set (`sets`) and whether a link
from before the operator's reset set one after it (`overwrote`). `age` is a link's
time: within the cooldown of a minute, within its hour, over. `family` is the
key a rotated key goes back to. The `met...` variables record overlaps as in
`Connect`; `raced` is the same for a link and an operator's reset, and `cut` marks
the links that a reset cut short should have retired.

### Webhooks

One client. `endpoint`, `accounts` and the row variables (`status`, `about`,
`attempts`) are the tables; `due` and `ahead` stand for `nextAttemptAt`: the rows
whose time has come, and for each the ones that are ahead of it, which is what
`orderBy` and `take` need. `stage`, `batch`, `item` are one `deliverPending` each.

- An emission takes up to four steps, one per query: endpoints, what was sent
  within the hour, the insert for all targets, and for a removal the delete of
  the account.
- A run reads a batch, then posts and updates one row at a time. `batch` holds
  the attempt count as it was read: `scheduleRetry` writes that plus one.
- `Post` decides what the endpoint did and what the run learns of it: accepted
  and answered, or anything else, in which case the endpoint may have accepted.
- `EndRun` is the end of the batch, a process that dies, and the exception that
  leaves the loop when the row is gone.
- `clock` counts insertions and `since` is the first of the past hour:
  `HourPasses` moves it. `steady`, `tries`, `accepted` are history.
- Signatures, payload wording and URL checks are left out: no property is about
  them. Backoff is an arbitrary delay (`BecomesDue`).

### Outbox

What a subscriber may take the outbox to be, without emissions in progress,
batches, due times and counters: per row what it tells whom (`told`), its `fate`,
how often it was posted and whether it was received. `Enqueue` gives each of some
subscribers a row of its own in one step, `Send` posts a row, `Deliver` needs that
it was received, `GiveUp` that all attempts were made, `Remove` takes an
endpoint's rows with it, and no row is made for a removed endpoint. `Reopens` says
whether a row that has settled may be posted and recorded again: `Webhooks`
implements the outbox in which it may (`AtLeastOnce`, checked by TLC and proved),
and the one in which it may not (`SettledOnce`) as long as its runs stay apart.

### IdempotentWrites

One client and one connection. `stored` is the `IdempotencyKey` table, `stage`,
`attempt`, `result` one request each, `made` the records the provider created
and for whom, `stray` abandoned attempts that may still arrive. A request is
`Call` (lookup, a miss), `Send`, the provider's `Creates`/`Rejects`/
`Unavailable`, or `AnswerLost` with `httpRequest`'s next attempt, `AnswerArrives`,
and `Remember`, the upsert that keeps the first answer. `Replay` is a hit. A body
stands for what `hashRequest` tells apart. Between the two the handler may throw
over the answer it got (`HandlerThrows`: a field it cannot map, as in
`contaazul/provider.ts:144-149`); the client is told of an error and nothing is
stored. `excused` is a history variable: keys of which two requests were at work
at once, or an answer was lost, or a throwing handler, a crash or a failed upsert
came between the record and the stored answer.

## 3. Runs

| Run | Instance | Shows |
|---|---|---|
| `token_refresh` | two callers on one instance, one on another, one renewal, one fault | `SpentOnce`, `HealthyNeverRefused`, `RenewsStoredToken`, `NoCallerAhead`, `RenewalSettles` |
| `token_refresh_reconnect` | one caller on each of two instances, one reconnect, two faults | `StoreTracksProvider`, `GrantChangedByReconnectOnly`, `ImplementsStore` |
| `renewal_replay` | as the first, no fault | `ReplayIsFresh` fails |
| `connect` | two requests at a time, one link, two authorizations, an OAuth service and one with keys, two accounts, one fault | `ReplayTakesOverlap`, `DuplicateTakesOverlap`, `SecondCredentialTakesOverlap`, `LoserLeavesNothing`, `AnnouncedIsConnected`, `ResultWasConnected`, `StoredLinkIsUsed` |
| `limits` | a request on each of two instances, their clocks a tick apart, calls of Redis that take up to a tick, one that fails, one key | `BudgetKept`, `ResetIsKept`, `ProviderRateKept`, `NeverSpins` |
| `console` | two accounts, two links, three keys, two actions at a time, six in all, one of them cut short | `OwnerLossTakesOverlap`, `SecondFirstTakesOverlap`, `LinkSetsOnePassword`, `MoreLinksTakeOverlap`, `OperatorResetStands`, `OneKeyLives` |
| `webhooks_deliver` | one endpoint, two runs, two rows, batches of one, two attempts, one fault | `GivenUpAfterAllTries`, `ImplementsOutbox`, `EveryDeliverySettles` |
| `webhooks_emit` | two endpoints, two emitters, one connection, four rows | `OneExpiryPerEmitter`, `SubscribersHearAlike`, `RemovalWasAnnounced` |
| `webhooks_overlap` | two runs, one row, no fault | `AcceptedStaysDelivered` fails |
| `webhooks_flood` | two emitters, one endpoint, two rows | `OneExpiryPerHour` fails |
| `idempotent_writes` | a write, its retry and another body under one key, two attempts, four records, two faults | `DuplicateHasACause`, `ReplaysAgree`, `ReplayMatchesBody` |
| `idempotent_writes_overlap` | the same without faults | `OneRecordPerKey` fails |

Each passing run of a module also checks its type invariant once. The state
spaces are finite and explored completely; the runs take from seconds to a few
minutes with two workers.

Bounds, and why they are enough for the case each run is about:

- Two instances, one with two callers, are all the ways to meet in a renewal:
  join a run, wait for the lock behind another process, and come late to either.
  `MaxSerial = 1` allows one renewal after the first token; a second caller then
  finds the renewed row, which is the case the lock is for. The theorems of
  section 5 hold for any number of callers, instances, serials and faults.
- `MaxFaults` counts crashes, timeouts, failed writes, deletions and revocations
  together. One fault can hit at every point of every interleaving; the reconnect
  run has two, since a timeout followed by a deletion or revocation is where an
  old grant could return.
- Two delivery runs and two rows with `Limit = 1` give overlap on one row, a run
  that lags behind on another, and a batch that does not take everything due.
  `MaxAttempts = 2` (6 in the code) still has a first failure, which retries, and
  a last, which gives up.
- The emission run has no delivery runs, as no property there depends on what
  becomes of a row; `connection.connected` is queued just as a removal is and is
  left to the delivery run. Endpoints and emitters are interchangeable, so the
  run uses symmetry; it checks invariants only.
- Two attempts per provider call (3 in the code) have one that is retried and
  one that is final.
- Two requests, one link and two accounts let two tabs race for a link, two
  callbacks for a state, a service or an account, and a removal come in between;
  two authorizations let one be repeated after the other failed. One fault may
  strike between any two statements of either.
- In `limits` a window is two ticks of at most four, so one ends and another
  begins; three requests against budgets of two and one exceed both. A token costs
  three units and a tick mints two, so the wait is rounded, and the bucket holds
  one token, so waiters do wait, twice at most (100 times in the code). A call may
  be under way for a tick and the clocks are a tick apart, so runs of the script do
  come late. The instance is too small for the loans to add up to more than the
  rate allows; that they are bounded by `late` is the theorem's part. The same is
  true of the client's budget over a whole window, which three requests cannot
  exceed twice; the key's, and the one within a window, they can.
- Six actions over two accounts are enough to make an account, have a second one
  and let two changes of each meet; three keys are a key and two replacements; one
  action cut short may be any, anywhere.
  Deeper histories are what the theorems are for.
- Deadlock is not checked: a connection may be deleted, an outbox empty, all keys
  answered, all links used and time be up, and then nothing needs to happen.

## 4. Fairness

Liveness is checked under the fairness the program has, never under any of its
environment's:

- `TokenRefresh`: a run takes its next step, its token request ends (answered, or
  abandoned at 10 s), a reconnect does not stop half way: weak fairness.
  `TakeLock` has strong fairness, because Postgres grants an advisory lock to its
  waiters in order. Callers, faults and the provider's decisions have none.
- `Webhooks`: the scheduler calls `deliverPending` again and again, a run goes on
  (a post ends within 10 s) and a row's time comes: weak fairness. No endpoint
  ever has to accept.
- `IdempotentWrites`, `Connect`, `Limits` and `Console` promise no progress and have
  no fairness: a client may go away, and a person may leave a form open.

`EveryDeliverySettles` is stronger than it looks: overlapping runs do put settled
rows back into the queue (`webhooks_overlap`), but each time from a read of a row
that was `PENDING`, so with every post counted it comes to an end.

## 5. What is proved

For every value of the constants, from the assumptions named
`ConstantsAssumption` in the modules (the functions have their domains, bounds
are naturals, `NoOne`, `NoToken`, `None` differ from what they stand beside):

`TokenRefreshProofs`

- `TypeCorrect`: `TypeOK` is inductive by itself.
- `Invariance`: the inductive invariant `IInv`. The properties are not inductive:
  that a presented refresh token is live needs that the presenter still holds the
  lock or its grant is lost (`OpenOrLost`), that nobody else holds it
  (`LockHeld`), that the row agrees with the provider (`RowLive`), that an answer
  in hand continues the grant it was asked for (`AnswerContinues`), and that the
  grant of an unfinished reconnect is untouched (`RowGrant`). The proof has one
  case per action; the many actions that leave row, lock and provider alone share
  the lemma `QuietStepInv`.
- `RefreshTokenSpentOnce`, `HealthyConnectionNeverRefused`,
  `RowStableUnderRenewal`, `StoreAgreesWithProvider` (the invariants `SpentOnce`,
  `HealthyNeverRefused`, `RenewsStoredToken`, `StoreTracksProvider`) and
  `ReconnectHasLastWord` (the action property `GrantChangedByReconnectOnly`).
- `CommittedBeforeUse` (`NoCallerAhead`): a caller's token is the row's or an older
  one of its grant. A run hands a token out only with the commit, serials of a
  grant in the row only grow, since an answer in the hands of the lock's holder is
  later than the row, and of a grant not yet stored no caller has a token.
- `RefreshImplementsStore` (`ImplementsStore`): under the refinement mapping the
  initial states are `CredentialStore`'s and each action of `TokenRefresh` is one of
  its steps or a stutter, by `IInv`: a `Save` writes over the tokens its run
  presented because those are still in the row.

- `ReplacedTokenNeverReturns`: an access token that was replaced in the row is never
  stored again. It is read off `CredentialStore` alone: its `Renew` makes serials
  grow within a grant and its `Replace` brings a grant that had no chance yet, so
  the proof opens no action of `TokenRefresh`. A temporal statement, closed by PTL
  from one that is stable step by step.
- `NoRenewalStranded`: the safety half of `RenewalSettles`. Whoever renews awaits a
  run of its own instance that is in the map and at work, or waits for a lock that
  is free or whose holder is at work; no cycle of waiting and no promise without a
  run. That each such step is then taken is what the fairness is for.
- `RaceAloneLosesNothing`, `LossTakesFaultOrLaterGrant`: the exemption `lost` is
  earned. Until a fault or a reconnect it is empty, so instances and callers that
  merely race never spend a token twice; without a fault a grant is lost only to a
  later authorization.
- `OwnRunRenews`, `ReplayIsFreshForLikeTokens`: see "What the findings take" below.

`LimitsProofs`

- `LimitsTypeCorrect`, and `ThrottleInvariance`: a request stands at Redis or at its
  home (`AtHome`), a call under way read its clock no longer than `MaxDelay` ago
  (`CallsInTime`), and a bucket's stored time is no further ahead than a clock may
  be (`ClockInv`). Tokens handed out, and those the bucket could hand out now if the
  fastest clock asked, are together within what was there, what time minted, and a
  loan for each late run (`RateInv`): a run that is late sets the stored time back
  by a `Loan` at most, any other leaves that sum as it is. And for the reading with
  which a sleeper comes back its bucket has a token, unless another took one since
  (`WakeInv`), because the wait is rounded up. `ProviderRateHolds` and
  `WaitersNeverSpin` follow, for any rate, skew and delay.
- `BudgetInvariance`: what passed since the observer came is at most the count of
  the window then open, or that window's budget and the count of its successor
  (`PassedInv`); the window a 429 named is the one that refused, or later
  (`PromiseInv`). `BudgetsHold` and `ResetsHold` follow, the latter with the tick in
  which a key of Redis expires.

- `RedisCountsForAll`, `BudgetsHoldForAll`: the properties speak of each store by
  itself. With Redis configured and answering no request passes a budget and no
  token is taken that Redis did not count, so the budgets hold for the deployment.
  `DeploymentKeepsTheRate` is the same for the provider: the calls the deployment
  makes, less those made without a token, are within what one bucket allows.
  `CallsInTurnAreNeverLate` says what it takes for a late run: clocks that differ,
  or calls of two instances that are under way at once. That Redis answers, that
  clocks agree and that calls do not cross are hypotheses of these theorems; the
  runs and the other theorems do without.

`ConsoleProofs`

- `ConsoleTypeCorrect`; `TeamInvariance`: while no two changes met, the one under way
  leaves an owner, and while no two sign-ups met, the one under way is the first.
  `OwnersRemain`, `FirstIsOnlyOne`.
- `SetsInvariance`: a link is used before it sets a password, and who used it is the
  only one who will set one. `OnePasswordPerLink`.
- `LinkInvariance`, of three parts: a link that an operator's reset has to retire is
  used, about to be retired, or left by a reset that was cut short, and who follows
  it has met that reset or such a failure (`ResetInv`), that between retiring and issuing an account has no usable link
  unless another issue met it (`IssueInv`), and the same of links asked for within
  the cooldown (`RequestInv`). `OperatorHasTheLastWord`, `OneUsableLink`.
- `KeyInvariance`: who rotates a key of a family holds its only live one, unless a
  rotation or revocation met it. `OneKeyOfAFamilyLives`.

`ConnectProofs`

- `ConnectTypeCorrect`, then three invariants of one shape, that outside its overlap a
  row's maker is alone: a used state is past every callback (`FlowsInv`), where a
  callback made a service's account no other is about to (`ServicesInv`), where an
  account has a credential nobody is about to insert another (`RowsInv`). From them
  `StateSingleUse`, `OneAccountPerService`, `OneRowPerAccount`.
- `LinkInvariance`: tables only grow (links stay what they were made, accounts are
  numbered), so they fit together and what a request has read of them stays true
  until it acts on it. `LinkIsUsed` (the action property `StoredLinkIsUsed`),
  `HeardIsConnected`, `LosersAreRemoved`, `UsedIsConnected`.

- `CallbacksApartConnectOnce`, and `OwnersRemainOneByOne`, `LinksHoldOneByOne`,
  `KeysLiveOneByOne` in `ConsoleProofs`: the exemptions `met...` are earned. They
  are history variables of the model, so it has to be shown that they are not set
  too easily: while the callbacks of a service, the changes of accounts, the
  actions about one account's links and those on one key come one after the other
  (a condition on the requests under way, with no word of `met...`), the rules
  hold without exemption, whatever else goes on, fails or is repeated. One of them
  does not, and `LinksHoldOneByOne` says so: the operator's password is replaced
  through an older link only if the reset that should have retired it was cut
  short, and never without a failure.

`WebhooksProofs`

- `OutboxTypeCorrect`: `TypeOK` needs that rows are numbered as they are inserted
  and that runs know no others (`RowsNumbered`): an insertion then never touches a
  row some run holds.
- `DeliveryInvariance`, `NoRowGivenUpEarly`, `DeliveredMeansAccepted`: runs
  overwrite each other's count, so `GivenUpAfterAllTries` does not follow from the
  `attempts` column alone. It rests on `CountsWereTried`: an attempt count, in the
  table or as a run remembers it, never exceeds the posts tried, and the row just
  posted was tried once more than its run remembers. `DeliveredWasAccepted` rests
  on `AcceptedInHand`.
- `EmissionInvariance`, `OneExpiryFromOneEmitter`, `SubscribersAlike`,
  `RemovalAnnounced`: the properties are about rows, the strengthening about
  emissions in progress. `TargetsAlike`: endpoints active all along are all among
  the targets or none is. The dedupe keeps that only because the rows it looks at
  are alike, so it and `SubscribersHearAlike` need each other. `DeletesAnnounced`:
  who is about to delete an account has announced it. `TargetsUntold`: an emitter
  that is past the dedupe has told none of its targets itself.

`OutboxProofs`

- `OutboxImplemented` (`ImplementsOutbox`): all steps but four leave the promise
  alone. The insert of an emission is `Enqueue`, by `TargetsAlike` (targets asked
  for the event) and the numbering of rows (a row each, none twice); a post is
  `Send`; an update is `Deliver`, `GiveUp` or `TryAgain`, by `AcceptedInHand` and
  `CountsWereTried`; a removal is `Remove`.
- `RunsApartSettleOnce`, `SettledRowsAreLeftAlone`: with the hypothesis below the
  same steps are those of the outbox whose rows settle once, because what a run has
  in hand is then unsettled.

`IdempotentWritesProofs`

- `WritesInvariance`: a stored answer is about a record made from the stored body
  (`StoredIsMade`), replays repeat it (`ReplaysStored`), and a key that is not
  excused has at most one request at work and no abandoned attempt
  (`OneAtATime`), and its record is stored or in that request's hands
  (`RecordInHand`).
- `WritesTypeCorrect`, `RetriesOneByOneAreSafe`, `ReplaysAlwaysAgree`,
  `ReplaysAnswerTheirBody`.

- `StoredAnswerEndsTheKey`: once a key's answer is stored and no request or stray
  attempt of it is under way, its answer and its records are final, whatever is
  lost, dies or is retried later.

What the findings take. Each statement of section 6 that the code breaks is also
proved, of every behaviour in which the one overlap of its counterexample does not
occur. So that overlap is the only way to break it, and excluding it in the code
would be a repair:

| Violated | holds while | Theorem |
|---|---|---|
| `ReplayIsFresh` | nobody joins a run for another token than the one it was refused with (`JoinersShareToken`); for who runs it itself always | `ReplayIsFreshForLikeTokens`, `OwnRunRenews` |
| `AcceptedStaysDelivered` | no two runs have the same row in hand (`RunsApart`) | `AcceptedOnceApart`, `RowsSettleOnceApart`, `RunsApartSettleOnce` |
| `OneExpiryPerHour` | no two requests are announcing one connection's expiry (`ExpiriesApart`) | `OneExpiryApart` |
| `OneRecordPerKey` | no two requests of a key are at work (`KeysApart`), nothing is lost or dies, and every answer is mapped without an error (`faults = 0`) | `OneRecordPerKeyApart` |

These hypotheses are about behaviours, `Spec /\ []RunsApart => ...`; they speak of
the requests under way and are met, for one, by every behaviour with a single run
or request at a time.

Every invariant and every action property of a passing run is a theorem. Only
model-checked are the liveness properties `RenewalSettles` and
`EveryDeliverySettles`: liveness under fairness and `ENABLED` are out of this
prover's reach and stay with TLC, as does induction over data, of which the
models have none.

## 6. Findings

Four statements of the repository do not hold of the code; each has a run whose
counterexample shows it.

- `renewal_replay`: `inFlight` is keyed by credential alone. A caller refused
  with the current token joins a run begun for an older one and is handed the
  token it was just refused with, while `BaseProvider.ts:115-116` says the call is
  replayed with the new token.
- `webhooks_overlap`: nothing claims a due row, and `scheduleRetry` writes by id
  alone: a row already `DELIVERED` goes back to `PENDING` and is sent again.
- `webhooks_flood`: two announcements at the same time of one expired connection
  are both queued, against "At most one per connection per hour"
  (`docs/INTEGRATION.md:440`).
- `idempotent_writes_overlap`: a retry that overlaps its original creates a second
  record, against "must not create a second sale" (`lib/idempotency.ts:7`).

Statements that a property exempts. These sentences of the repository are true of
requests that follow each other, and the properties that speak of them name the
overlap or the failure that breaks them. The code has it, the counterexample is the
exemption itself, and no run is spent on it:

| Statement | Property | Broken by |
|---|---|---|
| "Single use and time limited", `lib/oauth.ts:113-114` | `ReplayTakesOverlap` | two callbacks that both read the state before either burns it |
| "needs at least one owner", `app/actions/team.ts:63` | `OwnerLossTakesOverlap` | two owners who demote or remove each other at the same time |
| "the first account, and only the first", `app/actions/auth.ts:60-62` | `SecondFirstTakesOverlap` | two first sign-ups that both count no account |
| "asking for a new one should retire the old", `app/actions/password-reset.ts:53-54` | `MoreLinksTakeOverlap` | two requests that both retire before either creates |
| "one connection and one refusal rather than two connections", `lib/connect-session.ts:135-136` | `LoserLeavesNothing`, of forms only | two callbacks of one link, also one after the other: each has its account before the link refuses the second |
| "Any link that was already in flight is now a way in with an old password", `app/actions/auth.ts:129` | `OperatorResetStands` | a link followed meanwhile, or a reset that ends between the password and the links |
| "is what makes a network timeout safe to retry", `docs/INTEGRATION.md:280`; "Retry with the same `Idempotency-Key`", 390 and 393 | `DuplicateHasACause` | an answer lost or not understood after the provider acted, a crash, a failed upsert; the overlap has a run |

Not checked by a run: `docs/DEPLOYMENT.md:95,103` speaks of idempotency as kept
per process without Redis; the code keeps it in Postgres. And
`lib/api-rate-limit.ts:110-113` and `docs/INTEGRATION.md:369-371` ("Give each caller
its own key and they stop competing") do not hold: a request that its key's budget
refuses was counted against the client's before (lines 134-138), so a key that keeps
asking uses up the client's budget and the other keys are refused.

## 7. Not modelled, and why

- Provider implementations, validation schemas, OpenAPI: mapping of data, one
  request at a time, without state.
- Registry and manifests: tables read at start.
- MCP server: a stateless wrapper that calls the unified API.
- Mail transports, request log, encryption, environment checks, Prisma and Redis
  clients: foundations, without steps that interact.
- Screens, documentation, sandbox, scripts.
- Pure rules (`lib/scopes.ts`, `lib/providers/core/pagination.ts`,
  `lib/dashboard/onboarding.ts`, the health view of connections): functions of
  strings and dates without state, for which unit tests are the better tool.
- `src/.opencode/`: a development workflow tool (get-shit-done) that is checked in
  beside the product, more than half of the repository's lines of code. It is
  third-party and the product never loads it.
- Signing in and out, changing one's own password, admin keys: one statement on
  one row each. Guards of the API wrapper that change nothing.
- Durations. Timeouts are choices, so whether 25 s suffice for a waiter behind
  several slow token requests (`lib/token-refresh.ts:50-56`) is not answered, nor
  how long a provider call may take.
- What a key's own budget does for its neighbours. `Limits` counts in the code's
  order, in which it does not protect them (end of section 6); that is read off two
  lines, and no property states it.
- How many calls go on without a token when a hundred rounds found none
  (`lib/providers/core/rate-limit.ts:164`): they are counted and nothing bounds them.

## 8. Plan

Done, in this order: `TokenRefresh`, `Webhooks`, `IdempotentWrites` and their
proofs; `Connect`, `Limits`, `Console` and theirs; `CredentialStore`, `Outbox` and
the refinements; for each violated statement and each exemption, what it takes.

What would add most next:

1. `TokenRefresh` composed with `Webhooks` by way of `Announce`: what a subscriber
   hears of a connection against what happened to it, with a reconnect and a slow
   announcement crossing.
2. Durations of renewals, in units of a token request: how many slow requests ahead
   a waiter survives.
3. An abstract specification of `Connect` (a link, then at most one connection of
   its service) and of `IdempotentWrites` (a cell per key that is written once),
   with the refinements proved under the hypotheses of section 5.

Modules keep recursion out, so that they can be proved about. Runs stay few: where
a new module answers the question of an older run better, it takes its place.
