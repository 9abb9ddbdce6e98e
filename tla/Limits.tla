------------------------------- MODULE Limits -------------------------------
(***************************************************************************)
(* The two limits an API request passes: the budgets of its client and its *)
(* key (lib/api-rate-limit.ts), which refuse, and the request rate of the  *)
(* provider account it calls (lib/providers/core/rate-limit.ts), which     *)
(* makes it wait.                                                          *)
(*                                                                         *)
(* Both keep their counts in Redis, by scripts that run there atomically,  *)
(* and in the memory of the instance when Redis is not configured or does  *)
(* not answer.  A store is Redis or the memory of one instance; it holds a *)
(* fixed window per counter and one token bucket.  One client and one      *)
(* provider account are modelled: their keys are their ids.                *)
(***************************************************************************)
EXTENDS Integers

CONSTANTS Instances,      \* server processes
          Redis,          \* the shared store
          UseRedis,       \* REDIS_URL is set
          Requests,       \* API requests under way at the same time
          Home,           \* the instance a request runs on
          Keys,           \* API keys of the client
          Client,         \* the client's own counter
          Limit,          \* per counter: its budget for one window
          Window,         \* DEFAULT_WINDOW_MS, in ticks
          Mint, Cost,     \* units minted in a tick, units a token costs: the rate
          Burst,          \* tokens a full bucket holds
          MaxTries,       \* rounds of acquireSlot's loop
          Skew,           \* per instance: how far its clock is ahead
          MaxSkew,        \* ... at most
          MaxDelay,       \* ticks a call to Redis is under way at most
          MaxTime,        \* bound: ticks
          MaxRequests,    \* bound: requests begun
          MaxFaults       \* bound: calls to Redis that fail

Stores == Instances \cup {Redis}
Counters == Keys \cup {Client}
Capacity == Burst * Cost

ASSUME ConstantsAssumption ==
    /\ Redis \notin Instances
    /\ Client \notin Keys
    /\ UseRedis \in BOOLEAN
    /\ Home \in [Requests -> Instances]
    /\ Limit \in [Counters -> Nat \ {0}]
    /\ Window \in Nat \ {0}
    /\ {Mint, Cost, Burst, MaxTries} \subseteq Nat \ {0}
    /\ MaxSkew \in Nat
    /\ Skew \in [Instances -> 0..MaxSkew]
    /\ MaxDelay \in Nat \ {0}
    /\ {MaxTime, MaxRequests, MaxFaults} \subseteq Nat

VARIABLES
    now,        \* real time
    window,     \* per store and counter: [count, resetAt]
    bucket,     \* per store: [tokens, lastRefill]; tokens in units
    request,    \* per request: where it stands
    begun,      \* requests begun
    \* history
    watching,   \* an observer has begun to count
    since,      \* ... at this time
    passed,     \* per store and counter: requests it has let pass since
    granted,    \* per store: tokens taken for a call since
    late,       \* runs of the script since with a time older than the stored one
    calls,      \* calls of the provider since
    without,    \* ... those made without a token
    promise,    \* per request: when the 429 it got said to come back
    spun,       \* requests that slept for a token, lost it to nobody, and found none
    faults

limitVars == <<window, passed, promise>>
throttleVars == <<bucket, granted, late, calls, without, spun>>
observer == <<watching, since>>
vars == <<now, limitVars, throttleVars, request, begun, observer, faults>>

\* No call to Redis is under way.
Unasked == -1

Idle == [pc |-> "idle"]
Waiting ==
    [pc : {"slot"}, store : Stores, tries : 0..MaxTries, wake : Nat,
     asked : Nat \cup {Unasked}, overtaken : BOOLEAN]
Request == {Idle} \cup [pc : {"key"}, key : Keys, remaining : Nat] \cup Waiting

\* A 429: when it says to come back, and the end of the window that refused.
NoPromise == [at |-> -1]
Promise == {NoPromise} \cup [at : Nat, until : Nat, store : Stores, counter : Counters]

Init ==
    /\ now = 0
    /\ window = [s \in Stores |-> [c \in Counters |-> [count |-> 0, resetAt |-> 0]]]
    /\ bucket = [s \in Stores |-> [tokens |-> Capacity, lastRefill |-> 0]]
    /\ request = [r \in Requests |-> Idle]
    /\ begun = 0
    /\ watching = FALSE
    /\ since = 0
    /\ passed = [s \in Stores |-> [c \in Counters |-> 0]]
    /\ granted = [s \in Stores |-> 0]
    /\ late = 0
    /\ calls = 0
    /\ without = 0
    /\ promise = [r \in Requests |-> NoPromise]
    /\ spun = {}
    /\ faults = 0

Fault == faults < MaxFaults /\ faults' = faults + 1
AtMost(a, b) == IF a < b THEN a ELSE b
AtLeast(a, b) == IF a > b THEN a ELSE b
Goes(r, record) == request' = [request EXCEPT ![r] = record]

\* A request comes to a bucket.
Slot(s) ==
    [pc |-> "slot", store |-> s, tries |-> 0, wake |-> now, asked |-> Unasked,
     overtaken |-> FALSE]

----------------------------------------------------------------------------
(* Budgets: consumeForKey *)

\* A window that was never opened, or is over.  A key of Redis still counts in
\* the tick in which it expires; the map's entry does not.
Over(s, w) ==
    \/ w.count = 0
    \/ IF s = Redis THEN w.resetAt < now ELSE w.resetAt <= now

\* Seeded fault: every request pushes the reset forward.
HitAndExtend(s, w) ==
    [count |-> IF Over(s, w) THEN 1 ELSE w.count + 1, resetAt |-> now + Window]

\* One request more in a window; a window that is over is followed by a new one.
Hit(s, w) ==
    IF Over(s, w) THEN [count |-> 1, resetAt |-> now + Window]
    ELSE [w EXCEPT !.count = @ + 1]

\* The windows when the stores `hits` have counted a request for counter c.
Counted(c, hits) ==
    [s \in Stores |->
        IF s \in hits THEN [window[s] EXCEPT ![c] = Hit(s, @)] ELSE window[s]]

\* The stores that may answer a request.
Reach(r) == IF UseRedis THEN {Redis, Home[r]} ELSE {Home[r]}

\* consume: `from` answers, and `hits` have counted: Redis, or this instance
\* after Redis failed, before or after it had counted too.
Consume(r, c, from, hits) ==
    /\ IF UseRedis /\ from # Redis THEN Fault
       ELSE hits = {from} /\ UNCHANGED faults
    /\ window' = Counted(c, hits)

\* verdictFrom
Allowed(s, c) == window'[s][c].count <= Limit[c]
Remaining(s, c) == AtLeast(0, Limit[c] - window'[s][c].count)

LetsPass(s, c) ==
    /\ passed' = IF watching THEN [passed EXCEPT ![s][c] = @ + 1] ELSE passed
    /\ UNCHANGED promise

\* A 429 says when the window resets (Retry-After).  In the tick in which its key
\* expires Redis names no time, and a whole window is assumed.
Refuses(r, s, c) ==
    LET until == window'[s][c].resetAt
    IN  /\ Goes(r, Idle)
        /\ promise' = [promise EXCEPT ![r] =
                         [at |-> IF until > now THEN until ELSE now + Window,
                          until |-> until, store |-> s, counter |-> c]]
        /\ UNCHANGED passed

\* The client's budget comes first.
ConsumeClient(r, k) ==
    /\ request[r] = Idle
    /\ begun < MaxRequests
    /\ begun' = begun + 1
    /\ \E from \in Reach(r) : \E hits \in {{from}, {from, Redis}} :
         /\ Consume(r, Client, from, hits)
         /\ \/ /\ Allowed(from, Client)
               /\ Goes(r, [pc |-> "key", key |-> k, remaining |-> Remaining(from, Client)])
               /\ LetsPass(from, Client)
            \/ ~Allowed(from, Client) /\ Refuses(r, from, Client)
    /\ UNCHANGED <<now, throttleVars, observer>>

\* Seeded fault: of two budgets with nothing left the client's is reported.
ReportsKeyStrictly(s, k, remaining) == Remaining(s, k) < remaining

\* The tighter of the two budgets gives the verdict.
ReportsKey(s, k, remaining) == Remaining(s, k) <= remaining

\* Then the key's.  The client's verdict, when it is the one, was to let pass.
ConsumeKey(r) ==
    LET k == request[r].key
    IN  /\ request[r].pc = "key"
        /\ \E from \in Reach(r) : \E hits \in {{from}, {from, Redis}} :
             /\ Consume(r, k, from, hits)
             /\ IF ReportsKey(from, k, request[r].remaining) /\ ~Allowed(from, k)
                THEN Refuses(r, from, k)
                ELSE /\ LetsPass(from, k)
                     /\ Goes(r, Slot(IF UseRedis THEN Redis ELSE Home[r]))
        /\ UNCHANGED <<now, throttleVars, begun, observer>>

\* Redis has counted, and the connection breaks before the answer: the client
\* of Redis sends the command again, and it will count once more.
CountsInVain(r) ==
    /\ UseRedis
    /\ Fault
    /\ \/ request[r] = Idle /\ begun < MaxRequests /\ window' = Counted(Client, {Redis})
       \/ request[r].pc = "key" /\ window' = Counted(request[r].key, {Redis})
    /\ UNCHANGED <<now, passed, promise, throttleVars, request, begun, observer>>

----------------------------------------------------------------------------
(* The provider's rate: acquireSlot *)

\* acquireDistributed reads the clock and sends the script to Redis.
Ask(r) ==
    /\ request[r].pc = "slot"
    /\ request[r].store = Redis
    /\ request[r].tries < MaxTries
    /\ request[r].asked = Unasked
    /\ request[r].wake <= now
    /\ Goes(r, [request[r] EXCEPT !.asked = now])
    /\ UNCHANGED <<now, limitVars, throttleVars, begun, observer, faults>>

Calling(r) == request[r].pc = "slot" /\ request[r].asked # Unasked

\* The script may run now: what an instance sends over its connection runs in
\* that order.  The local bucket is refilled at once.
Ready(r) ==
    /\ request[r].pc = "slot"
    /\ request[r].tries < MaxTries
    /\ IF request[r].store = Redis
       THEN /\ Calling(r)
            /\ \A q \in Requests :
                 Home[q] = Home[r] /\ Calling(q) => request[r].asked <= request[q].asked
       ELSE request[r].wake <= now

\* The caller's time: for Redis the one it read before it sent the script.
Reading(r) ==
    Skew[Home[r]] + (IF request[r].store = Redis THEN request[r].asked ELSE now)

\* The time that has passed since the last refill, by the caller's clock.
Elapsed(r) == AtLeast(0, Reading(r) - bucket[request[r].store].lastRefill)

\* Seeded fault: an idle bucket fills without limit.
RefilledUncapped(r) == bucket[request[r].store].tokens + Mint * Elapsed(r)

\* What request r finds in its bucket when it has refilled it.
Refilled(r) == AtMost(Capacity, bucket[request[r].store].tokens + Mint * Elapsed(r))

HasToken(r) == Refilled(r) >= Cost

\* The tokens r leaves: one less, if there was one.
Left(r) == IF HasToken(r) THEN Refilled(r) - Cost ELSE Refilled(r)

\* The script stores the caller's time even when it is behind the last one; the
\* local bucket only moves forward.
StoredTime(r) ==
    IF request[r].store = Redis THEN Reading(r)
    ELSE AtLeast(Reading(r), bucket[request[r].store].lastRefill)

\* The refill, and the token taken if there is one.
Refill(r) ==
    LET s == request[r].store
    IN  /\ bucket' = [bucket EXCEPT ![s] = [tokens |-> Left(r), lastRefill |-> StoredTime(r)]]
        /\ late' = IF watching /\ s = Redis /\ Reading(r) < bucket[s].lastRefill
                   THEN late + 1 ELSE late

\* Request r goes on to `record`; the others at the bucket see a token go.
Overtakes(r, record) ==
    request' = [q \in Requests |->
        IF q = r THEN record
        ELSE IF request[q].pc = "slot" /\ request[q].store = request[r].store
        THEN [request[q] EXCEPT !.overtaken = TRUE]
        ELSE request[q]]

\* The call to the provider is made.
CallsProvider(free) ==
    /\ calls' = IF watching THEN calls + 1 ELSE calls
    /\ without' = IF watching /\ free THEN without + 1 ELSE without

\* A token is there: it is taken and the call made.
TakeToken(r) ==
    /\ Ready(r)
    /\ HasToken(r)
    /\ Refill(r)
    /\ granted' = [granted EXCEPT ![request[r].store] = IF watching THEN @ + 1 ELSE @]
    /\ CallsProvider(FALSE)
    /\ Overtakes(r, Idle)
    /\ UNCHANGED <<now, limitVars, begun, observer, spun, faults>>

\* Seeded fault: the wait is rounded down.
ShortWait(tokens) == AtLeast(1, (Cost - tokens) \div Mint)

\* Until one is minted, rounded up to a whole tick.
Wait(tokens) == (Cost - tokens + Mint - 1) \div Mint

\* None is there: sleep until one is minted.
Sleep(r) ==
    /\ Ready(r)
    /\ ~HasToken(r)
    /\ Refill(r)
    /\ Goes(r, [request[r] EXCEPT !.tries = @ + 1, !.wake = now + Wait(Refilled(r)),
                                  !.asked = Unasked, !.overtaken = FALSE])
    /\ spun' = IF request[r].tries > 0 /\ ~request[r].overtaken THEN spun \cup {r} ELSE spun
    /\ UNCHANGED <<now, limitVars, granted, calls, without, begun, observer, faults>>

\* The loop is over: the call is made without a token.
GoOnWithout(r) ==
    /\ request[r].pc = "slot"
    /\ request[r].tries = MaxTries
    /\ request[r].wake <= now
    /\ CallsProvider(TRUE)
    /\ Goes(r, Idle)
    /\ UNCHANGED <<now, limitVars, bucket, granted, late, spun, begun, observer, faults>>

\* The call to Redis fails before the script has run: on with the local bucket.
\* Or the script has run and its answer is lost: on with the local bucket, or the
\* client of Redis sends the script again, with the time that was read.
RedisFails(r) ==
    /\ Calling(r)
    /\ Fault
    /\ \/ Goes(r, Slot(Home[r])) /\ UNCHANGED <<bucket, late>>
       \/ /\ Ready(r)
          /\ Refill(r)
          /\ \E next \in {Slot(Home[r]), [request[r] EXCEPT !.overtaken = @ \/ HasToken(r)]} :
               IF HasToken(r) THEN Overtakes(r, next) ELSE Goes(r, next)
    /\ UNCHANGED <<now, limitVars, granted, calls, without, spun, begun, observer>>

----------------------------------------------------------------------------
\* No call to Redis is under way for longer than MaxDelay.
Tick ==
    /\ now < MaxTime
    /\ \A r \in Requests : Calling(r) => now < request[r].asked + MaxDelay
    /\ now' = now + 1
    /\ UNCHANGED <<limitVars, throttleVars, request, begun, observer, faults>>

\* An observer begins to count, at any moment.
Watch ==
    /\ ~watching
    /\ watching' = TRUE
    /\ since' = now
    /\ UNCHANGED <<now, limitVars, throttleVars, request, begun, faults>>

Next ==
    \/ Tick
    \/ Watch
    \/ \E r \in Requests :
         \/ \E k \in Keys : ConsumeClient(r, k)
         \/ ConsumeKey(r) \/ CountsInVain(r)
         \/ Ask(r) \/ TakeToken(r) \/ Sleep(r) \/ GoOnWithout(r) \/ RedisFails(r)

Spec == Init /\ [][Next]_vars

----------------------------------------------------------------------------
(* Properties *)

\* The values of the stores, the requests and the history.
TypeOK ==
    /\ now \in Nat
    /\ window \in [Stores -> [Counters -> [count : Nat, resetAt : Nat]]]
    /\ bucket \in [Stores -> [tokens : 0..Capacity, lastRefill : Nat]]
    /\ request \in [Requests -> Request]
    /\ begun \in 0..MaxRequests
    /\ watching \in BOOLEAN
    /\ since \in 0..now
    /\ passed \in [Stores -> [Counters -> Nat]]
    /\ granted \in [Stores -> Nat]
    /\ late \in Nat /\ calls \in Nat /\ without \in Nat
    /\ promise \in [Requests -> Promise]
    /\ spun \subseteq Requests
    /\ faults \in 0..MaxFaults

\* The budgets hold, key and client, whatever else the requests meet: in any
\* interval no longer than a window a store lets at most two windows' budget
\* pass, which is what a fixed window can promise, and one window's if no window
\* of the store begins in it (api-rate-limit.ts:41-66, 131-142).
BudgetKept ==
    \A s \in Stores, c \in Counters :
        watching /\ now < since + Window =>
            /\ passed[s][c] <= 2 * Limit[c]
            /\ window[s][c].resetAt - Window < since => passed[s][c] <= Limit[c]

\* "Otherwise every request would push the reset forward and the window would
\* never close" (api-rate-limit.ts:71-72): whoever comes back at the time a 429
\* named does not meet the window that refused it.  A window of Redis is met for
\* one tick more, the one in which its key expires; who is refused in that very
\* tick is told to wait a whole window (line 91), and may then meet the next one.
ResetIsKept ==
    \A r \in Requests :
        LET p == promise[r]
            w == window[p.store][p.counter]
        IN  p # NoPromise /\ (IF p.store = Redis THEN p.at < now ELSE p.at <= now) =>
              Over(p.store, w) \/ w.resetAt >= p.until + Window

\* What Redis' bucket mints by a clock that is ahead or a call that is delayed.
Loan == Mint * (MaxSkew + MaxDelay)

\* rate-limit.ts:4-12: in any interval a store hands out no more tokens than a
\* full bucket and what the time mints.  Redis: one loan more, and one for every
\* run of the script that stored a time older than the last (lines 80-90), after
\* which the time in between is minted a second time.
ProviderRateKept ==
    \A s \in Stores :
        watching =>
            Cost * granted[s] <=
                Capacity + Mint * (now - since) + (IF s = Redis THEN (1 + late) * Loan ELSE 0)

\* "It cannot spin" (rate-limit.ts:162-163): a request that slept for a token and
\* finds none had it taken by another.
NeverSpins == spun = {}
=============================================================================
