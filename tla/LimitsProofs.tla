---------------------------- MODULE LimitsProofs ----------------------------
(***************************************************************************)
(* What Limits promises, for any number of instances, keys and requests,   *)
(* any budgets, window, rate and burst, and any bound on how far clocks    *)
(* differ and how long a call to Redis takes.  Each property has an        *)
(* invariant of its own that implies it:                                   *)
(*   - BudgetKept: what passed since the observer came is bounded by the   *)
(*     count of the window that was open then, or by that window's budget  *)
(*     and the count of the one that followed;                             *)
(*   - ResetIsKept: a window is the one that refused, or begins when that  *)
(*     one is over;                                                        *)
(*   - ProviderRateKept: the tokens handed out and those that the fastest  *)
(*     clock could have the bucket hand out now are together what was      *)
(*     there, what time minted and the loans;                              *)
(*   - NeverSpins: at the time a sleeper next reads its clock, the bucket  *)
(*     holds a token for it unless another request took one.               *)
(***************************************************************************)
EXTENDS Limits, TLAPS

----------------------------------------------------------------------------
(* Units and ticks *)

\* A bucket holds at least one token when it is full.
LEMMA CapacityHoldsOne == Capacity \in Nat /\ Capacity >= Cost
  <1>1. Capacity \in Nat
    BY ConstantsAssumption DEF Capacity
  <1>2. \A b, m \in Nat : b >= 1 => b * m >= m
    OBVIOUS
  <1> QED
    BY <1>1, <1>2, ConstantsAssumption DEF Capacity

\* What is minted in n ticks.
Minted(n) == Mint * n

\* Minting is linear in the time, and more time mints more.
LEMMA MintedType == \A n \in Int : Minted(n) \in Int
  BY ConstantsAssumption DEF Minted

LEMMA MintedPlus == \A m, n \in Int : Minted(m + n) = Minted(m) + Minted(n)
  <1>1. \A k, m, n \in Int : k * (m + n) = k * m + k * n
    OBVIOUS
  <1> QED
    BY <1>1, ConstantsAssumption DEF Minted

LEMMA MintedMinus == \A m, n \in Int : Minted(m - n) = Minted(m) - Minted(n)
  <1>1. \A k, m, n \in Int : k * (m - n) = k * m - k * n
    OBVIOUS
  <1> QED
    BY <1>1, ConstantsAssumption DEF Minted

LEMMA MintedZero == Minted(0) = 0
  BY ConstantsAssumption DEF Minted

LEMMA MintedOrder == \A m, n \in Int : m <= n <=> Minted(m) <= Minted(n)
  <1>1. Mint \in Int /\ Mint > 0
    BY ConstantsAssumption
  <1>2. \A k, d \in Int : k > 0 => (d >= 0 <=> k * d >= 0)
    OBVIOUS
  <1> SUFFICES ASSUME NEW m \in Int, NEW n \in Int
               PROVE  m <= n <=> Minted(m) <= Minted(n)
    OBVIOUS
  <1>3. n - m >= 0 <=> Minted(n - m) >= 0
    BY <1>1, <1>2 DEF Minted
  <1>4. Minted(n - m) = Minted(n) - Minted(m)
    BY MintedMinus
  <1> QED
    BY <1>3, <1>4, MintedType

LEMMA MintedNat == \A n \in Nat : Minted(n) \in Nat
  <1> SUFFICES ASSUME NEW n \in Nat PROVE Minted(n) \in Nat
    OBVIOUS
  <1>1. Minted(n) \in Int
    BY MintedType
  <1>2. Minted(0) <= Minted(n)
    BY MintedOrder
  <1> QED
    BY <1>1, <1>2, MintedZero

\* The loan is what a reading may be ahead or late, minted.
LEMMA LoanIs ==
    /\ Loan \in Nat
    /\ Loan = Minted(MaxSkew) + Minted(MaxDelay)
    /\ Minted(MaxSkew) \in Nat /\ Minted(MaxDelay) \in Nat
  <1>1. MaxSkew \in Nat /\ MaxDelay \in Nat
    BY ConstantsAssumption
  <1>2. Loan = Minted(MaxSkew + MaxDelay)
    BY DEF Loan, Minted
  <1>3. Minted(MaxSkew + MaxDelay) = Minted(MaxSkew) + Minted(MaxDelay)
    BY <1>1, MintedPlus
  <1>4. Minted(MaxSkew) \in Nat /\ Minted(MaxDelay) \in Nat
    BY <1>1, MintedNat
  <1> QED
    BY <1>2, <1>3, <1>4

\* Who sleeps as long as Wait says has at least what it lacks minted.
LEMMA WaitIsEnough ==
    ASSUME NEW tokens \in Nat, tokens < Cost
    PROVE  Wait(tokens) \in Nat /\ Minted(Wait(tokens)) >= Cost - tokens
  <1> DEFINE n == Cost - tokens + Mint - 1
  <1>1. Mint \in Nat \ {0} /\ n \in Nat
    BY ConstantsAssumption
  <1>2. \A m \in Nat \ {0}, a \in Nat : a \div m \in Nat /\ m * (a \div m) >= a - (m - 1)
    OBVIOUS
  <1>3. n \div Mint \in Nat /\ Mint * (n \div Mint) >= n - (Mint - 1)
    BY <1>1, <1>2
  <1>4. n - (Mint - 1) = Cost - tokens
    BY ConstantsAssumption
  <1> QED
    BY <1>3, <1>4 DEF Wait, Minted

----------------------------------------------------------------------------
(* Types *)

\* Which records a request is at "key" and at "slot".
LEMMA AtKey ==
    ASSUME TypeOK, NEW r \in Requests, request[r].pc = "key"
    PROVE  request[r].key \in Keys /\ request[r].remaining \in Nat
  <1> request[r] \in Request
    BY DEF TypeOK
  <1> QED
    BY DEF Request, Idle, Waiting

LEMMA AtSlot ==
    ASSUME TypeOK, NEW r \in Requests, request[r].pc = "slot"
    PROVE  /\ request[r] \in Waiting
           /\ request[r].store \in Stores
           /\ Home[r] \in Instances
           /\ Skew[Home[r]] \in 0..MaxSkew
  <1>1. request[r] \in Request
    BY DEF TypeOK
  <1>2. request[r] \in Waiting
    BY <1>1 DEF Request, Idle, Waiting
  <1> QED
    BY <1>2, ConstantsAssumption DEF Waiting

\* Who is about to refill a bucket has read a time.
LEMMA AtBucket ==
    ASSUME TypeOK, NEW r \in Requests, Ready(r)
    PROVE  /\ request[r].pc = "slot"
           /\ request[r].store \in Stores
           /\ Reading(r) \in Nat
           /\ Elapsed(r) \in Nat
           /\ bucket[request[r].store] \in [tokens : 0..Capacity, lastRefill : Nat]
           /\ Minted(Elapsed(r)) \in Nat
           /\ Refilled(r) \in 0..Capacity
           /\ Left(r) \in 0..Capacity
           /\ StoredTime(r) \in Nat
  <1> DEFINE s == request[r].store
  <1>1. request[r].pc = "slot" /\ request[r] \in Waiting /\ s \in Stores /\ Skew[Home[r]] \in Nat
    BY AtSlot, ConstantsAssumption DEF Ready
  <1>2. s = Redis => request[r].asked \in Nat
    BY <1>1 DEF Ready, Calling, Waiting
  <1>3. Reading(r) \in Nat
    BY <1>1, <1>2 DEF Reading, TypeOK
  <1>4. bucket[s] \in [tokens : 0..Capacity, lastRefill : Nat]
    BY <1>1 DEF TypeOK
  <1>5. Elapsed(r) \in Nat
    BY <1>3, <1>4 DEF Elapsed, AtLeast
  <1>6. Minted(Elapsed(r)) \in Nat
    BY <1>5, MintedNat
  <1>7. Refilled(r) \in 0..Capacity
    <2>1. Refilled(r) = AtMost(Capacity, bucket[s].tokens + Minted(Elapsed(r)))
      BY DEF Refilled, Minted
    <2> QED
      BY <1>4, <1>6, <2>1, CapacityHoldsOne DEF AtMost
  <1>8. Left(r) \in 0..Capacity
    BY <1>7, CapacityHoldsOne, ConstantsAssumption DEF Left, HasToken
  <1>9. StoredTime(r) \in Nat
    BY <1>3, <1>4 DEF StoredTime, AtLeast
  <1> QED
    BY <1>1, <1>3, <1>4, <1>5, <1>6, <1>7, <1>8, <1>9

\* A window stays a window when it is hit.
LEMMA HitType ==
    ASSUME now \in Nat, NEW s, NEW w \in [count : Nat, resetAt : Nat]
    PROVE  Hit(s, w) \in [count : Nat \ {0}, resetAt : Nat]
  BY ConstantsAssumption DEF Hit, Over

\* What counting does to the windows.
LEMMA Counts ==
    ASSUME TypeOK, NEW c \in Counters, NEW hits
    PROVE  /\ Counted(c, hits) \in [Stores -> [Counters -> [count : Nat, resetAt : Nat]]]
           /\ \A s \in Stores, d \in Counters :
                Counted(c, hits)[s][d] =
                  IF s \in hits /\ d = c THEN Hit(s, window[s][d]) ELSE window[s][d]
  <1>1. ASSUME NEW s \in Stores, NEW d \in Counters
        PROVE  /\ window[s][d] \in [count : Nat, resetAt : Nat]
               /\ Hit(s, window[s][d]) \in [count : Nat, resetAt : Nat]
    <2>1. window[s][d] \in [count : Nat, resetAt : Nat]
      BY DEF TypeOK
    <2>2. Hit(s, window[s][d]) \in [count : Nat \ {0}, resetAt : Nat]
      BY <2>1, HitType DEF TypeOK
    <2> QED
      BY <2>1, <2>2
  <1>2. \A s \in Stores : window[s] \in [Counters -> [count : Nat, resetAt : Nat]]
    BY DEF TypeOK
  <1>3. \A s \in Stores :
           Counted(c, hits)[s] =
             IF s \in hits THEN [window[s] EXCEPT ![c] = Hit(s, window[s][c])] ELSE window[s]
    BY DEF Counted
  <1>4. \A s \in Stores, d \in Counters :
           Counted(c, hits)[s][d] =
             IF s \in hits /\ d = c THEN Hit(s, window[s][d]) ELSE window[s][d]
    BY <1>2, <1>3
  <1>5. ASSUME NEW s \in Stores
        PROVE  Counted(c, hits)[s] \in [Counters -> [count : Nat, resetAt : Nat]]
    <2>1. Hit(s, window[s][c]) \in [count : Nat, resetAt : Nat]
      BY <1>1
    <2>2. [window[s] EXCEPT ![c] = Hit(s, window[s][c])] \in [Counters -> [count : Nat, resetAt : Nat]]
      BY <1>2, <2>1
    <2> QED
      BY <1>2, <1>3, <2>2
  <1>6. Counted(c, hits) \in [Stores -> [Counters -> [count : Nat, resetAt : Nat]]]
    BY <1>5 DEF Counted
  <1> QED
    BY <1>4, <1>6

\* What a call to consume does to the windows.
LEMMA Consumes ==
    ASSUME TypeOK, NEW r \in Requests, NEW c \in Counters,
           NEW from \in Reach(r), NEW hits, hits \subseteq {from, Redis}, from \in hits,
           Consume(r, c, from, hits)
    PROVE  /\ from \in Stores /\ from \in hits
           /\ window' \in [Stores -> [Counters -> [count : Nat, resetAt : Nat]]]
           /\ \A s \in Stores, d \in Counters :
                window'[s][d] = IF s \in hits /\ d = c THEN Hit(s, window[s][d]) ELSE window[s][d]
           /\ faults' \in 0..MaxFaults
  <1>1. from \in Stores
    BY ConstantsAssumption DEF Reach, Stores
  <1>2. window' = Counted(c, hits)
    BY DEF Consume
  <1>3. faults' \in 0..MaxFaults
    BY ConstantsAssumption DEF Consume, Fault, TypeOK
  <1> QED
    BY <1>1, <1>2, <1>3, Counts

\* What a refill leaves: nothing negative, nothing above the capacity.
LEMMA Refills ==
    ASSUME TypeOK, NEW r \in Requests, Ready(r), Refill(r)
    PROVE  /\ bucket' \in [Stores -> [tokens : 0..Capacity, lastRefill : Nat]]
           /\ bucket'[request[r].store].tokens = Left(r)
           /\ bucket'[request[r].store].lastRefill = StoredTime(r)
           /\ \A t \in Stores \ {request[r].store} : bucket'[t] = bucket[t]
           /\ late' \in Nat
  <1>1. /\ request[r].store \in Stores /\ Left(r) \in 0..Capacity /\ StoredTime(r) \in Nat
    BY AtBucket
  <1> QED
    BY <1>1 DEF Refill, TypeOK

\* The history of a verdict.
LEMMA LetsPassType ==
    ASSUME TypeOK, NEW s \in Stores, NEW c \in Counters, LetsPass(s, c)
    PROVE  passed' \in [Stores -> [Counters -> Nat]] /\ promise' \in [Requests -> Promise]
  <1>1. passed[s] \in [Counters -> Nat] /\ passed[s][c] + 1 \in Nat
    BY DEF TypeOK
  <1>2. [passed[s] EXCEPT ![c] = @ + 1] \in [Counters -> Nat]
    BY <1>1
  <1> QED
    BY <1>2 DEF LetsPass, TypeOK

LEMMA RefusesType ==
    ASSUME TypeOK, NEW r \in Requests, NEW s \in Stores, NEW c \in Counters, Refuses(r, s, c),
           window' \in [Stores -> [Counters -> [count : Nat, resetAt : Nat]]]
    PROVE  /\ passed' \in [Stores -> [Counters -> Nat]] /\ promise' \in [Requests -> Promise]
           /\ request' \in [Requests -> Request]
  <1> DEFINE until == window'[s][c].resetAt
             at == IF until > now THEN until ELSE now + Window
  <1>1. until \in Nat /\ at \in Nat
    BY ConstantsAssumption DEF TypeOK
  <1> HIDE DEF at, until
  <1>2. [at |-> at, until |-> until, store |-> s, counter |-> c] \in Promise
    BY <1>1 DEF Promise
  <1> USE DEF at, until
  <1>3. promise' = [promise EXCEPT ![r] = [at |-> at, until |-> until, store |-> s, counter |-> c]]
    BY DEF Refuses
  <1>4. request' \in [Requests -> Request]
    BY DEF Refuses, Goes, Request, TypeOK
  <1> HIDE DEF at, until
  <1>5. promise' \in [Requests -> Promise]
    BY <1>2, <1>3 DEF TypeOK
  <1> QED
    BY <1>4, <1>5 DEF Refuses, TypeOK

\* The counts of calls.
LEMMA CallsType ==
    ASSUME TypeOK, NEW free \in BOOLEAN, CallsProvider(free)
    PROVE  calls' \in Nat /\ without' \in Nat
  BY DEF CallsProvider, TypeOK

\* A request that comes to a bucket, and one that sees another take a token.
LEMMA SlotType ==
    ASSUME TypeOK, NEW s \in Stores
    PROVE  Slot(s) \in Waiting /\ Slot(s) \in Request
  BY ConstantsAssumption DEF Slot, Waiting, Request, Unasked, TypeOK

LEMMA OvertakesType ==
    ASSUME TypeOK, NEW r \in Requests, NEW record \in Request, Overtakes(r, record)
    PROVE  request' \in [Requests -> Request]
  <1>1. ASSUME NEW q \in Requests, request[q].pc = "slot"
        PROVE  [request[q] EXCEPT !.overtaken = TRUE] \in Request
    <2>1. request[q] \in Waiting
      BY <1>1, AtSlot
    <2>2. [request[q] EXCEPT !.overtaken = TRUE] \in Waiting
      BY <2>1 DEF Waiting
    <2> QED
      BY <2>2 DEF Request
  <1> QED
    BY <1>1 DEF Overtakes, TypeOK

\* Every variable keeps its type.
LEMMA TypeInit == Init => TypeOK
  <1> SUFFICES ASSUME Init PROVE TypeOK
    OBVIOUS
  <1>1. bucket \in [Stores -> [tokens : 0..Capacity, lastRefill : Nat]]
    BY CapacityHoldsOne DEF Init
  <1>2. MaxRequests \in Nat /\ MaxFaults \in Nat
    BY ConstantsAssumption
  <1>3. begun \in 0..MaxRequests /\ faults \in 0..MaxFaults /\ now = 0 /\ since \in 0..now
    BY <1>2 DEF Init
  <1>4. /\ window \in [Stores -> [Counters -> [count : Nat, resetAt : Nat]]]
        /\ passed \in [Stores -> [Counters -> Nat]]
    BY DEF Init
  <1>5. request \in [Requests -> Request] /\ promise \in [Requests -> Promise]
    BY DEF Init, Request, Promise
  <1>6. /\ watching \in BOOLEAN /\ granted \in [Stores -> Nat]
        /\ late \in Nat /\ calls \in Nat /\ without \in Nat /\ spun \subseteq Requests /\ now \in Nat
    BY DEF Init
  <1> QED
    BY <1>1, <1>3, <1>4, <1>5, <1>6 DEF TypeOK

LEMMA TypeStep == TypeOK /\ [Next]_vars => TypeOK'
  <1> SUFFICES ASSUME TypeOK, [Next]_vars PROVE TypeOK'
    OBVIOUS
  <1>1. CASE Tick
    BY <1>1 DEF Tick, TypeOK, limitVars, throttleVars, observer, Promise
  <1>2. CASE Watch
    BY <1>2 DEF Watch, TypeOK, limitVars, throttleVars, Promise
  <1>3. ASSUME NEW r \in Requests, NEW k \in Keys, ConsumeClient(r, k) PROVE TypeOK'
    <2> DEFINE Verdict(from) ==
                 \/ /\ Allowed(from, Client)
                    /\ Goes(r, [pc |-> "key", key |-> k, remaining |-> Remaining(from, Client)])
                    /\ LetsPass(from, Client)
                 \/ ~Allowed(from, Client) /\ Refuses(r, from, Client)
    <2>0. PICK from \in Reach(r) : \E hits \in {{from}, {from, Redis}} :
            Consume(r, Client, from, hits) /\ Verdict(from)
      BY <1>3 DEF ConsumeClient
    <2>1. PICK hits : /\ hits \subseteq {from, Redis} /\ from \in hits
                      /\ Consume(r, Client, from, hits) /\ Verdict(from)
      BY <2>0
    <2> HIDE DEF Verdict
    <2>2. Client \in Counters
      BY DEF Counters
    <2>3. /\ from \in Stores
          /\ window' \in [Stores -> [Counters -> [count : Nat, resetAt : Nat]]]
          /\ faults' \in 0..MaxFaults
      BY <2>0, <2>1, <2>2, Consumes
    <2>4. Remaining(from, Client) \in Nat
      BY <2>2, <2>3, ConstantsAssumption DEF Remaining, AtLeast
    <2>5. [pc |-> "key", key |-> k, remaining |-> Remaining(from, Client)] \in Request
      BY <2>4 DEF Request
    <2>6. passed' \in [Stores -> [Counters -> Nat]] /\ promise' \in [Requests -> Promise]
      BY <2>1, <2>2, <2>3, LetsPassType, RefusesType DEF Verdict
    <2>7. request' \in [Requests -> Request]
      BY <2>1, <2>2, <2>3, <2>5, RefusesType DEF Verdict, Goes, TypeOK
    <2>8. begun' \in 0..MaxRequests
      BY <1>3, ConstantsAssumption DEF ConsumeClient, TypeOK
    <2> QED
      BY <1>3, <2>3, <2>6, <2>7, <2>8 DEF ConsumeClient, TypeOK, throttleVars, observer
  <1>4. ASSUME NEW r \in Requests, ConsumeKey(r) PROVE TypeOK'
    <2> DEFINE k == request[r].key
               slot == Slot(IF UseRedis THEN Redis ELSE Home[r])
    <2>0. k \in Keys /\ k \in Counters
      BY <1>4, AtKey DEF ConsumeKey, Counters
    <2> DEFINE Verdict(from) ==
                 IF ReportsKey(from, k, request[r].remaining) /\ ~Allowed(from, k)
                 THEN Refuses(r, from, k)
                 ELSE LetsPass(from, k) /\ Goes(r, slot)
    <2>9. PICK from \in Reach(r) : \E hits \in {{from}, {from, Redis}} :
            Consume(r, k, from, hits) /\ Verdict(from)
      BY <1>4 DEF ConsumeKey
    <2>1. PICK hits : /\ hits \subseteq {from, Redis} /\ from \in hits
                      /\ Consume(r, k, from, hits) /\ Verdict(from)
      BY <2>9
    <2> HIDE DEF Verdict
    <2>3. /\ from \in Stores
          /\ window' \in [Stores -> [Counters -> [count : Nat, resetAt : Nat]]]
          /\ faults' \in 0..MaxFaults
      BY <2>0, <2>9, <2>1, Consumes
    <2>4. slot \in Request
      BY SlotType, ConstantsAssumption DEF Stores
    <2> HIDE DEF slot, k
    <2>6. passed' \in [Stores -> [Counters -> Nat]] /\ promise' \in [Requests -> Promise]
      BY <2>0, <2>1, <2>3, LetsPassType, RefusesType DEF Verdict
    <2>7. request' \in [Requests -> Request]
      BY <2>0, <2>1, <2>3, <2>4, RefusesType DEF Verdict, Goes, TypeOK
    <2> QED
      BY <1>4, <2>3, <2>6, <2>7 DEF ConsumeKey, TypeOK, throttleVars, observer
  <1>5. ASSUME NEW r \in Requests, CountsInVain(r) PROVE TypeOK'
    <2>1. PICK c \in Counters : window' = Counted(c, {Redis})
      <3>1. request[r].pc = "key" => request[r].key \in Counters
        BY AtKey DEF Counters
      <3> QED
        BY <1>5, <3>1 DEF CountsInVain, Counters
    <2>2. window' \in [Stores -> [Counters -> [count : Nat, resetAt : Nat]]]
      BY <2>1, Counts
    <2>3. faults' \in 0..MaxFaults
      BY <1>5, ConstantsAssumption DEF CountsInVain, Fault, TypeOK
    <2> QED
      BY <1>5, <2>2, <2>3 DEF CountsInVain, TypeOK, throttleVars, observer
  <1>6. ASSUME NEW r \in Requests, Ask(r) PROVE TypeOK'
    <2>1. request[r] \in Waiting
      BY <1>6, AtSlot DEF Ask
    <2>2. [request[r] EXCEPT !.asked = now] \in Waiting
      BY <2>1 DEF Waiting, TypeOK
    <2>3. request' \in [Requests -> Request]
      BY <1>6, <2>2 DEF Ask, Goes, Request, TypeOK
    <2> QED
      BY <1>6, <2>3 DEF Ask, TypeOK, limitVars, throttleVars, observer
  <1>7. ASSUME NEW r \in Requests, TakeToken(r) PROVE TypeOK'
    <2>1. request[r].store \in Stores
      BY <1>7, AtBucket DEF TakeToken
    <2>2. request' \in [Requests -> Request]
      BY <1>7, OvertakesType DEF TakeToken, Request
    <2>3. granted' \in [Stores -> Nat]
      BY <1>7, <2>1 DEF TakeToken, TypeOK
    <2>4. bucket' \in [Stores -> [tokens : 0..Capacity, lastRefill : Nat]] /\ late' \in Nat
      BY <1>7, Refills DEF TakeToken
    <2>5. calls' \in Nat /\ without' \in Nat
      BY <1>7, CallsType DEF TakeToken
    <2> QED
      BY <1>7, <2>2, <2>3, <2>4, <2>5 DEF TakeToken, TypeOK, limitVars, observer
  <1>8. ASSUME NEW r \in Requests, Sleep(r) PROVE TypeOK'
    <2> DEFINE tokens == Refilled(r)
               woken == [request[r] EXCEPT !.tries = @ + 1, !.wake = now + Wait(tokens),
                                           !.asked = Unasked, !.overtaken = FALSE]
    <2>1. /\ request[r] \in Waiting /\ tokens \in Nat /\ tokens < Cost
          /\ request[r].tries < MaxTries
      BY <1>8, AtSlot, AtBucket, CapacityHoldsOne, ConstantsAssumption DEF Sleep, Ready, HasToken
    <2> HIDE DEF tokens
    <2>2. now + Wait(tokens) \in Nat
      BY <2>1, WaitIsEnough DEF TypeOK
    <2>3. request[r].tries + 1 \in 0..MaxTries
      BY <2>1, ConstantsAssumption DEF Waiting
    <2>4. woken \in Waiting
      BY <2>1, <2>2, <2>3 DEF Waiting
    <2>5. Goes(r, woken)
      BY <1>8 DEF Sleep, tokens
    <2> HIDE DEF woken
    <2>6. request' \in [Requests -> Request]
      BY <2>4, <2>5 DEF Goes, Request, TypeOK
    <2>7. bucket' \in [Stores -> [tokens : 0..Capacity, lastRefill : Nat]] /\ late' \in Nat
      BY <1>8, Refills DEF Sleep
    <2> QED
      BY <1>8, <2>6, <2>7 DEF Sleep, TypeOK, limitVars, observer
  <1>9. ASSUME NEW r \in Requests, GoOnWithout(r) PROVE TypeOK'
    <2>1. request' \in [Requests -> Request]
      BY <1>9 DEF GoOnWithout, Goes, Request, TypeOK
    <2>2. calls' \in Nat /\ without' \in Nat
      BY <1>9, CallsType DEF GoOnWithout
    <2> QED
      BY <1>9, <2>1, <2>2 DEF GoOnWithout, TypeOK, limitVars, observer
  <1>10. ASSUME NEW r \in Requests, RedisFails(r) PROVE TypeOK'
    <2> DEFINE again == [request[r] EXCEPT !.overtaken = @ \/ HasToken(r)]
    <2>1. Slot(Home[r]) \in Request
      BY SlotType, ConstantsAssumption DEF Stores
    <2>2. request[r] \in Waiting
      BY <1>10, AtSlot DEF RedisFails, Calling
    <2>3. again \in Waiting
      BY <2>2 DEF Waiting
    <2>4. again \in Request
      BY <2>3 DEF Request
    <2>5. faults' \in 0..MaxFaults
      BY <1>10, ConstantsAssumption DEF RedisFails, Fault, TypeOK
    <2>6. CASE Goes(r, Slot(Home[r])) /\ UNCHANGED <<bucket, late>>
      <3>1. request' \in [Requests -> Request]
        BY <2>1, <2>6 DEF Goes, TypeOK
      <3> QED
        BY <1>10, <2>5, <2>6, <3>1 DEF RedisFails, TypeOK, limitVars, observer
    <2>7. CASE /\ Ready(r) /\ Refill(r)
               /\ \E next \in {Slot(Home[r]), again} :
                    IF HasToken(r) THEN Overtakes(r, next) ELSE Goes(r, next)
      <3> HIDE DEF again
      <3>1. PICK next \in Request : Overtakes(r, next) \/ Goes(r, next)
        BY <2>1, <2>4, <2>7
      <3>2. request' \in [Requests -> Request]
        BY <3>1, OvertakesType DEF Goes, TypeOK
      <3>3. bucket' \in [Stores -> [tokens : 0..Capacity, lastRefill : Nat]] /\ late' \in Nat
        BY <2>7, Refills
      <3> QED
        BY <1>10, <2>5, <3>2, <3>3 DEF RedisFails, TypeOK, limitVars, observer
    <2> QED
      BY <1>10, <2>6, <2>7 DEF RedisFails
  <1>11. CASE UNCHANGED vars
    BY <1>11 DEF vars, limitVars, throttleVars, observer, TypeOK
  <1> QED
    BY <1>1, <1>2, <1>3, <1>4, <1>5, <1>6, <1>7, <1>8, <1>9, <1>10, <1>11 DEF Next

\* Windows, buckets, requests and history keep their types.
THEOREM LimitsTypeCorrect == Spec => []TypeOK
  <1>1. TypeOK /\ [Next]_vars => TypeOK'
    BY TypeStep
  <1> QED
    BY TypeInit, <1>1, PTL DEF Spec

----------------------------------------------------------------------------
(* The provider's rate *)

\* A request waits at the shared bucket or at its own instance's, and it calls
\* Redis for the shared one only.
AtHome ==
    \A r \in Requests : request[r].pc = "slot" =>
        /\ request[r].store \in {Redis, Home[r]}
        /\ Calling(r) => request[r].store = Redis

\* A call under way read its time no longer than MaxDelay ago.
CallsInTime ==
    \A r \in Requests : Calling(r) =>
        request[r].asked <= now /\ now <= request[r].asked + MaxDelay

\* How far the time stored with a bucket may be ahead, and what that mints.
Lead(s) == IF s = Redis THEN MaxSkew ELSE Skew[s]
Slack(s) == IF s = Redis THEN Loan ELSE 0

\* No clock is further ahead than it may be.
ClockInv == \A s \in Stores : bucket[s].lastRefill <= now + Lead(s)

\* What the fastest clock could have the bucket hand out now.
Available(s) ==
    AtMost(Capacity + Slack(s),
           bucket[s].tokens + (Minted(now + Lead(s)) - Minted(bucket[s].lastRefill)))

\* What the observer allows a store.
Allowance(s) ==
    Capacity + Minted(now - since) + (IF s = Redis THEN (1 + late) * Loan ELSE 0)

\* The tokens handed out, and what the bucket could hand out now.
RateInv ==
    /\ ~watching => \A s \in Stores : granted[s] = 0
    /\ watching => \A s \in Stores : Cost * granted[s] + Available(s) <= Allowance(s)

\* The time request r reads next, or has read.
NextReading(r) ==
    Skew[Home[r]] + (IF request[r].asked # Unasked THEN request[r].asked ELSE request[r].wake)

\* What a bucket holds for a reading.
Holds(s, reading) ==
    bucket[s].tokens + AtLeast(0, Minted(reading) - Minted(bucket[s].lastRefill))

\* When its sleep is over, by its own clock, a request finds a token.
WakeInv ==
    \A r \in Requests :
        request[r].pc = "slot" /\ request[r].tries > 0 /\ ~request[r].overtaken =>
            Holds(request[r].store, NextReading(r)) >= Cost

ThrottleInv ==
    TypeOK /\ AtHome /\ CallsInTime /\ ClockInv /\ RateInv /\ WakeInv /\ NeverSpins

\* How far ahead a store's time may be.
LEMMA LeadType ==
    ASSUME NEW s \in Stores
    PROVE  Lead(s) \in 0..MaxSkew /\ Slack(s) \in Nat
  <1>1. s # Redis => s \in Instances
    BY DEF Stores
  <1> QED
    BY <1>1, LoanIs, ConstantsAssumption DEF Lead, Slack

\* A refill in units: tokens and what the reading is ahead, up to the capacity.
LEMMA RefilledIs ==
    ASSUME TypeOK, NEW r \in Requests, Ready(r)
    PROVE  Refilled(r) = AtMost(Capacity, Holds(request[r].store, Reading(r)))
  <1> DEFINE b == bucket[request[r].store]
  <1>1. Reading(r) \in Int /\ b.lastRefill \in Int
    BY AtBucket
  <1>2. Minted(Elapsed(r)) = AtLeast(0, Minted(Reading(r)) - Minted(b.lastRefill))
    <2>0. /\ Minted(Reading(r) - b.lastRefill) = Minted(Reading(r)) - Minted(b.lastRefill)
          /\ Minted(Reading(r)) \in Int /\ Minted(b.lastRefill) \in Int
          /\ Reading(r) <= b.lastRefill <=> Minted(Reading(r)) <= Minted(b.lastRefill)
      BY <1>1, MintedMinus, MintedType, MintedOrder
    <2>1. CASE Reading(r) <= b.lastRefill
      <3>1. Elapsed(r) = 0
        BY <1>1, <2>1 DEF Elapsed, AtLeast
      <3> QED
        BY <2>0, <2>1, <3>1, MintedZero DEF AtLeast
    <2>2. CASE ~(Reading(r) <= b.lastRefill)
      <3>1. Elapsed(r) = Reading(r) - b.lastRefill
        BY <1>1, <2>2 DEF Elapsed, AtLeast
      <3> QED
        BY <2>0, <2>2, <3>1 DEF AtLeast
    <2> QED
      BY <2>1, <2>2
  <1> QED
    BY <1>2 DEF Refilled, Holds, Minted

\* A reading is neither further ahead than the store allows nor, for Redis, later
\* than a call may take; a local one is the instance's own time.
LEMMA ReadingBounds ==
    ASSUME TypeOK, AtHome, CallsInTime, NEW r \in Requests, Ready(r)
    PROVE  LET s == request[r].store
           IN  /\ Reading(r) <= now + Lead(s)
               /\ s = Redis => now - MaxDelay <= Reading(r)
               /\ s # Redis => s = Home[r] /\ Reading(r) = now + Lead(s)
  <1> DEFINE s == request[r].store
  <1>1. /\ request[r] \in Waiting /\ Skew[Home[r]] \in 0..MaxSkew /\ s \in {Redis, Home[r]}
        /\ now \in Nat
    BY AtBucket, AtSlot DEF AtHome, TypeOK
  <1>2. s = Redis => /\ request[r].asked \in Nat
                     /\ request[r].asked <= now /\ now <= request[r].asked + MaxDelay
    BY <1>1 DEF CallsInTime, Ready, Calling, Waiting
  <1> QED
    BY <1>1, <1>2, ConstantsAssumption DEF Reading, Lead

\* A refill keeps the stored time in bounds.
LEMMA ClockRefill ==
    ASSUME TypeOK, AtHome, CallsInTime, ClockInv, NEW r \in Requests, Ready(r), Refill(r),
           now' = now
    PROVE  ClockInv'
  <1> SUFFICES ASSUME NEW t \in Stores PROVE bucket'[t].lastRefill <= now + Lead(t)
    BY DEF ClockInv, Lead
  <1>1. CASE t = request[r].store
    <2>1. bucket'[t].lastRefill = StoredTime(r)
      BY <1>1, Refills
    <2>2. StoredTime(r) \in {Reading(r), bucket[t].lastRefill}
      BY <1>1 DEF StoredTime, AtLeast
    <2> QED
      BY <1>1, <2>1, <2>2, ReadingBounds DEF ClockInv
  <1>2. CASE t # request[r].store
    BY <1>2, Refills DEF ClockInv
  <1> QED
    BY <1>1, <1>2

\* A refill hands out no more than it takes from the bucket, and no more is
\* available after it than before, but for the loan of a late run.
LEMMA RateRefill ==
    ASSUME TypeOK, AtHome, CallsInTime, ClockInv, RateInv, NEW r \in Requests, Ready(r), Refill(r),
           \A t \in Stores :
             \/ granted'[t] = granted[t]
             \/ watching /\ t = request[r].store /\ HasToken(r) /\ granted'[t] = granted[t] + 1,
           UNCHANGED <<now, observer>>
    PROVE  RateInv'
  <1> DEFINE s == request[r].store
  <1>1. s \in Stores /\ Reading(r) \in Nat /\ Left(r) \in 0..Capacity /\ Refilled(r) \in 0..Capacity
    BY AtBucket
  <1>2. now' = now /\ watching' = watching /\ since' = since
    BY DEF observer
  <1>3. CASE ~watching
    BY <1>2, <1>3 DEF RateInv
  <1>4. CASE watching
    <2> SUFFICES ASSUME NEW t \in Stores
                 PROVE  Cost * granted'[t] + Available(t)' <= Allowance(t)'
      BY <1>2, <1>4 DEF RateInv
    <2>1. Cost * granted[t] + Available(t) <= Allowance(t)
      BY <1>4 DEF RateInv
    <2>2. late' \in Nat /\ late \in Nat /\ late' >= late /\ granted[t] \in Nat
      BY Refills DEF Refill, TypeOK
    <2>3. /\ Allowance(t)' \in Int /\ Allowance(t) \in Int
          /\ Allowance(t)' >= Allowance(t)
          /\ t = Redis /\ late' = late + 1 => Allowance(t)' = Allowance(t) + Loan
      <3>1. \A l, n, m \in Nat : /\ (1 + n) * l \in Nat
                                 /\ m >= n => (1 + m) * l >= (1 + n) * l
                                 /\ (1 + (n + 1)) * l = (1 + n) * l + l
        OBVIOUS
      <3>2. /\ (1 + late) * Loan \in Nat /\ (1 + late') * Loan \in Nat
            /\ (1 + late') * Loan >= (1 + late) * Loan
            /\ late' = late + 1 => (1 + late') * Loan = (1 + late) * Loan + Loan
        BY <2>2, <3>1, LoanIs
      <3>3. Minted(now - since) \in Int
        BY MintedType DEF TypeOK
      <3> QED
        BY <1>2, <3>2, <3>3, CapacityHoldsOne, LoanIs DEF Allowance, Loan, Minted
    <2>4. CASE t # s
      <3>1. bucket'[t] = bucket[t] /\ granted'[t] = granted[t]
        BY <2>4, Refills
      <3>2. Available(t)' = Available(t)
        BY <1>2, <3>1 DEF Available, Lead, Slack, Loan, Minted
      <3>3. Cost * granted[t] \in Int /\ Available(t) \in Int
        <4>1. Cost * granted[t] \in Int
          BY <2>2, ConstantsAssumption
        <4>2. now + Lead(t) \in Int /\ bucket[t].lastRefill \in Nat /\ bucket[t].tokens \in Nat
          BY LeadType, CapacityHoldsOne DEF TypeOK
        <4>3. Minted(now + Lead(t)) \in Int /\ Minted(bucket[t].lastRefill) \in Int
          BY <4>2, MintedType, MintedOrder
        <4> QED
          BY <4>1, <4>2, <4>3, LeadType, CapacityHoldsOne DEF Available, AtMost
      <3> QED
        BY <2>1, <2>3, <3>1, <3>2, <3>3
    <2>5. CASE t = s
      <3> DEFINE l == Minted(bucket[t].lastRefill)
                 p == Minted(Reading(r))
                 q == Minted(StoredTime(r))
                 f == Minted(now + Lead(t))
                 k == bucket[t].tokens
                 taken == IF HasToken(r) THEN Cost ELSE 0
      <3>1. /\ now \in Nat /\ Lead(t) \in 0..MaxSkew /\ bucket[t].lastRefill \in Nat /\ k \in 0..Capacity
            /\ StoredTime(r) \in Nat
        BY <2>5, LeadType, AtBucket DEF TypeOK
      <3>2. /\ Reading(r) <= now + Lead(t) /\ bucket[t].lastRefill <= now + Lead(t)
            /\ t = Redis => now - MaxDelay <= Reading(r)
            /\ t # Redis => Reading(r) = now + Lead(t)
        BY <2>5, ReadingBounds DEF ClockInv
      <3>3. l \in Int /\ p \in Int /\ q \in Int /\ f \in Int /\ l <= f /\ p <= f
        <4>1. now + Lead(t) \in Int
          BY <3>1
        <4> QED
          BY <1>1, <3>1, <3>2, <4>1, MintedType, MintedOrder
      <3>4. t = Redis => f <= p + Loan
        <4>1. ASSUME t = Redis PROVE f <= p + Loan
          <5>1. now + Lead(t) = now + MaxSkew /\ now + MaxSkew <= Reading(r) + (MaxSkew + MaxDelay)
            BY <1>1, <3>1, <3>2, <4>1, ConstantsAssumption DEF Lead
          <5>2. MaxSkew + MaxDelay \in Int /\ Reading(r) \in Int /\ now + MaxSkew \in Int
            BY <1>1, <3>1, ConstantsAssumption
          <5>3. Minted(Reading(r) + (MaxSkew + MaxDelay)) = p + Loan
            <6>1. Minted(Reading(r) + (MaxSkew + MaxDelay)) = p + Minted(MaxSkew + MaxDelay)
              BY <5>2, MintedPlus
            <6> QED
              BY <6>1 DEF Loan, Minted
          <5>4. Minted(now + MaxSkew) <= Minted(Reading(r) + (MaxSkew + MaxDelay))
            BY <5>1, <5>2, MintedType, MintedOrder
          <5> QED
            BY <5>1, <5>3, <5>4
        <4> QED
          BY <4>1
      <3>5. Left(r) + taken = Refilled(r) /\ taken \in Nat
        BY <1>1, ConstantsAssumption DEF Left
      <3>6. Refilled(r) = AtMost(Capacity, k + AtLeast(0, p - l))
        BY <2>5, RefilledIs DEF Holds
      <3>7. Cost * granted'[t] <= Cost * granted[t] + taken
        <4>1. \A c, g \in Nat : c * g \in Nat /\ c * (g + 1) = c * g + c
          OBVIOUS
        <4> QED
          BY <2>2, <2>5, <4>1, ConstantsAssumption
      <3>8. /\ Available(t)' = AtMost(Capacity + Slack(t), Left(r) + (f - q))
            /\ Available(t) = AtMost(Capacity + Slack(t), k + (f - l))
        <4>1. bucket'[t].tokens = Left(r) /\ bucket'[t].lastRefill = StoredTime(r)
          BY <2>5, Refills
        <4> QED
          BY <1>2, <4>1 DEF Available, Lead, Slack, Loan, Minted
      <3>9. Cost * granted[t] \in Nat /\ Cost * granted'[t] \in Nat
        <4>1. \A c, g \in Nat : c * g \in Nat
          OBVIOUS
        <4>2. granted'[t] \in Nat
          BY <2>2
        <4> QED
          BY <2>2, <4>1, <4>2, ConstantsAssumption
      <3>10. /\ p >= l <=> Reading(r) >= bucket[t].lastRefill
             /\ p < l <=> Reading(r) < bucket[t].lastRefill
        BY <1>1, <3>1, MintedType, MintedOrder
      <3>11. CASE t = Redis
        <4>1. Slack(t) = Loan /\ q = p
          BY <2>5, <3>11 DEF Slack, StoredTime
        <4>2. late' = IF Reading(r) < bucket[t].lastRefill THEN late + 1 ELSE late
          BY <1>4, <2>5, <3>11 DEF Refill
        <4>3. Left(r) \in Nat /\ Loan \in Nat /\ Capacity \in Nat
          BY <1>1, LoanIs, CapacityHoldsOne
        <4>4. Allowance(t)' >= Allowance(t) + (IF p < l THEN Loan ELSE 0)
          BY <2>3, <3>10, <3>11, <4>2, <4>3
        <4> HIDE DEF l, p, q, f, k, taken
        <4>5. /\ p >= l => Available(t)' + taken <= Available(t)
              /\ p < l => Available(t)' + taken <= Available(t) + Loan
          BY <3>1, <3>3, <3>4, <3>5, <3>6, <3>8, <3>11, <4>1, <4>3 DEF AtMost, AtLeast
        <4>6. Available(t) \in Int /\ Available(t)' \in Int
          BY <3>1, <3>3, <3>8, <4>1, <4>3, CapacityHoldsOne DEF AtMost
        <4> QED
          BY <2>1, <2>3, <3>3, <3>5, <3>7, <3>9, <4>3, <4>4, <4>5, <4>6
      <3>12. CASE t # Redis
        <4>1. Slack(t) = 0 /\ p = f
          BY <3>2, <3>12 DEF Slack
        <4>2. q = p
          <5>1. StoredTime(r) = AtLeast(Reading(r), bucket[t].lastRefill)
            BY <2>5, <3>12 DEF StoredTime
          <5>2. Reading(r) >= bucket[t].lastRefill
            BY <1>1, <3>1, <3>2, <3>12
          <5> QED
            BY <1>1, <3>1, <5>1, <5>2 DEF AtLeast
        <4>3. Left(r) \in Nat /\ Capacity \in Nat /\ p >= l
          BY <1>1, <3>3, <4>1, CapacityHoldsOne
        <4> HIDE DEF l, p, q, f, k, taken
        <4>4. Available(t)' + taken <= Available(t)
          BY <3>1, <3>3, <3>5, <3>6, <3>8, <4>1, <4>2, <4>3 DEF AtMost, AtLeast
        <4>5. Available(t) \in Int /\ Available(t)' \in Int
          BY <3>1, <3>3, <3>8, <4>1, <4>3, CapacityHoldsOne DEF AtMost
        <4> QED
          BY <2>1, <2>3, <3>5, <3>7, <3>9, <4>4, <4>5
      <3> QED
        BY <3>11, <3>12
    <2> QED
      BY <2>4, <2>5
  <1> QED
    BY <1>3, <1>4

\* Who waits at a bucket that another refills without taking a token still finds
\* its own.
LEMMA WakeRefill ==
    ASSUME TypeOK, NEW r \in Requests, Ready(r), ~HasToken(r), Refill(r),
           NEW s \in Stores, NEW reading \in Int, Holds(s, reading) >= Cost
    PROVE  Holds(s, reading)' >= Cost
  <1>1. CASE s # request[r].store
    <2>1. bucket'[s] = bucket[s]
      BY <1>1, Refills
    <2> QED
      BY <2>1 DEF Holds
  <1>2. CASE s = request[r].store
    <2> DEFINE k == bucket[s].tokens
               l == Minted(bucket[s].lastRefill)
               p == Minted(Reading(r))
               q == Minted(StoredTime(r))
               w == Minted(reading)
    <2>1. /\ k \in 0..Capacity /\ bucket[s].lastRefill \in Nat /\ Reading(r) \in Nat
          /\ StoredTime(r) \in Nat
      BY <1>2, AtBucket
    <2>2. l \in Int /\ p \in Int /\ q \in Int /\ w \in Int
      BY <2>1, MintedType, MintedOrder
    <2>3. Left(r) = AtMost(Capacity, k + AtLeast(0, p - l))
      BY <1>2, RefilledIs DEF Left, Holds
    <2>4. bucket'[s].tokens = Left(r) /\ bucket'[s].lastRefill = StoredTime(r)
      BY <1>2, Refills
    <2>5. q = p \/ (q = l /\ p <= l)
      <3>1. StoredTime(r) = Reading(r)
              \/ (StoredTime(r) = bucket[s].lastRefill /\ Reading(r) <= bucket[s].lastRefill)
        BY <1>2, <2>1 DEF StoredTime, AtLeast
      <3> QED
        BY <2>1, <3>1, MintedType, MintedOrder
    <2>6. k + AtLeast(0, w - l) >= Cost
      BY DEF Holds
    <2>7. SUFFICES Left(r) + AtLeast(0, w - q) >= Cost
      BY <2>4 DEF Holds
    <2> HIDE DEF k, l, p, q, w
    <2> QED
      BY <2>1, <2>2, <2>3, <2>5, <2>6, CapacityHoldsOne, ConstantsAssumption DEF AtMost, AtLeast
  <1> QED
    BY <1>1, <1>2

\* Where request q may be: at no bucket, or at one of its own, with a call to
\* Redis under way only for Redis' bucket and not for too long.
Fits(q, record) ==
    record.pc = "slot" =>
        /\ record.store \in {Redis, Home[q]}
        /\ record.asked # Unasked =>
             record.store = Redis /\ record.asked <= now /\ now <= record.asked + MaxDelay

LEMMA AllFit == (AtHome /\ CallsInTime) <=> \A q \in Requests : Fits(q, request[q])
  BY DEF AtHome, CallsInTime, Fits, Calling

LEMMA StillFit ==
    ASSUME now' = now, \A q \in Requests : Fits(q, request'[q])
    PROVE  AtHome' /\ CallsInTime'
  BY DEF AtHome, CallsInTime, Fits, Calling

LEMMA SlotFits == \A q \in Requests : \A s \in {Redis, Home[q]} : Fits(q, Slot(s))
  BY DEF Fits, Slot

\* A request of which WakeInv says nothing.
Carefree(record) == record.pc # "slot" \/ record.tries = 0 \/ record.overtaken

LEMMA SlotIsCarefree == \A s \in Stores : Carefree(Slot(s))
  BY DEF Carefree, Slot

\* The next reading is a time.
LEMMA NextReadingType ==
    ASSUME TypeOK, NEW q \in Requests, request[q].pc = "slot"
    PROVE  NextReading(q) \in Nat
  <1>1. request[q] \in Waiting /\ Skew[Home[q]] \in Nat
    BY AtSlot, ConstantsAssumption
  <1>2. request[q].wake \in Nat /\ (request[q].asked # Unasked => request[q].asked \in Nat)
    BY <1>1 DEF Waiting
  <1> QED
    BY <1>1, <1>2 DEF NextReading

\* Who keeps its place finds its token if its bucket still holds one for it.
LEMMA WakeStep ==
    ASSUME ThrottleInv,
           \A q \in Requests :
             \/ Carefree(request'[q])
             \/ /\ request'[q] = request[q]
                /\ \A reading \in Int :
                     Holds(request[q].store, reading) >= Cost =>
                       Holds(request[q].store, reading)' >= Cost
    PROVE  WakeInv'
  <1> SUFFICES ASSUME NEW q \in Requests, request'[q].pc = "slot", request'[q].tries > 0,
                      ~request'[q].overtaken
               PROVE  Holds(request[q].store, NextReading(q))' >= Cost
    BY DEF WakeInv
  <1>1. ~Carefree(request'[q])
    BY DEF Carefree
  <1>2. request'[q] = request[q]
    BY <1>1
  <1>3. Holds(request[q].store, NextReading(q)) >= Cost /\ NextReading(q) \in Int
    BY <1>2, NextReadingType DEF ThrottleInv, WakeInv
  <1>4. NextReading(q)' = NextReading(q)
    BY <1>2 DEF NextReading
  <1>5. bucket'[request[q].store].tokens
          + AtLeast(0, Minted(NextReading(q)) - Minted(bucket'[request[q].store].lastRefill)) >= Cost
    BY <1>1, <1>3 DEF Holds
  <1> QED
    BY <1>2, <1>4, <1>5 DEF Holds

\* A step that refills nothing and after which each request stands where it did,
\* or arrives at a bucket, or has left it.
LEMMA QuietStep ==
    ASSUME ThrottleInv,
           UNCHANGED <<now, bucket, granted, late, spun, observer>>,
           \A q \in Requests :
             \/ request'[q] = request[q]
             \/ Fits(q, request'[q]) /\ Carefree(request'[q])
    PROVE  AtHome' /\ CallsInTime' /\ ClockInv' /\ RateInv' /\ WakeInv' /\ NeverSpins'
  <1> USE DEF ThrottleInv
  <1>1. \A q \in Requests : Fits(q, request'[q])
    BY AllFit
  <1>2. AtHome' /\ CallsInTime'
    BY <1>1, StillFit
  <1>3. ClockInv' /\ NeverSpins'
    BY DEF ClockInv, NeverSpins, Lead
  <1>4. RateInv'
    BY DEF RateInv, Available, Allowance, Slack, Lead, Loan, Minted, observer
  <1>5. \A s, reading : Holds(s, reading)' = Holds(s, reading)
    BY DEF Holds, Minted
  <1>6. WakeInv'
    BY <1>5, WakeStep
  <1> QED
    BY <1>2, <1>3, <1>4, <1>6

\* Who calls Redis has read its clock after its sleep was over.
LEMMA AskStep ==
    ASSUME ThrottleInv, NEW r \in Requests, Ask(r)
    PROVE  AtHome' /\ CallsInTime' /\ ClockInv' /\ RateInv' /\ WakeInv' /\ NeverSpins'
  <1> USE DEF ThrottleInv
  <1> DEFINE asking == [request[r] EXCEPT !.asked = now]
  <1>1. /\ request[r] \in Waiting /\ Goes(r, asking) /\ request[r].store = Redis
        /\ request[r].asked = Unasked /\ request[r].wake <= now
        /\ UNCHANGED <<now, bucket, granted, late, spun, observer>>
    BY AtSlot DEF Ask, throttleVars
  <1>2. /\ request'[r] = asking
        /\ \A q \in Requests \ {r} : request'[q] = request[q]
    BY <1>1 DEF Goes, TypeOK
  <1>3. /\ asking.pc = "slot" /\ asking.store = Redis /\ asking.asked = now
        /\ asking.tries = request[r].tries /\ asking.overtaken = request[r].overtaken
    BY <1>1 DEF Waiting
  <1>4. now \in Nat /\ now # Unasked
    BY DEF TypeOK, Unasked
  <1> HIDE DEF asking
  <1>5. \A q \in Requests : Fits(q, request'[q])
    <2>1. Fits(r, asking)
      BY <1>3, <1>4, ConstantsAssumption DEF Fits
    <2> QED
      BY <1>2, <2>1, AllFit
  <1>6. AtHome' /\ CallsInTime'
    BY <1>1, <1>5, StillFit
  <1>7. ClockInv' /\ NeverSpins'
    BY <1>1 DEF ClockInv, NeverSpins, Lead
  <1>8. RateInv'
    BY <1>1 DEF RateInv, Available, Allowance, Slack, Lead, Loan, Minted, observer
  <1>9. WakeInv'
    <2> SUFFICES ASSUME NEW q \in Requests, request'[q].pc = "slot", request'[q].tries > 0,
                        ~request'[q].overtaken
                 PROVE  Holds(request[q].store, NextReading(q))' >= Cost
      BY DEF WakeInv
    <2>1. request[q].pc = "slot" /\ request[q].tries > 0 /\ ~request[q].overtaken
          /\ request'[q].store = request[q].store
      BY <1>1, <1>2, <1>3 DEF Waiting
    <2>2. Holds(request[q].store, NextReading(q)) >= Cost
      BY <2>1 DEF WakeInv
    <2>3. NextReading(q) <= NextReading(q)' /\ NextReading(q) \in Int /\ NextReading(q)' \in Int
      <3>1. NextReading(q) \in Nat
        BY <2>1, NextReadingType
      <3>2. CASE q # r
        <4>1. NextReading(q)' = NextReading(q)
          BY <1>2, <3>2 DEF NextReading
        <4> QED
          BY <3>1, <4>1
      <3>3. CASE q = r
        <4>1. NextReading(r)' = Skew[Home[r]] + now
          BY <1>2, <1>3, <1>4 DEF NextReading
        <4>2. NextReading(r) = Skew[Home[r]] + request[r].wake
          BY <1>1 DEF NextReading
        <4>3. Skew[Home[r]] \in Nat /\ request[r].wake \in Nat
          BY <1>1, ConstantsAssumption DEF Waiting
        <4> QED
          BY <1>1, <1>4, <3>3, <4>1, <4>2, <4>3
      <3> QED
        BY <3>2, <3>3
    <2>4. /\ Minted(NextReading(q)) <= Minted(NextReading(q)')
          /\ Minted(NextReading(q)) \in Int /\ Minted(NextReading(q)') \in Int
      BY <2>3, MintedOrder, MintedType
    <2>5. /\ bucket[request[q].store].tokens \in Nat
          /\ Minted(bucket[request[q].store].lastRefill) \in Int
      BY <2>1, AtSlot, MintedType, CapacityHoldsOne DEF TypeOK
    <2>6. bucket[request[q].store].tokens
            + AtLeast(0, Minted(NextReading(q)') - Minted(bucket[request[q].store].lastRefill)) >= Cost
      BY <2>2, <2>4, <2>5, ConstantsAssumption DEF Holds, AtLeast
    <2> QED
      BY <1>1, <2>1, <2>6 DEF Holds, Minted
  <1> QED
    BY <1>6, <1>7, <1>8, <1>9

\* A refill that finds no token, after which each request stands where it did or
\* comes to a bucket.
LEMMA RefillStep ==
    ASSUME ThrottleInv, NEW r \in Requests, Ready(r), ~HasToken(r), Refill(r),
           UNCHANGED <<now, spun, observer>>,
           \A q \in Requests :
             \/ request'[q] = request[q]
             \/ Fits(q, request'[q]) /\ Carefree(request'[q])
    PROVE  AtHome' /\ CallsInTime' /\ ClockInv' /\ WakeInv' /\ NeverSpins'
  <1> USE DEF ThrottleInv
  <1>1. \A q \in Requests : Fits(q, request'[q])
    BY AllFit
  <1>2. AtHome' /\ CallsInTime'
    BY <1>1, StillFit
  <1>3. ClockInv' /\ NeverSpins'
    BY ClockRefill DEF NeverSpins
  <1>4. WakeInv'
    <2>1. ASSUME NEW q \in Requests, ~Carefree(request'[q]), NEW reading \in Int,
                 Holds(request[q].store, reading) >= Cost
          PROVE  Holds(request[q].store, reading)' >= Cost
      <3>1. request[q].store \in Stores
        BY <2>1, AtSlot DEF Carefree
      <3>2. Holds(request[q].store, reading)' >= Cost
        BY <2>1, <3>1, WakeRefill
      <3> QED
        BY <3>2
    <2> QED
      BY <2>1, WakeStep
  <1> QED
    BY <1>2, <1>3, <1>4

\* A token leaves a bucket: whoever waits there is overtaken, except its taker.
LEMMA OvertakingStep ==
    ASSUME ThrottleInv, NEW r \in Requests, Ready(r), Refill(r),
           NEW record, Overtakes(r, record), Fits(r, record), Carefree(record),
           UNCHANGED <<now, spun, observer>>
    PROVE  AtHome' /\ CallsInTime' /\ ClockInv' /\ WakeInv' /\ NeverSpins'
  <1> USE DEF ThrottleInv
  <1> DEFINE s == request[r].store
  <1>1. request'[r] = record
    BY DEF Overtakes, TypeOK
  <1>2. ASSUME NEW q \in Requests, q # r
        PROVE  \/ request'[q] = request[q] /\ (request[q].pc = "slot" => request[q].store # s)
               \/ /\ request[q].pc = "slot"
                  /\ request'[q] = [request[q] EXCEPT !.overtaken = TRUE]
    BY <1>2 DEF Overtakes, TypeOK
  <1>3. ASSUME NEW q \in Requests, request[q].pc = "slot",
               request'[q] = [request[q] EXCEPT !.overtaken = TRUE]
        PROVE  Carefree(request'[q]) /\ Fits(q, request'[q])
    <2>1. request[q] \in Waiting /\ Fits(q, request[q])
      BY <1>3, AtSlot, AllFit
    <2>2. /\ request'[q].overtaken /\ request'[q].store = request[q].store
          /\ request'[q].asked = request[q].asked
      BY <1>3, <2>1 DEF Waiting
    <2> QED
      BY <1>3, <2>1, <2>2 DEF Fits, Carefree
  <1>4. \A q \in Requests : Fits(q, request'[q])
    BY <1>1, <1>2, <1>3, AllFit
  <1>5. AtHome' /\ CallsInTime'
    BY <1>4, StillFit
  <1>6. ClockInv' /\ NeverSpins'
    BY ClockRefill DEF NeverSpins
  <1>7. WakeInv'
    <2>1. ASSUME NEW q \in Requests, ~Carefree(request'[q]), NEW reading \in Int
          PROVE  /\ request'[q] = request[q]
                 /\ Holds(request[q].store, reading)' = Holds(request[q].store, reading)
      <3>1. q # r /\ request'[q] = request[q] /\ request[q].pc = "slot" /\ request[q].store # s
        BY <1>1, <1>2, <1>3, <2>1 DEF Carefree
      <3>2. request[q].store \in Stores \ {s}
        BY <3>1, AtSlot
      <3>3. bucket'[request[q].store] = bucket[request[q].store]
        BY <3>2, Refills
      <3> QED
        BY <3>1, <3>3 DEF Holds, Minted
    <2> QED
      BY <2>1, WakeStep
  <1> QED
    BY <1>5, <1>6, <1>7

\* A request that finds none sleeps for as long as minting one takes; had it
\* slept before and not been overtaken, it would have found one.
LEMMA SleepStep ==
    ASSUME ThrottleInv, NEW r \in Requests, Sleep(r)
    PROVE  AtHome' /\ CallsInTime' /\ ClockInv' /\ WakeInv' /\ NeverSpins'
  <1> USE DEF ThrottleInv
  <1> DEFINE s == request[r].store
             tokens == Refilled(r)
             woken == [request[r] EXCEPT !.tries = @ + 1, !.wake = now + Wait(tokens),
                                         !.asked = Unasked, !.overtaken = FALSE]
  <1>1. /\ Ready(r) /\ request[r].pc = "slot" /\ s \in Stores /\ request[r] \in Waiting
        /\ Skew[Home[r]] \in Nat /\ Reading(r) \in Nat /\ Fits(r, request[r])
        /\ now \in Nat
    BY AtSlot, AtBucket, AllFit, ConstantsAssumption DEF Sleep, TypeOK
  <1>2. /\ tokens \in 0..Capacity /\ tokens < Cost /\ ~HasToken(r) /\ Left(r) = tokens
        /\ Refill(r) /\ Goes(r, woken) /\ now' = now
    BY <1>1, AtBucket, CapacityHoldsOne, ConstantsAssumption DEF Sleep, HasToken, Left
  <1>3. Wait(tokens) \in Nat /\ Minted(Wait(tokens)) >= Cost - tokens
    <2>1. tokens \in Nat /\ tokens < Cost
      BY <1>2, CapacityHoldsOne
    <2> HIDE DEF tokens
    <2> QED
      BY <2>1, WaitIsEnough
  <1>4. /\ request'[r] = woken
        /\ \A q \in Requests \ {r} : request'[q] = request[q]
    BY <1>2 DEF Goes, TypeOK
  <1>5. /\ woken.pc = "slot" /\ woken.store = s /\ ~woken.overtaken
        /\ woken.asked = Unasked /\ woken.wake = now + Wait(tokens)
    <2> HIDE DEF tokens
    <2> QED
      BY <1>1 DEF Waiting
  <1> HIDE DEF woken
  <1>6. \A q \in Requests : Fits(q, request'[q])
    <2>1. Fits(r, woken)
      BY <1>1, <1>5 DEF Fits
    <2> QED
      BY <1>4, <2>1, AllFit
  <1>7. AtHome' /\ CallsInTime'
    BY <1>2, <1>6, StillFit
  <1>8. ClockInv'
    BY <1>1, <1>2, ClockRefill
  <1>9. WakeInv'
    <2> SUFFICES ASSUME NEW q \in Requests, request'[q].pc = "slot", request'[q].tries > 0,
                        ~request'[q].overtaken
                 PROVE  Holds(request[q].store, NextReading(q))' >= Cost
      BY DEF WakeInv
    <2>1. CASE q = r
      <3>1. /\ bucket'[s].tokens = tokens /\ bucket'[s].lastRefill = StoredTime(r)
            /\ StoredTime(r) \in Nat
        BY <1>1, <1>2, Refills, AtBucket
      <3>2. NextReading(r)' = Skew[Home[r]] + (now + Wait(tokens))
        BY <1>4, <1>5 DEF NextReading
      <3>3. StoredTime(r) <= Skew[Home[r]] + now
        <4>1. CASE s = Redis
          <5>1. StoredTime(r) = Skew[Home[r]] + request[r].asked /\ request[r].asked # Unasked
            BY <1>1, <4>1 DEF StoredTime, Reading, Ready, Calling
          <5>2. request[r].asked <= now /\ request[r].asked \in Nat
            BY <1>1, <5>1 DEF Fits, Waiting
          <5> QED
            BY <1>1, <5>1, <5>2
        <4>2. CASE s # Redis
          <5>1. s = Home[r] /\ Reading(r) = Skew[Home[r]] + now
            BY <1>1, <4>2 DEF Reading, Fits
          <5>2. bucket[s].lastRefill <= now + Skew[Home[r]] /\ bucket[s].lastRefill \in Nat
            BY <1>1, <4>2, <5>1 DEF ClockInv, Lead, TypeOK
          <5>3. StoredTime(r) = AtLeast(Reading(r), bucket[s].lastRefill)
            BY <4>2 DEF StoredTime
          <5> QED
            BY <1>1, <5>1, <5>2, <5>3 DEF AtLeast
        <4> QED
          BY <4>1, <4>2
      <3>4. Minted(NextReading(r)') >= Minted(StoredTime(r)) + Minted(Wait(tokens))
        <4>1. StoredTime(r) + Wait(tokens) <= NextReading(r)' /\ StoredTime(r) + Wait(tokens) \in Int
              /\ NextReading(r)' \in Int
          <5> HIDE DEF tokens
          <5> QED
            BY <1>1, <1>3, <3>1, <3>2, <3>3
        <4>2. Minted(StoredTime(r) + Wait(tokens)) <= Minted(NextReading(r)')
          BY <4>1, MintedOrder
        <4>3. Minted(StoredTime(r) + Wait(tokens)) = Minted(StoredTime(r)) + Minted(Wait(tokens))
          BY <1>3, <3>1, MintedPlus
        <4> QED
          BY <4>2, <4>3
      <3>5. /\ Minted(NextReading(r)') \in Int /\ Minted(StoredTime(r)) \in Int
            /\ Minted(Wait(tokens)) \in Int
        <4> HIDE DEF tokens
        <4>1. NextReading(r)' \in Int
          BY <1>1, <1>3, <3>2
        <4> QED
          BY <1>3, <3>1, <4>1, MintedType
      <3>6. tokens + AtLeast(0, Minted(NextReading(r)') - Minted(StoredTime(r))) >= Cost
        <4>1. tokens \in Nat /\ Cost \in Nat
          BY <1>2, CapacityHoldsOne, ConstantsAssumption
        <4> HIDE DEF tokens
        <4> QED
          BY <1>3, <3>4, <3>5, <4>1 DEF AtLeast
      <3>7. Holds(s, NextReading(r))' = tokens + AtLeast(0, Minted(NextReading(r)') - Minted(StoredTime(r)))
        BY <1>4, <1>5, <3>1 DEF Holds, Minted
      <3>8. request'[q].store = s
        BY <1>4, <1>5, <2>1
      <3>9. Holds(request[q].store, NextReading(q))'
              = bucket'[s].tokens + AtLeast(0, Minted(NextReading(r)') - Minted(bucket'[s].lastRefill))
        BY <2>1, <3>8 DEF Holds, Minted
      <3> QED
        BY <3>1, <3>6, <3>9
    <2>2. CASE q # r
      <3>1. request'[q] = request[q]
        BY <1>4, <2>2
      <3>2. request[q].store \in Stores /\ NextReading(q) \in Int
            /\ Holds(request[q].store, NextReading(q)) >= Cost
        BY <3>1, AtSlot, NextReadingType DEF WakeInv
      <3> DEFINE t == request[q].store
                 reading == NextReading(q)
      <3>3. \A x \in Stores, y \in Int : Holds(x, y) >= Cost => Holds(x, y)' >= Cost
        BY <1>1, <1>2, WakeRefill
      <3>4. bucket'[t].tokens + AtLeast(0, Minted(reading) - Minted(bucket'[t].lastRefill)) >= Cost
        BY <3>2, <3>3 DEF Holds, Minted
      <3>5. NextReading(q)' = reading
        BY <3>1 DEF NextReading
      <3>6. Holds(request[q].store, NextReading(q))'
              = bucket'[t].tokens + AtLeast(0, Minted(reading) - Minted(bucket'[t].lastRefill))
        BY <3>1, <3>5 DEF Holds, Minted
      <3> QED
        BY <3>4, <3>6
    <2> QED
      BY <2>1, <2>2
  <1>10. NeverSpins'
    <2> SUFFICES ASSUME request[r].tries > 0, ~request[r].overtaken PROVE FALSE
      BY DEF Sleep, NeverSpins
    <2>1. Holds(s, NextReading(r)) >= Cost
      BY <1>1 DEF WakeInv
    <2>2. NextReading(r) <= Reading(r) /\ NextReading(r) \in Int /\ Reading(r) \in Int
      <3>1. CASE s = Redis
        BY <1>1, <3>1, NextReadingType DEF NextReading, Reading, Ready, Calling
      <3>2. CASE s # Redis
        <4>1. request[r].asked = Unasked /\ request[r].wake <= now /\ request[r].wake \in Nat
          BY <1>1, <3>2 DEF Ready, Fits, Waiting
        <4> QED
          BY <1>1, <3>2, <4>1 DEF NextReading, Reading
      <3> QED
        BY <3>1, <3>2
    <2>3. /\ Minted(NextReading(r)) <= Minted(Reading(r))
          /\ Minted(NextReading(r)) \in Int /\ Minted(Reading(r)) \in Int
      BY <2>2, MintedOrder, MintedType
    <2>4. bucket[s].tokens \in 0..Capacity /\ Minted(bucket[s].lastRefill) \in Int
      BY <1>1, MintedType DEF TypeOK
    <2>5. tokens = AtMost(Capacity, Holds(s, Reading(r)))
      BY <1>1, RefilledIs
    <2>6. tokens < Cost
      BY <1>2
    <2> HIDE DEF tokens, s
    <2> QED
      BY <2>1, <2>3, <2>4, <2>5, <2>6, CapacityHoldsOne, ConstantsAssumption
      DEF Holds, AtMost, AtLeast
  <1> QED
    BY <1>7, <1>8, <1>9, <1>10

LEMMA ThrottleInit == Init => ThrottleInv
  <1> SUFFICES ASSUME Init PROVE ThrottleInv
    OBVIOUS
  <1>1. \A r \in Requests : request[r].pc # "slot"
    BY DEF Init, Idle
  <1>2. AtHome /\ CallsInTime /\ WakeInv /\ NeverSpins
    BY <1>1 DEF AtHome, CallsInTime, Calling, WakeInv, NeverSpins, Init
  <1>3. ClockInv
    BY LeadType DEF ClockInv, Init
  <1>4. RateInv
    BY DEF RateInv, Init
  <1> QED
    BY <1>2, <1>3, <1>4, TypeInit DEF ThrottleInv

\* Time passes: what is minted may be handed out.
LEMMA ThrottleTick ==
    ASSUME ThrottleInv, Tick
    PROVE  AtHome' /\ CallsInTime' /\ ClockInv' /\ RateInv' /\ WakeInv' /\ NeverSpins'
  <1> USE DEF ThrottleInv
  <1>1. /\ now' = now + 1 /\ now \in Nat
        /\ UNCHANGED <<bucket, granted, late, spun, request, watching, since>>
    BY DEF Tick, TypeOK, throttleVars, observer
  <1>2. AtHome' /\ NeverSpins'
    BY <1>1 DEF AtHome, Calling, NeverSpins
  <1>3. CallsInTime'
    <2> SUFFICES ASSUME NEW r \in Requests, Calling(r)
                 PROVE  request[r].asked <= now + 1 /\ now + 1 <= request[r].asked + MaxDelay
      BY <1>1 DEF CallsInTime, Calling
    <2>1. request[r].asked \in Nat /\ MaxDelay \in Nat
      BY AtSlot, ConstantsAssumption DEF Calling, Waiting
    <2>2. now < request[r].asked + MaxDelay /\ request[r].asked <= now
      BY DEF Tick, CallsInTime
    <2> QED
      BY <1>1, <2>1, <2>2
  <1>4. ClockInv'
    BY <1>1, LeadType DEF ClockInv, TypeOK, Lead
  <1>5. RateInv'
    <2> SUFFICES ASSUME watching, NEW s \in Stores
                 PROVE  Cost * granted[s] + Available(s)' <= Allowance(s)'
      BY <1>1 DEF RateInv
    <2> DEFINE f == Minted(now + Lead(s))
               p == Minted(now - since)
               l == Minted(bucket[s].lastRefill)
               one == Minted(1)
               more == IF s = Redis THEN (1 + late) * Loan ELSE 0
               out == Cost * granted[s]
               k == bucket[s].tokens
    <2>1. /\ Lead(s) \in Nat /\ Slack(s) \in Nat /\ since \in Nat /\ bucket[s].lastRefill \in Nat
          /\ k \in Nat /\ granted[s] \in Nat /\ late \in Nat
      BY <1>1, LeadType, CapacityHoldsOne, ConstantsAssumption DEF TypeOK
    <2>2. f \in Int /\ p \in Int /\ l \in Int /\ one \in Nat
      BY <1>1, <2>1, MintedType, MintedNat
    <2>3. Minted((now + 1) + Lead(s)) = f + one /\ Minted((now + 1) - since) = p + one
      <3>1. (now + 1) + Lead(s) = (now + Lead(s)) + 1 /\ (now + 1) - since = (now - since) + 1
        BY <1>1, <2>1
      <3>2. now + Lead(s) \in Int /\ now - since \in Int /\ 1 \in Int
        BY <1>1, <2>1
      <3>3. Minted((now + Lead(s)) + 1) = f + one /\ Minted((now - since) + 1) = p + one
        BY <3>2, MintedPlus
      <3> QED
        BY <3>1, <3>3
    <2>4. out \in Int /\ more \in Int
      <3>1. \A m, n \in Nat : m * n \in Int
        OBVIOUS
      <3>2. 1 + late \in Nat /\ Loan \in Nat /\ Cost \in Nat
        BY <2>1, LoanIs, ConstantsAssumption
      <3> QED
        BY <2>1, <3>1, <3>2
    <2>5. out + AtMost(Capacity + Slack(s), k + (f - l)) <= Capacity + p + more
      BY DEF RateInv, Available, Allowance
    <2>6. /\ Available(s)' = AtMost(Capacity + Slack(s), k + ((f + one) - l))
          /\ Allowance(s)' = Capacity + (p + one) + more
      BY <1>1, <2>3 DEF Available, Allowance, Lead, Slack, Loan, Minted
    <2> HIDE DEF f, p, l, one, more, out, k
    <2>7. out + AtMost(Capacity + Slack(s), k + ((f + one) - l)) <= Capacity + (p + one) + more
      BY <2>1, <2>2, <2>4, <2>5, CapacityHoldsOne DEF AtMost
    <2> QED
      BY <2>6, <2>7 DEF out
  <1>6. WakeInv'
    BY <1>1 DEF WakeInv, Holds, NextReading, Minted
  <1> QED
    BY <1>2, <1>3, <1>4, <1>5, <1>6

\* An observer who begins to count finds at most a full bucket and a loan.
LEMMA ThrottleWatch ==
    ASSUME ThrottleInv, Watch
    PROVE  AtHome' /\ CallsInTime' /\ ClockInv' /\ RateInv' /\ WakeInv' /\ NeverSpins'
  <1> USE DEF ThrottleInv
  <1>1. /\ watching' = TRUE /\ since' = now /\ now' = now /\ now \in Nat /\ ~watching
        /\ UNCHANGED <<bucket, granted, late, spun, request>>
    BY DEF Watch, TypeOK, throttleVars
  <1>2. AtHome' /\ CallsInTime' /\ ClockInv' /\ NeverSpins' /\ WakeInv'
    BY <1>1 DEF AtHome, CallsInTime, Calling, NeverSpins, ClockInv, Lead, WakeInv, Holds,
                NextReading, Minted
  <1>3. RateInv'
    <2> SUFFICES ASSUME NEW s \in Stores
                 PROVE  Cost * granted[s] + Available(s)' <= Allowance(s)'
      BY <1>1 DEF RateInv
    <2>1. granted[s] = 0 /\ late \in Nat /\ Cost * 0 = 0
      BY <1>1, ConstantsAssumption DEF RateInv, TypeOK
    <2>2. Minted(now - now) = 0
      BY <1>1, MintedZero
    <2>3. (1 + late) * Loan >= Loan /\ (1 + late) * Loan \in Int
      <3>1. \A m, n \in Nat : (1 + m) * n >= n /\ (1 + m) * n \in Int
        OBVIOUS
      <3> QED
        BY <2>1, <3>1, LoanIs
    <2>4. Allowance(s)' = Capacity + 0 + (IF s = Redis THEN (1 + late) * Loan ELSE 0)
      BY <1>1, <2>2 DEF Allowance, Loan, Minted
    <2>5. Available(s)' <= Capacity + Slack(s) /\ Available(s)' \in Int
      <3> DEFINE held == bucket[s].tokens + (Minted(now + Lead(s)) - Minted(bucket[s].lastRefill))
      <3>1. held \in Int
        <4>1. /\ now + Lead(s) \in Int /\ bucket[s].lastRefill \in Int /\ bucket[s].tokens \in Int
          BY <1>1, LeadType, CapacityHoldsOne, ConstantsAssumption DEF TypeOK
        <4>2. Minted(now + Lead(s)) \in Int /\ Minted(bucket[s].lastRefill) \in Int
          BY <4>1, MintedType
        <4> QED
          BY <4>1, <4>2
      <3>2. Available(s)' = AtMost(Capacity + Slack(s), held)
        BY <1>1 DEF Available, Lead, Slack, Loan, Minted
      <3> HIDE DEF held
      <3> QED
        BY <3>1, <3>2, LeadType, CapacityHoldsOne DEF AtMost
    <2>6. Available(s)' <= Allowance(s)' /\ Allowance(s)' \in Int
      BY <2>3, <2>4, <2>5, CapacityHoldsOne, LoanIs DEF Slack
    <2> QED
      BY <2>1, <2>5, <2>6
  <1> QED
    BY <1>2, <1>3

LEMMA ThrottleStep == ThrottleInv /\ [Next]_vars => ThrottleInv'
  <1> SUFFICES ASSUME ThrottleInv, [Next]_vars PROVE ThrottleInv'
    OBVIOUS
  <1>0. TypeOK /\ TypeOK' /\ AtHome /\ CallsInTime /\ ClockInv /\ RateInv
    BY TypeStep DEF ThrottleInv
  <1> DEFINE Kept == AtHome' /\ CallsInTime' /\ ClockInv' /\ RateInv' /\ WakeInv' /\ NeverSpins'
  <1> SUFFICES Kept
    BY <1>0 DEF ThrottleInv
  <1>1. CASE Tick
    BY <1>1, ThrottleTick
  <1>2. CASE Watch
    BY <1>2, ThrottleWatch
  <1>3. ASSUME NEW r \in Requests, NEW record,
               Goes(r, record), record.pc # "slot" \/ (\E s \in {Redis, Home[r]} : record = Slot(s))
        PROVE  \A q \in Requests :
                 \/ request'[q] = request[q]
                 \/ Fits(q, request'[q]) /\ Carefree(request'[q])
    <2>1. Fits(r, record) /\ Carefree(record)
      <3>1. \A s \in {Redis, Home[r]} : s \in Stores
        BY ConstantsAssumption DEF Stores
      <3>2. CASE record.pc # "slot"
        BY <3>2 DEF Fits, Carefree
      <3>3. CASE \E s \in {Redis, Home[r]} : record = Slot(s)
        BY <3>1, <3>3, SlotFits, SlotIsCarefree
      <3> QED
        BY <1>3, <3>2, <3>3
    <2>2. \A q \in Requests : request'[q] = IF q = r THEN record ELSE request[q]
      BY <1>0, <1>3 DEF Goes, TypeOK
    <2> QED
      BY <2>1, <2>2
  <1>4. ASSUME NEW r \in Requests,
               (\E k \in Keys : ConsumeClient(r, k)) \/ ConsumeKey(r) \/ GoOnWithout(r)
        PROVE  Kept
    <2>1. PICK record : /\ Goes(r, record)
                        /\ record.pc # "slot" \/ (\E s \in {Redis, Home[r]} : record = Slot(s))
      <3>1. CASE \E k \in Keys : ConsumeClient(r, k)
        <4>1. PICK record : Goes(r, record) /\ record.pc \in {"idle", "key"}
          BY <3>1 DEF ConsumeClient, Refuses, Idle
        <4> QED
          BY <4>1
      <3>2. CASE ConsumeKey(r)
        BY <3>2 DEF ConsumeKey, Refuses, Idle
      <3>3. CASE GoOnWithout(r)
        BY <3>3 DEF GoOnWithout, Idle
      <3> QED
        BY <1>4, <3>1, <3>2, <3>3
    <2>2. \A q \in Requests :
            \/ request'[q] = request[q]
            \/ Fits(q, request'[q]) /\ Carefree(request'[q])
      BY <1>3, <2>1
    <2>3. UNCHANGED <<now, bucket, granted, late, spun, observer>>
      BY <1>4 DEF ConsumeClient, ConsumeKey, GoOnWithout, throttleVars
    <2> QED
      BY <2>2, <2>3, QuietStep
  <1>5. ASSUME UNCHANGED <<now, bucket, granted, late, spun, observer, request>> PROVE Kept
    BY <1>5, QuietStep
  <1>6. ASSUME NEW r \in Requests, CountsInVain(r) PROVE Kept
    BY <1>5, <1>6 DEF CountsInVain, throttleVars
  <1>7. ASSUME NEW r \in Requests, Ask(r) PROVE Kept
    BY <1>7, AskStep
  <1>8. ASSUME NEW r \in Requests, TakeToken(r) PROVE Kept
    <2>1. /\ Ready(r) /\ Refill(r) /\ Overtakes(r, Idle) /\ HasToken(r)
          /\ UNCHANGED <<now, spun, observer>>
      BY <1>8 DEF TakeToken
    <2>2. Fits(r, Idle) /\ Carefree(Idle)
      BY DEF Fits, Carefree, Idle
    <2>3. \A t \in Stores :
            \/ granted'[t] = granted[t]
            \/ watching /\ t = request[r].store /\ HasToken(r) /\ granted'[t] = granted[t] + 1
      BY <1>0, <1>8, <2>1 DEF TakeToken, TypeOK
    <2>4. RateInv'
      BY <1>0, <2>1, <2>3, RateRefill
    <2> QED
      BY <2>1, <2>2, <2>4, OvertakingStep
  <1>9. ASSUME NEW r \in Requests, Sleep(r) PROVE Kept
    <2>1. Ready(r) /\ Refill(r) /\ UNCHANGED <<now, granted, observer>>
      BY <1>9 DEF Sleep
    <2>2. RateInv'
      BY <1>0, <2>1, RateRefill
    <2> QED
      BY <1>9, <2>2, SleepStep
  <1>10. ASSUME NEW r \in Requests, RedisFails(r) PROVE Kept
    <2> DEFINE again == [request[r] EXCEPT !.overtaken = @ \/ HasToken(r)]
    <2>1. UNCHANGED <<now, granted, spun, observer>> /\ Calling(r)
      BY <1>10 DEF RedisFails
    <2>2. CASE Goes(r, Slot(Home[r])) /\ UNCHANGED <<bucket, late>>
      <3>1. \A q \in Requests :
              \/ request'[q] = request[q]
              \/ Fits(q, request'[q]) /\ Carefree(request'[q])
        BY <1>3, <2>2
      <3> QED
        BY <2>1, <2>2, <3>1, QuietStep
    <2>3. CASE /\ Ready(r) /\ Refill(r)
               /\ \E next \in {Slot(Home[r]), again} :
                    IF HasToken(r) THEN Overtakes(r, next) ELSE Goes(r, next)
      <3>1. RateInv'
        BY <1>0, <2>1, <2>3, RateRefill
      <3>2. PICK next \in {Slot(Home[r]), again} :
              IF HasToken(r) THEN Overtakes(r, next) ELSE Goes(r, next)
        BY <2>3
      <3>3. Fits(r, Slot(Home[r])) /\ Carefree(Slot(Home[r]))
        BY SlotFits, SlotIsCarefree, ConstantsAssumption DEF Stores
      <3>4. request[r] \in Waiting /\ Fits(r, request[r])
        BY <1>0, <2>1, AtSlot, AllFit DEF Calling
      <3>5. HasToken(r) => Fits(r, again) /\ Carefree(again)
        <4>1. HasToken(r) => again.overtaken
          BY <3>4 DEF Waiting
        <4>2. again.pc = request[r].pc /\ again.store = request[r].store /\ again.asked = request[r].asked
          BY <3>4 DEF Waiting
        <4> HIDE DEF again
        <4> QED
          BY <3>4, <4>1, <4>2 DEF Fits, Carefree
      <3>6. CASE HasToken(r)
        <4>1. Overtakes(r, next) /\ Fits(r, next) /\ Carefree(next)
          BY <3>2, <3>3, <3>5, <3>6
        <4> QED
          BY <2>1, <2>3, <3>1, <4>1, OvertakingStep
      <3>7. CASE ~HasToken(r)
        <4>1. again = request[r]
          BY <3>4, <3>7 DEF Waiting
        <4>2. \A q \in Requests : request'[q] = request[q] \/ (q = r /\ request'[q] = Slot(Home[r]))
          BY <1>0, <3>2, <3>7, <4>1 DEF Goes, TypeOK
        <4>3. \A q \in Requests :
                \/ request'[q] = request[q]
                \/ Fits(q, request'[q]) /\ Carefree(request'[q])
          BY <3>3, <4>2
        <4> QED
          BY <2>1, <2>3, <3>1, <3>7, <4>3, RefillStep
      <3> QED
        BY <3>6, <3>7
    <2> QED
      BY <1>10, <2>2, <2>3 DEF RedisFails
  <1>11. CASE UNCHANGED vars
    BY <1>5, <1>11 DEF vars, throttleVars
  <1> QED
    BY <1>1, <1>2, <1>4, <1>6, <1>7, <1>8, <1>9, <1>10, <1>11 DEF Next

\* The inductive invariant of the buckets holds in every reachable state.
THEOREM ThrottleInvariance == Spec => []ThrottleInv
  <1>1. ThrottleInv /\ [Next]_vars => ThrottleInv'
    BY ThrottleStep
  <1> QED
    BY ThrottleInit, <1>1, PTL DEF Spec

\* In any interval a store hands out no more tokens than a full bucket and what
\* the time mints; Redis, for clocks that differ by at most MaxSkew and calls that
\* take at most MaxDelay, one loan more and one per late run (rate-limit.ts:64-93).
THEOREM ProviderRateHolds == Spec => []ProviderRateKept
  <1>1. ThrottleInv => ProviderRateKept
    <2> SUFFICES ASSUME ThrottleInv, watching, NEW s \in Stores
                 PROVE  Cost * granted[s] <= Allowance(s)
      BY DEF ProviderRateKept, Allowance, Minted
    <2>1. Cost * granted[s] + Available(s) <= Allowance(s)
      BY DEF ThrottleInv, RateInv
    <2>2. Available(s) >= 0 /\ Available(s) \in Int
      <3>1. /\ now + Lead(s) \in Int /\ bucket[s].lastRefill \in Int /\ bucket[s].tokens \in Nat
            /\ bucket[s].lastRefill <= now + Lead(s)
        BY LeadType, CapacityHoldsOne, ConstantsAssumption DEF ThrottleInv, ClockInv, TypeOK
      <3>2. /\ Minted(bucket[s].lastRefill) <= Minted(now + Lead(s))
            /\ Minted(bucket[s].lastRefill) \in Int /\ Minted(now + Lead(s)) \in Int
        BY <3>1, MintedType, MintedOrder
      <3> QED
        BY <3>1, <3>2, LeadType, CapacityHoldsOne DEF Available, AtMost
    <2>3. Cost * granted[s] \in Int
      BY ConstantsAssumption DEF ThrottleInv, TypeOK
    <2>4. Allowance(s) \in Int
      <3>1. \A m, n \in Nat : (1 + m) * n \in Int
        OBVIOUS
      <3>2. (1 + late) * Loan \in Int /\ Minted(now - since) \in Int
        BY <3>1, LoanIs, MintedType DEF ThrottleInv, TypeOK
      <3> QED
        BY <3>2, CapacityHoldsOne DEF Allowance
    <2> QED
      BY <2>1, <2>2, <2>3, <2>4
  <1> QED
    BY ThrottleInvariance, <1>1, PTL

\* A request that slept for a token and finds none had it taken by another
\* (rate-limit.ts:150-163).
THEOREM WaitersNeverSpin == Spec => []NeverSpins
  <1>1. ThrottleInv => NeverSpins
    BY DEF ThrottleInv
  <1> QED
    BY ThrottleInvariance, <1>1, PTL

----------------------------------------------------------------------------
(* The budgets *)

\* When a window began; long before time did, if nobody opened it yet.
Start(s, c) == window[s][c].resetAt - Window

\* A window nobody opened has no end.
Unopened == \A s \in Stores, c \in Counters : window[s][c].count = 0 => window[s][c].resetAt = 0

\* What passed under the window that was open when the observer came, and under
\* that window and the next.
PassedInv ==
    \A s \in Stores, c \in Counters :
        /\ ~watching => passed[s][c] = 0
        /\ watching /\ Start(s, c) < since =>
               passed[s][c] <= window[s][c].count /\ passed[s][c] <= Limit[c]
        /\ watching /\ Start(s, c) >= since /\ now < since + Window =>
               /\ passed[s][c] <= Limit[c] + window[s][c].count
               /\ passed[s][c] <= 2 * Limit[c]

\* The window that refused a request, or one that began when it was over.
PromiseInv ==
    \A r \in Requests :
        LET p == promise[r]
            w == window[p.store][p.counter]
        IN  p # NoPromise =>
              /\ w.count > 0
              /\ p.at >= p.until
              /\ w.resetAt = p.until \/ w.resetAt >= p.until + Window

BudgetInv == TypeOK /\ Unopened /\ PassedInv /\ PromiseInv

\* A request that passes is within the budget.
LEMMA PassesWithinBudget ==
    ASSUME TypeOK, NEW s \in Stores, NEW k \in Counters, NEW remaining \in Nat,
           window' \in [Stores -> [Counters -> [count : Nat, resetAt : Nat]]],
           ~(ReportsKey(s, k, remaining) /\ ~Allowed(s, k))
    PROVE  Allowed(s, k)
  <1>1. window'[s][k].count \in Nat /\ Limit[k] \in Nat
    BY ConstantsAssumption
  <1> QED
    BY <1>1 DEF ReportsKey, Allowed, Remaining, AtLeast

\* What is counted and, within the budget, let pass, keeps the invariants; so
\* does what is counted for nothing.
LEMMA CountStep ==
    ASSUME BudgetInv, NEW c \in Counters, NEW hits, window' = Counted(c, hits),
           \A s \in Stores, d \in Counters :
             \/ passed'[s][d] = passed[s][d]
             \/ watching /\ s \in hits /\ d = c /\ window'[s][d].count <= Limit[d]
                  /\ passed'[s][d] = passed[s][d] + 1,
           \A q \in Requests :
             \/ promise'[q] = promise[q]
             \/ /\ promise'[q].store \in hits \cap Stores /\ promise'[q].counter = c
                /\ promise'[q].until = window'[promise'[q].store][c].resetAt
                /\ promise'[q].at >= promise'[q].until,
           UNCHANGED <<now, observer>>
    PROVE  Unopened' /\ PassedInv' /\ PromiseInv'
  <1> USE DEF BudgetInv
  <1>1. \A s \in Stores, d \in Counters :
          window'[s][d] = IF s \in hits /\ d = c THEN Hit(s, window[s][d]) ELSE window[s][d]
    BY Counts
  <1>2. now' = now /\ watching' = watching /\ since' = since
    BY DEF observer
  <1>3. ASSUME NEW s \in Stores, NEW d \in Counters
        PROVE  /\ window[s][d] \in [count : Nat, resetAt : Nat]
               /\ passed[s][d] \in Nat /\ since \in 0..now /\ now \in Nat
               /\ Limit[d] \in Nat \ {0} /\ Window \in Nat \ {0}
    BY ConstantsAssumption DEF TypeOK
  <1>4. ASSUME NEW s \in Stores, NEW d \in Counters, s \in hits, d = c
        PROVE  /\ window'[s][d].count > 0
               /\ \/ /\ ~Over(s, window[s][d])
                     /\ window'[s][d].count = window[s][d].count + 1
                     /\ window'[s][d].resetAt = window[s][d].resetAt
                  \/ /\ window[s][d].count = 0 \/ window[s][d].resetAt <= now
                     /\ window'[s][d].count = 1
                     /\ window'[s][d].resetAt = now + Window
    <2> DEFINE w == window[s][d]
    <2>1. window'[s][d] = Hit(s, w)
      BY <1>1, <1>4
    <2>2. w \in [count : Nat, resetAt : Nat] /\ now \in Nat
      BY <1>3
    <2> HIDE DEF w
    <2>3. CASE Over(s, w)
      <3>1. Hit(s, w) = [count |-> 1, resetAt |-> now + Window]
        BY <2>3 DEF Hit
      <3>2. w.count = 0 \/ w.resetAt <= now
        BY <2>2, <2>3 DEF Over
      <3> QED
        BY <2>1, <3>1, <3>2 DEF w
    <2>4. CASE ~Over(s, w)
      <3>1. Hit(s, w) = [w EXCEPT !.count = @ + 1]
        BY <2>4 DEF Hit
      <3>2. Hit(s, w).count = w.count + 1 /\ Hit(s, w).resetAt = w.resetAt /\ w.count + 1 > 0
        BY <2>2, <3>1
      <3> QED
        BY <2>1, <2>4, <3>2 DEF w
    <2> QED
      BY <2>3, <2>4
  <1>5. Unopened'
    <2> SUFFICES ASSUME NEW s \in Stores, NEW d \in Counters, window'[s][d].count = 0
                 PROVE  window'[s][d].resetAt = 0
      BY DEF Unopened
    <2>1. ~(s \in hits /\ d = c)
      BY <1>4
    <2> QED
      BY <1>1, <2>1 DEF Unopened
  <1>6. PassedInv'
    <2> SUFFICES ASSUME NEW s \in Stores, NEW d \in Counters
                 PROVE  /\ ~watching => passed'[s][d] = 0
                        /\ watching /\ window'[s][d].resetAt - Window < since =>
                               passed'[s][d] <= window'[s][d].count /\ passed'[s][d] <= Limit[d]
                        /\ watching /\ window'[s][d].resetAt - Window >= since /\ now < since + Window =>
                               /\ passed'[s][d] <= Limit[d] + window'[s][d].count
                               /\ passed'[s][d] <= 2 * Limit[d]
      BY <1>2 DEF PassedInv, Start
    <2>1. /\ ~watching => passed[s][d] = 0
          /\ watching /\ window[s][d].resetAt - Window < since =>
                 passed[s][d] <= window[s][d].count /\ passed[s][d] <= Limit[d]
          /\ watching /\ window[s][d].resetAt - Window >= since /\ now < since + Window =>
                 /\ passed[s][d] <= Limit[d] + window[s][d].count
                 /\ passed[s][d] <= 2 * Limit[d]
      BY DEF PassedInv, Start
    <2>2. \/ passed'[s][d] = passed[s][d]
          \/ watching /\ s \in hits /\ d = c /\ window'[s][d].count <= Limit[d]
               /\ passed'[s][d] = passed[s][d] + 1
      OBVIOUS
    <2>3. CASE s \in hits /\ d = c
      <3>1. window[s][d].count = 0 => window[s][d].resetAt = 0
        BY DEF Unopened
      <3> QED
        BY <1>3, <1>4, <2>1, <2>2, <2>3, <3>1
    <2>4. CASE ~(s \in hits /\ d = c)
      <3>1. window'[s][d] = window[s][d] /\ passed'[s][d] = passed[s][d]
        BY <1>1, <2>2, <2>4
      <3> QED
        BY <2>1, <3>1
    <2> QED
      BY <2>3, <2>4
  <1>7. PromiseInv'
    <2> SUFFICES ASSUME NEW q \in Requests, promise'[q] # NoPromise
                 PROVE  LET p == promise'[q]
                            w == window'[p.store][p.counter]
                        IN  /\ w.count > 0 /\ p.at >= p.until
                            /\ w.resetAt = p.until \/ w.resetAt >= p.until + Window
      BY DEF PromiseInv
    <2>1. CASE promise'[q] = promise[q]
      <3> DEFINE p == promise[q]
                 s == p.store
                 d == p.counter
      <3>1. p \in [at : Nat, until : Nat, store : Stores, counter : Counters]
        BY <2>1 DEF TypeOK, Promise
      <3>2. /\ window[s][d].count > 0 /\ p.at >= p.until
            /\ window[s][d].resetAt = p.until \/ window[s][d].resetAt >= p.until + Window
        BY <2>1 DEF PromiseInv
      <3>3. s \in Stores /\ d \in Counters /\ p.until \in Nat
        BY <3>1
      <3> HIDE DEF p, s, d
      <3>4. /\ window'[s][d].count > 0
            /\ window'[s][d].resetAt = p.until \/ window'[s][d].resetAt >= p.until + Window
        <4>1. CASE s \in hits /\ d = c
          BY <1>3, <1>4, <3>2, <3>3, <4>1
        <4>2. CASE ~(s \in hits /\ d = c)
          BY <1>1, <3>2, <3>3, <4>2
        <4> QED
          BY <4>1, <4>2
      <3> QED
        BY <2>1, <3>2, <3>4 DEF p, s, d
    <2>2. CASE promise'[q] # promise[q]
      <3> DEFINE s == promise'[q].store
      <3>1. /\ s \in hits /\ s \in Stores /\ promise'[q].counter = c
            /\ promise'[q].until = window'[s][c].resetAt /\ promise'[q].at >= promise'[q].until
        BY <2>2
      <3>2. window'[s][c].count > 0
        BY <1>4, <3>1
      <3> QED
        BY <3>1, <3>2
    <2> QED
      BY <2>1, <2>2
  <1> QED
    BY <1>5, <1>6, <1>7

LEMMA ConsumeStep ==
    ASSUME BudgetInv, NEW r \in Requests, NEW c \in Counters,
           NEW from \in Reach(r), NEW hits, hits \subseteq {from, Redis}, from \in hits,
           Consume(r, c, from, hits),
           \/ Allowed(from, c) /\ LetsPass(from, c)
           \/ ~Allowed(from, c) /\ Refuses(r, from, c),
           UNCHANGED <<now, observer>>
    PROVE  Unopened' /\ PassedInv' /\ PromiseInv'
  <1> USE DEF BudgetInv
  <1>1. /\ from \in Stores /\ from \in hits /\ window' = Counted(c, hits)
        /\ window' \in [Stores -> [Counters -> [count : Nat, resetAt : Nat]]]
    BY Consumes DEF Consume
  <1>2. \A s \in Stores, d \in Counters :
          \/ passed'[s][d] = passed[s][d]
          \/ watching /\ s \in hits /\ d = c /\ window'[s][d].count <= Limit[d]
               /\ passed'[s][d] = passed[s][d] + 1
    <2>1. CASE passed' = passed
      BY <2>1
    <2>2. CASE /\ watching /\ Allowed(from, c)
               /\ passed' = [passed EXCEPT ![from][c] = @ + 1]
      <3>1. passed \in [Stores -> [Counters -> Nat]]
        BY DEF TypeOK
      <3>2. \A s \in Stores, d \in Counters :
              passed'[s][d] = IF s = from /\ d = c THEN passed[s][d] + 1 ELSE passed[s][d]
        BY <1>1, <2>2, <3>1
      <3>3. window'[from][c].count <= Limit[c]
        BY <2>2 DEF Allowed
      <3> QED
        BY <1>1, <2>2, <3>2, <3>3
    <2> QED
      BY <2>1, <2>2 DEF LetsPass, Refuses
  <1>3. \A q \in Requests :
          \/ promise'[q] = promise[q]
          \/ /\ promise'[q].store \in hits \cap Stores /\ promise'[q].counter = c
             /\ promise'[q].until = window'[promise'[q].store][c].resetAt
             /\ promise'[q].at >= promise'[q].until
    <2>1. CASE LetsPass(from, c)
      BY <2>1 DEF LetsPass
    <2>2. CASE Refuses(r, from, c)
      <3> DEFINE until == window'[from][c].resetAt
                 p == [at |-> IF until > now THEN until ELSE now + Window,
                       until |-> until, store |-> from, counter |-> c]
      <3>1. promise' = [promise EXCEPT ![r] = p]
        BY <2>2 DEF Refuses
      <3>2. p.until = until /\ p.store = from /\ p.counter = c /\ p.at >= p.until
        BY <1>1, ConstantsAssumption DEF TypeOK
      <3> HIDE DEF p
      <3>3. promise'[r] = p /\ \A q \in Requests \ {r} : promise'[q] = promise[q]
        BY <3>1 DEF TypeOK
      <3> QED
        BY <1>1, <3>2, <3>3
    <2> QED
      BY <2>1, <2>2
  <1> QED
    BY <1>1, <1>2, <1>3, CountStep

LEMMA BudgetInit == Init => BudgetInv
  <1> SUFFICES ASSUME Init PROVE BudgetInv
    OBVIOUS
  <1>1. Unopened /\ PassedInv /\ PromiseInv
    BY DEF Init, Unopened, PassedInv, PromiseInv
  <1> QED
    BY <1>1, TypeInit DEF BudgetInv

LEMMA BudgetStep == BudgetInv /\ [Next]_vars => BudgetInv'
  <1> SUFFICES ASSUME BudgetInv, [Next]_vars PROVE BudgetInv'
    OBVIOUS
  <1>0. TypeOK /\ TypeOK'
    BY TypeStep DEF BudgetInv
  <1> DEFINE Kept == Unopened' /\ PassedInv' /\ PromiseInv'
  <1> SUFFICES Kept
    BY <1>0 DEF BudgetInv
  <1>1. CASE Tick
    <2>1. Unopened' /\ PromiseInv'
      BY <1>1 DEF Tick, limitVars, BudgetInv, Unopened, PromiseInv
    <2>2. PassedInv'
      BY <1>0, <1>1, ConstantsAssumption
      DEF Tick, limitVars, observer, BudgetInv, PassedInv, Start, TypeOK
    <2> QED
      BY <2>1, <2>2
  <1>2. CASE Watch
    <2>1. Unopened' /\ PromiseInv'
      BY <1>2 DEF Watch, limitVars, BudgetInv, Unopened, PromiseInv
    <2>2. \A s \in Stores, c \in Counters :
            /\ passed[s][c] = 0 /\ window[s][c].count \in Nat /\ Limit[c] \in Nat
      BY <1>0, <1>2, ConstantsAssumption DEF Watch, BudgetInv, PassedInv, TypeOK
    <2>3. PassedInv'
      BY <1>2, <2>2 DEF Watch, limitVars, PassedInv, Start
    <2> QED
      BY <2>1, <2>3
  <1>3. ASSUME NEW r \in Requests, NEW k \in Keys, ConsumeClient(r, k) PROVE Kept
    <2>1. Client \in Counters
      BY DEF Counters
    <2>2. PICK from \in Reach(r) : \E hits \in {{from}, {from, Redis}} :
            /\ Consume(r, Client, from, hits)
            /\ \/ Allowed(from, Client) /\ LetsPass(from, Client)
               \/ ~Allowed(from, Client) /\ Refuses(r, from, Client)
      BY <1>3 DEF ConsumeClient
    <2>3. PICK hits : /\ hits \subseteq {from, Redis} /\ from \in hits
                      /\ Consume(r, Client, from, hits)
                      /\ \/ Allowed(from, Client) /\ LetsPass(from, Client)
                         \/ ~Allowed(from, Client) /\ Refuses(r, from, Client)
      BY <2>2
    <2>4. UNCHANGED <<now, observer>>
      BY <1>3 DEF ConsumeClient
    <2> QED
      BY <2>1, <2>2, <2>3, <2>4, ConsumeStep
  <1>4. ASSUME NEW r \in Requests, ConsumeKey(r) PROVE Kept
    <2> DEFINE k == request[r].key
               n == request[r].remaining
    <2>1. k \in Keys /\ k \in Counters /\ n \in Nat
      BY <1>0, <1>4, AtKey DEF ConsumeKey, Counters
    <2>2. PICK from \in Reach(r) : \E hits \in {{from}, {from, Redis}} :
            /\ Consume(r, k, from, hits)
            /\ IF ReportsKey(from, k, n) /\ ~Allowed(from, k)
               THEN Refuses(r, from, k) ELSE LetsPass(from, k)
      BY <1>4 DEF ConsumeKey
    <2>3. PICK hits : /\ hits \subseteq {from, Redis} /\ from \in hits
                      /\ Consume(r, k, from, hits)
                      /\ IF ReportsKey(from, k, n) /\ ~Allowed(from, k)
                         THEN Refuses(r, from, k) ELSE LetsPass(from, k)
      BY <2>2
    <2>4. UNCHANGED <<now, observer>>
      BY <1>4 DEF ConsumeKey
    <2> HIDE DEF k, n
    <2>5. /\ from \in Stores
          /\ window' \in [Stores -> [Counters -> [count : Nat, resetAt : Nat]]]
      BY <1>0, <2>1, <2>2, <2>3, Consumes
    <2>6. \/ Allowed(from, k) /\ LetsPass(from, k)
          \/ ~Allowed(from, k) /\ Refuses(r, from, k)
      BY <1>0, <2>1, <2>3, <2>5, PassesWithinBudget
    <2> QED
      BY <2>1, <2>2, <2>3, <2>4, <2>6, ConsumeStep
  <1>5. ASSUME NEW r \in Requests, CountsInVain(r) PROVE Kept
    <2>1. PICK c \in Counters : window' = Counted(c, {Redis})
      <3>1. request[r].pc = "key" => request[r].key \in Counters
        BY <1>0, AtKey DEF Counters
      <3> QED
        BY <1>5, <3>1 DEF CountsInVain, Counters
    <2>2. passed' = passed /\ promise' = promise /\ UNCHANGED <<now, observer>>
      BY <1>5 DEF CountsInVain
    <2> QED
      BY <2>1, <2>2, CountStep
  <1>6. ASSUME UNCHANGED <<now, limitVars, observer>> PROVE Kept
    BY <1>6 DEF limitVars, observer, BudgetInv, Unopened, PassedInv, PromiseInv, Start
  <1>7. ASSUME NEW r \in Requests,
               Ask(r) \/ TakeToken(r) \/ Sleep(r) \/ GoOnWithout(r) \/ RedisFails(r)
        PROVE  UNCHANGED <<now, limitVars, observer>>
    BY <1>7 DEF Ask, TakeToken, Sleep, GoOnWithout, RedisFails
  <1>8. CASE UNCHANGED vars
    BY <1>6, <1>8 DEF vars
  <1> QED
    BY <1>1, <1>2, <1>3, <1>4, <1>5, <1>6, <1>7, <1>8 DEF Next

\* The inductive invariant of the budgets holds in every reachable state.
THEOREM BudgetInvariance == Spec => []BudgetInv
  <1>1. BudgetInv /\ [Next]_vars => BudgetInv'
    BY BudgetStep
  <1> QED
    BY BudgetInit, <1>1, PTL DEF Spec

\* In any interval no longer than a window a store lets at most two windows'
\* budget pass, and one window's if none begins in it (api-rate-limit.ts:41-66).
THEOREM BudgetsHold == Spec => []BudgetKept
  <1>1. BudgetInv => BudgetKept
    <2> SUFFICES ASSUME BudgetInv, NEW s \in Stores, NEW c \in Counters,
                        watching, now < since + Window
                 PROVE  /\ passed[s][c] <= 2 * Limit[c]
                        /\ window[s][c].resetAt - Window < since => passed[s][c] <= Limit[c]
      BY DEF BudgetKept
    <2>1. /\ window[s][c].resetAt \in Nat /\ passed[s][c] \in Nat /\ since \in Nat
          /\ Limit[c] \in Nat /\ Window \in Nat
      BY ConstantsAssumption DEF BudgetInv, TypeOK
    <2> QED
      BY <2>1 DEF BudgetInv, PassedInv, Start
  <1> QED
    BY BudgetInvariance, <1>1, PTL

\* Whoever comes back at the time a 429 named does not meet the window that
\* refused it, not even when the 429 was given in the tick in which a window of
\* Redis expires (api-rate-limit.ts:71-72, 82-96).
THEOREM ResetsHold == Spec => []ResetIsKept
  <1>1. BudgetInv => ResetIsKept
    <2> SUFFICES ASSUME BudgetInv, NEW r \in Requests, promise[r] # NoPromise,
                        IF promise[r].store = Redis THEN promise[r].at < now ELSE promise[r].at <= now
                 PROVE  LET p == promise[r]
                            w == window[p.store][p.counter]
                        IN  Over(p.store, w) \/ w.resetAt >= p.until + Window
      BY DEF ResetIsKept
    <2> DEFINE p == promise[r]
               w == window[p.store][p.counter]
    <2>1. /\ p.at \in Nat /\ p.until \in Nat /\ now \in Nat /\ w.resetAt \in Nat
          /\ p.at >= p.until /\ (w.resetAt = p.until \/ w.resetAt >= p.until + Window)
      <3>1. p \in [at : Nat, until : Nat, store : Stores, counter : Counters]
        BY DEF BudgetInv, TypeOK, Promise
      <3> QED
        BY <3>1 DEF BudgetInv, TypeOK, PromiseInv
    <2> HIDE DEF w
    <2> SUFFICES Over(p.store, w) \/ w.resetAt >= p.until + Window
      BY DEF w
    <2> QED
      BY <2>1 DEF Over
  <1> QED
    BY BudgetInvariance, <1>1, PTL

----------------------------------------------------------------------------
(* One deployment, one count: Redis is configured and answers *)

\* Redis answered every call so far.
RedisAnswers == faults = 0

\* No instance counts for itself: what is let pass and taken, Redis has counted,
\* and every call of the provider took a token or gave up waiting for one.
OnlyRedisCounts ==
    /\ \A i \in Instances : granted[i] = 0 /\ \A c \in Counters : passed[i][c] = 0
    /\ \A r \in Requests : request[r].pc = "slot" => request[r].store = Redis
    /\ calls = granted[Redis] + without

\* While Redis answers nobody turns to an instance's own counts.
LEMMA OnlyRedisStep ==
    ASSUME TypeOK, UseRedis, OnlyRedisCounts, RedisAnswers, [Next]_vars, RedisAnswers'
    PROVE  OnlyRedisCounts'
  <1> USE ConstantsAssumption DEF RedisAnswers
  <1>1. \A r \in Requests : request[r].pc = "slot" => request[r] \in Waiting /\ request[r].store = Redis
    BY AtSlot DEF OnlyRedisCounts
  <1>2. \A i \in Instances : i \in Stores /\ i # Redis
    BY DEF Stores
  <1>3. ASSUME NEW c \in Counters, NEW f \in Stores, f = Redis,
               LetsPass(f, c) \/ UNCHANGED passed
        PROVE  \A i \in Instances, d \in Counters : passed'[i][d] = 0
    BY <1>2, <1>3 DEF LetsPass, OnlyRedisCounts, TypeOK
  <1>4. Redis \in Stores
    BY DEF Stores
  <1>5. ASSUME NEW r \in Requests, NEW k \in Keys, ConsumeClient(r, k) PROVE OnlyRedisCounts'
    <2>1. PICK from \in Reach(r) :
             /\ \E hits \in {{from}, {from, Redis}} : Consume(r, Client, from, hits)
             /\ \/ /\ Goes(r, [pc |-> "key", key |-> k, remaining |-> Remaining(from, Client)])
                   /\ LetsPass(from, Client)
                \/ Goes(r, Idle) /\ UNCHANGED passed
      BY <1>5 DEF ConsumeClient, Refuses
    <2>2. from = Redis
      BY <2>1 DEF Consume, Fault, TypeOK
    <2>3. \A i \in Instances, d \in Counters : passed'[i][d] = 0
      BY <1>3, <1>4, <2>1, <2>2 DEF Counters
    <2>4. \A q \in Requests : request'[q].pc = "slot" => request'[q] = request[q]
      BY <2>1 DEF Goes, Idle, TypeOK
    <2> QED
      BY <1>1, <1>5, <2>3, <2>4 DEF OnlyRedisCounts, ConsumeClient, throttleVars
  <1>6. ASSUME NEW r \in Requests, ConsumeKey(r) PROVE OnlyRedisCounts'
    <2>1. request[r].key \in Keys
      BY <1>6, AtKey DEF ConsumeKey
    <2>2. PICK from \in Reach(r) :
             /\ \E hits \in {{from}, {from, Redis}} : Consume(r, request[r].key, from, hits)
             /\ \/ Goes(r, Idle) /\ UNCHANGED passed
                \/ LetsPass(from, request[r].key) /\ Goes(r, Slot(Redis))
      BY <1>6 DEF ConsumeKey, Refuses
    <2>3. from = Redis
      BY <2>2 DEF Consume, Fault, TypeOK
    <2>4. \A i \in Instances, d \in Counters : passed'[i][d] = 0
      BY <1>3, <1>4, <2>1, <2>2, <2>3 DEF Counters
    <2>5. \A q \in Requests : request'[q].pc = "slot" =>
             request'[q] = request[q] \/ request'[q].store = Redis
      BY <2>2 DEF Goes, Idle, Slot, TypeOK
    <2> QED
      BY <1>1, <1>6, <2>4, <2>5 DEF OnlyRedisCounts, ConsumeKey, throttleVars
  <1>7. ASSUME NEW r \in Requests, TakeToken(r) PROVE OnlyRedisCounts'
    <2>1. request[r].store = Redis
      BY <1>1, <1>7 DEF TakeToken, Ready
    <2>2. /\ \A i \in Instances : granted'[i] = granted[i]
          /\ granted'[Redis] = IF watching THEN granted[Redis] + 1 ELSE granted[Redis]
      BY <1>2, <1>4, <1>7, <2>1 DEF TakeToken, TypeOK
    <2>3. \A q \in Requests : request'[q].pc = "slot" =>
             request[q].pc = "slot" /\ request'[q].store = request[q].store
      BY <1>1, <1>7 DEF TakeToken, Overtakes, Idle, Waiting
    <2>4. calls' = granted'[Redis] + without'
      BY <1>4, <1>7, <2>2 DEF TakeToken, CallsProvider, OnlyRedisCounts, TypeOK
    <2> QED
      BY <1>1, <1>7, <2>2, <2>3, <2>4 DEF OnlyRedisCounts, TakeToken, limitVars
  <1>8. ASSUME NEW r \in Requests, Sleep(r) \/ Ask(r) PROVE OnlyRedisCounts'
    <2>1. \A q \in Requests : request'[q].pc = "slot" =>
             request[q].pc = "slot" /\ request'[q].store = request[q].store
      <3> DEFINE asking == [request[r] EXCEPT !.asked = now]
                 woken == [request[r] EXCEPT !.tries = @ + 1, !.wake = now + Wait(Refilled(r)),
                                             !.asked = Unasked, !.overtaken = FALSE]
      <3>1. request[r].pc = "slot" /\ (Goes(r, asking) \/ Goes(r, woken))
        BY <1>8 DEF Sleep, Ask, Ready
      <3>2. asking.store = request[r].store /\ woken.store = request[r].store
        BY <1>1, <3>1 DEF Waiting
      <3> HIDE DEF asking, woken
      <3> QED
        BY <3>1, <3>2 DEF Goes, TypeOK
    <2> QED
      BY <1>1, <1>8, <2>1 DEF OnlyRedisCounts, Sleep, Ask, limitVars, throttleVars
  <1>9. ASSUME NEW r \in Requests, GoOnWithout(r) PROVE OnlyRedisCounts'
    <2>1. \A q \in Requests : request'[q].pc = "slot" => request'[q] = request[q]
      BY <1>9 DEF GoOnWithout, Goes, Idle, TypeOK
    <2>2. calls' = granted[Redis] + without'
      BY <1>4, <1>9 DEF GoOnWithout, CallsProvider, OnlyRedisCounts, TypeOK
    <2> QED
      BY <1>1, <1>9, <2>1, <2>2 DEF OnlyRedisCounts, GoOnWithout, limitVars
  <1>10. ASSUME NEW r \in Requests, RedisFails(r) \/ CountsInVain(r) PROVE FALSE
    BY <1>10 DEF RedisFails, CountsInVain, Fault
  <1>11. CASE Tick \/ Watch \/ UNCHANGED vars
    BY <1>11 DEF OnlyRedisCounts, Tick, Watch, vars, limitVars, throttleVars
  <1> QED
    BY <1>5, <1>6, <1>7, <1>8, <1>9, <1>10, <1>11 DEF Next

\* With Redis configured and answering, every request that passed a budget and
\* every token taken was counted in Redis, whichever instance asked
\* (api-rate-limit.ts:82-96, rate-limit.ts:96-135).
THEOREM RedisCountsForAll ==
    ASSUME UseRedis
    PROVE  Spec /\ []RedisAnswers => []OnlyRedisCounts
  <1>1. Init => OnlyRedisCounts
    BY ConstantsAssumption DEF Init, OnlyRedisCounts, Idle, Stores
  <1>2. TypeOK /\ OnlyRedisCounts /\ RedisAnswers /\ [Next]_vars /\ RedisAnswers' => OnlyRedisCounts'
    BY OnlyRedisStep
  <1> QED
    BY <1>1, <1>2, LimitsTypeCorrect, PTL DEF Spec

\* So the budgets hold for the deployment as a whole: what Redis lets pass obeys
\* them, and nothing else passes.
THEOREM BudgetsHoldForAll ==
    ASSUME UseRedis
    PROVE  Spec /\ []RedisAnswers => [](BudgetKept /\ OnlyRedisCounts)
  <1> QED
    BY RedisCountsForAll, BudgetsHold, PTL

\* "Backed by Redis when REDIS_URL is set, so the bucket is shared across
\* instances" (rate-limit.ts:10-11): while Redis answers, the whole deployment
\* makes no more calls in any interval, but for those that gave up waiting for a
\* token (line 164), than a full bucket, what the time mints and the loans.
THEOREM DeploymentKeepsTheRate ==
    ASSUME UseRedis
    PROVE  Spec /\ []RedisAnswers =>
             [](watching =>
                  Cost * (calls - without) <= Capacity + Mint * (now - since) + (1 + late) * Loan)
  <1>1. TypeOK /\ ProviderRateKept /\ OnlyRedisCounts =>
          (watching =>
             Cost * (calls - without) <= Capacity + Mint * (now - since) + (1 + late) * Loan)
    <2> SUFFICES ASSUME TypeOK, ProviderRateKept, OnlyRedisCounts, watching
                 PROVE  Cost * (calls - without)
                          <= Capacity + Mint * (now - since) + (1 + late) * Loan
      OBVIOUS
    <2>1. granted[Redis] = calls - without
      BY DEF OnlyRedisCounts, TypeOK, Stores
    <2>2. Cost * granted[Redis] <= Capacity + Mint * (now - since) + (1 + late) * Loan
      BY DEF ProviderRateKept, Stores
    <2> QED
      BY <2>1, <2>2
  <1> QED
    BY <1>1, LimitsTypeCorrect, ProviderRateHolds, RedisCountsForAll, PTL

----------------------------------------------------------------------------
(* When a run of the script is late *)

\* Calls of different instances are never under way at the same time.
CallsInTurn == \A q, r \in Requests : Calling(q) /\ Calling(r) => Home[q] = Home[r]

\* The time stored in Redis is behind, and behind every time read for a call.
InOrder ==
    /\ late = 0
    /\ bucket[Redis].lastRefill <= now
    /\ \A r \in Requests : Calling(r) => bucket[Redis].lastRefill <= request[r].asked

\* Who runs the script is the first that asked, and it stores its own time.
LEMMA InOrderRefill ==
    ASSUME TypeOK, AtHome, CallsInTime, CallsInTurn, InOrder, MaxSkew = 0,
           NEW r \in Requests, Ready(r), Refill(r), now' = now,
           \A q \in Requests : request'[q].pc = "slot" =>
             \/ request'[q].asked = Unasked
             \/ request[q].pc = "slot" /\ request'[q].asked = request[q].asked
    PROVE  InOrder'
  <1>1. \A q \in Requests : Skew[Home[q]] = 0
    BY ConstantsAssumption
  <1>2. \A q \in Requests : Calling(q)' => Calling(q) /\ request'[q].asked = request[q].asked
    BY DEF Calling
  <1>3. CASE request[r].store # Redis
    <2>1. bucket'[Redis] = bucket[Redis] /\ late' = late
      BY <1>3, Refills DEF Refill, Stores
    <2> QED
      BY <1>2, <2>1 DEF InOrder
  <1>4. CASE request[r].store = Redis
    <2>1. /\ Calling(r) /\ request[r].asked \in Nat
          /\ \A q \in Requests :
               Home[q] = Home[r] /\ Calling(q) => request[r].asked <= request[q].asked
      BY <1>4, AtSlot DEF Ready, Calling, Waiting
    <2>2. Reading(r) = request[r].asked
      BY <1>1, <1>4, <2>1 DEF Reading
    <2>3. bucket'[Redis].lastRefill = request[r].asked
      BY <1>4, <2>2, Refills DEF StoredTime
    <2>4. late' = 0
      <3>1. bucket[Redis].lastRefill <= request[r].asked /\ bucket[Redis].lastRefill \in Nat
        BY <2>1 DEF InOrder, TypeOK, Stores
      <3>2. ~(Reading(r) < bucket[Redis].lastRefill)
        BY <2>1, <2>2, <3>1
      <3> QED
        BY <1>4, <3>2 DEF Refill, InOrder
    <2>5. request[r].asked <= now
      BY <2>1 DEF CallsInTime
    <2>6. \A q \in Requests : Calling(q) => request[r].asked <= request[q].asked
      BY <2>1 DEF CallsInTurn
    <2> QED
      BY <1>2, <2>3, <2>4, <2>5, <2>6 DEF InOrder
  <1> QED
    BY <1>3, <1>4

LEMMA InOrderStep ==
    ASSUME TypeOK, AtHome, CallsInTime, CallsInTurn, InOrder, MaxSkew = 0, [Next]_vars
    PROVE  InOrder'
  <1>1. ASSUME UNCHANGED <<bucket, late>>, now' \in Nat, now' >= now,
               \A q \in Requests : Calling(q)' =>
                 \/ Calling(q) /\ request'[q].asked = request[q].asked
                 \/ request'[q].asked = now
        PROVE  InOrder'
    <2>1. bucket[Redis].lastRefill \in Nat /\ now \in Nat
      BY DEF TypeOK, Stores
    <2> QED
      BY <1>1, <2>1 DEF InOrder
  <1>2. CASE Tick \/ Watch \/ UNCHANGED vars
    <2>1. now' \in Nat /\ now' >= now /\ UNCHANGED <<bucket, late, request>>
      BY <1>2 DEF Tick, Watch, vars, throttleVars, TypeOK
    <2> QED
      BY <1>1, <2>1 DEF Calling
  <1>3. ASSUME NEW r \in Requests,
               \/ \E k \in Keys : ConsumeClient(r, k)
               \/ ConsumeKey(r) \/ CountsInVain(r) \/ Ask(r) \/ GoOnWithout(r)
               \/ RedisFails(r) /\ UNCHANGED <<bucket, late>>
                    /\ Goes(r, Slot(Home[r]))
        PROVE  InOrder'
    <2>1. now' = now /\ now \in Nat /\ UNCHANGED <<bucket, late>>
      BY <1>3 DEF ConsumeClient, ConsumeKey, CountsInVain, Ask, GoOnWithout, RedisFails,
                  throttleVars, TypeOK
    <2>2. ASSUME NEW record, Goes(r, record),
                 record.pc = "slot" => record.asked = Unasked \/ record.asked = now
          PROVE  InOrder'
      <3>1. \A q \in Requests : request'[q] = IF q = r THEN record ELSE request[q]
        BY <2>2 DEF Goes, TypeOK
      <3>2. \A q \in Requests : Calling(q)' =>
              \/ Calling(q) /\ request'[q].asked = request[q].asked
              \/ request'[q].asked = now
        BY <2>2, <3>1 DEF Calling
      <3> QED
        BY <1>1, <2>1, <3>2
    <2>3. CASE CountsInVain(r)
      <3>1. request' = request
        BY <2>3 DEF CountsInVain
      <3> QED
        BY <1>1, <2>1, <3>1 DEF Calling
    <2>4. CASE \E k \in Keys : ConsumeClient(r, k)
      <3>1. PICK record : Goes(r, record) /\ record.pc \in {"idle", "key"}
        BY <2>4 DEF ConsumeClient, Refuses, Idle
      <3> QED
        BY <2>2, <3>1
    <2>5. CASE ConsumeKey(r)
      <3>1. PICK record : Goes(r, record) /\ (record.pc = "slot" => record.asked = Unasked)
        BY <2>5 DEF ConsumeKey, Refuses, Idle, Slot
      <3> QED
        BY <2>2, <3>1
    <2>6. CASE Ask(r)
      <3>1. [request[r] EXCEPT !.asked = now].asked = now
        BY <2>6, AtSlot DEF Ask, Waiting
      <3> QED
        BY <2>2, <2>6, <3>1 DEF Ask
    <2>7. CASE GoOnWithout(r)
      BY <2>2, <2>7 DEF GoOnWithout, Idle
    <2>8. CASE Goes(r, Slot(Home[r]))
      BY <2>2, <2>8 DEF Slot
    <2> QED
      BY <1>3, <2>3, <2>4, <2>5, <2>6, <2>7, <2>8
  <1>4. ASSUME NEW r \in Requests, NEW record, Overtakes(r, record),
               record.pc = "slot" =>
                 \/ record.asked = Unasked
                 \/ request[r].pc = "slot" /\ record.asked = request[r].asked
        PROVE  \A q \in Requests : request'[q].pc = "slot" =>
                 \/ request'[q].asked = Unasked
                 \/ request[q].pc = "slot" /\ request'[q].asked = request[q].asked
    <2>1. \A q \in Requests : request[q].pc = "slot" =>
            [request[q] EXCEPT !.overtaken = TRUE].asked = request[q].asked
      BY AtSlot DEF Waiting
    <2> QED
      BY <1>4, <2>1 DEF Overtakes, TypeOK
  <1>5. ASSUME NEW r \in Requests, NEW record, Goes(r, record),
               record.pc = "slot" =>
                 \/ record.asked = Unasked
                 \/ request[r].pc = "slot" /\ record.asked = request[r].asked
        PROVE  \A q \in Requests : request'[q].pc = "slot" =>
                 \/ request'[q].asked = Unasked
                 \/ request[q].pc = "slot" /\ request'[q].asked = request[q].asked
    BY <1>5 DEF Goes, TypeOK
  <1>6. ASSUME NEW r \in Requests, TakeToken(r) PROVE InOrder'
    <2>1. /\ Ready(r) /\ Refill(r) /\ now' = now /\ Overtakes(r, Idle) /\ Idle.pc # "slot"
      BY <1>6 DEF TakeToken, Idle
    <2> QED
      BY <1>4, <2>1, InOrderRefill
  <1>7. ASSUME NEW r \in Requests, Sleep(r) PROVE InOrder'
    <2> DEFINE woken == [request[r] EXCEPT !.tries = @ + 1, !.wake = now + Wait(Refilled(r)),
                                           !.asked = Unasked, !.overtaken = FALSE]
    <2>1. Ready(r) /\ Refill(r) /\ now' = now /\ Goes(r, woken)
      BY <1>7 DEF Sleep
    <2>2. woken.asked = Unasked
      BY <2>1, AtSlot DEF Ready, Waiting
    <2> HIDE DEF woken
    <2> QED
      BY <1>5, <2>1, <2>2, InOrderRefill
  <1>8. ASSUME NEW r \in Requests, RedisFails(r) PROVE InOrder'
    <2> DEFINE again == [request[r] EXCEPT !.overtaken = @ \/ HasToken(r)]
    <2>1. CASE Goes(r, Slot(Home[r])) /\ UNCHANGED <<bucket, late>>
      BY <1>3, <1>8, <2>1
    <2>2. CASE /\ Ready(r) /\ Refill(r)
               /\ \E next \in {Slot(Home[r]), again} :
                    IF HasToken(r) THEN Overtakes(r, next) ELSE Goes(r, next)
      <3>1. again.asked = request[r].asked /\ request[r].pc = "slot" /\ Slot(Home[r]).asked = Unasked
        BY <2>2, AtSlot DEF Ready, Waiting, Slot
      <3> HIDE DEF again
      <3>2. PICK next \in {Slot(Home[r]), again} : Overtakes(r, next) \/ Goes(r, next)
        BY <2>2
      <3>3. next.asked = Unasked \/ next.asked = request[r].asked
        BY <3>1, <3>2
      <3>4. \A q \in Requests : request'[q].pc = "slot" =>
              \/ request'[q].asked = Unasked
              \/ request[q].pc = "slot" /\ request'[q].asked = request[q].asked
        BY <1>4, <1>5, <3>1, <3>2, <3>3
      <3>5. now' = now
        BY <1>8 DEF RedisFails
      <3> QED
        BY <2>2, <3>4, <3>5, InOrderRefill
    <2> QED
      BY <1>8, <2>1, <2>2 DEF RedisFails
  <1> QED
    BY <1>2, <1>3, <1>6, <1>7, <1>8 DEF Next

\* With clocks that agree a run of the script is late only when a call of another
\* instance overtook it: one instance's own calls run in the order in which their
\* times were read (rate-limit.ts:64-93, 133-135).
THEOREM CallsInTurnAreNeverLate ==
    ASSUME MaxSkew = 0
    PROVE  Spec /\ []CallsInTurn => [](late = 0)
  <1>1. Init => InOrder
    <2> SUFFICES ASSUME Init PROVE InOrder
      OBVIOUS
    <2>1. Redis \in Stores /\ \A r \in Requests : ~Calling(r)
      BY DEF Init, Stores, Calling, Idle
    <2> QED
      BY <2>1 DEF Init, InOrder
  <1>2. ThrottleInv /\ CallsInTurn /\ InOrder /\ [Next]_vars => InOrder'
    BY InOrderStep DEF ThrottleInv
  <1>3. InOrder => late = 0
    BY DEF InOrder
  <1> QED
    BY <1>1, <1>2, <1>3, ThrottleInvariance, PTL DEF Spec

=============================================================================
