---------------------------- MODULE Guard_proofs ----------------------------
(***************************************************************************)
(* Proofs about the connection limiter and the rate limiter, for all       *)
(* limits, rates, bursts and sets of keys and requests; about Guard, under *)
(* which each of the two behaves as it does alone, so that what is proved  *)
(* of one holds in the chain; and about Guard's clients.                   *)
(*                                                                         *)
(* Multiplication occurs in three lemmas about Accrued only; the steps of  *)
(* the limiter use those and never expand Accrued.                         *)
(***************************************************************************)
EXTENDS Caller, FiniteSetTheorems, TLAPS

-----------------------------------------------------------------------------
(* The connection limiter, for every limit and every set of requests. *)

\* Every set of requests is finite, and its size is a natural number.
LEMMA RequestSetsFinite ==
  ASSUME NEW S \in SUBSET Requests
  PROVE  IsFiniteSet(S) /\ Cardinality(S) \in Nat
BY LimiterAssumption, FS_Subset, FS_CardinalityType

\* One request more, one request less.
LEMMA AddOne ==
  ASSUME NEW S \in SUBSET Requests, NEW r \in Requests, r \notin S
  PROVE  Cardinality(S \cup {r}) = Cardinality(S) + 1
BY RequestSetsFinite, FS_AddElement

LEMMA RemoveOne ==
  ASSUME NEW S \in SUBSET Requests, NEW r \in S
  PROVE  Cardinality(S \ {r}) = Cardinality(S) - 1
BY RequestSetsFinite, FS_RemoveElement

\* A subset is no larger.
LEMMA SubsetSmaller ==
  ASSUME NEW T \in SUBSET Requests, NEW S \in SUBSET T
  PROVE  Cardinality(S) <= Cardinality(T)
BY RequestSetsFinite, FS_Subset

\* The initial state satisfies the invariant: nobody is counted.
LEMMA InitInv == Init => Inv
<1> SUFFICES ASSUME Init PROVE Inv
  OBVIOUS
<1>1. TypeOK
  BY DEF Init, TypeOK
<1>2. Counted = {} /\ Admitted = {}
  BY DEF Init, Counted, Admitted
<1>3. Cardinality({}) = 0
  BY FS_EmptySet
<1> QED
  BY <1>1, <1>2, <1>3, LimiterAssumption DEF Init, Inv, CounterExact

\* Add(1) counts one request more; if the sum is within the limit, so is the
\* number of admitted requests, all of which are counted.
LEMMA AddPreserves ==
  ASSUME Inv, NEW r \in Requests, Add(r)
  PROVE  Inv'
<1> USE LimiterAssumption
<1>1. TypeOK'
  BY DEF Inv, TypeOK, Add
<1>2. Counted' = Counted \cup {r} /\ r \notin Counted /\ Counted \in SUBSET Requests
  BY DEF Inv, TypeOK, Add, Counted
<1>3. Cardinality(Counted') = Cardinality(Counted) + 1
  BY <1>2, AddOne
<1>4. CounterExact'
  BY <1>3 DEF Inv, CounterExact, Add
<1>5. Cardinality(Admitted') <= max
  <2>1. CASE active + 1 <= max
    <3>1. Admitted' \in SUBSET Counted' /\ Counted' \in SUBSET Requests
      BY <1>2 DEF Inv, TypeOK, Add, Counted, Admitted
    <3>2. Cardinality(Admitted') <= Cardinality(Counted')
      BY <3>1, SubsetSmaller
    <3>3. Cardinality(Counted') = active + 1
      BY <1>4 DEF CounterExact, Add
    <3>4. Cardinality(Admitted') \in Nat /\ Cardinality(Counted') \in Nat
      BY <3>1, RequestSetsFinite
    <3> QED
      BY <2>1, <3>2, <3>3, <3>4
  <2>2. CASE ~(active + 1 <= max)
    <3>1. Admitted' = Admitted
      BY <2>2 DEF Inv, TypeOK, Add, Admitted
    <3> QED
      BY <3>1 DEF Inv
  <2> QED
    BY <2>1, <2>2
<1>6. \A q \in Requests : rpc'[q] \in {"serve", "release"} => current'[q] <= max
  BY DEF Inv, TypeOK, Add
<1> QED
  BY <1>1, <1>4, <1>5, <1>6 DEF Inv

\* Moving on inside the middleware changes nobody's count.
LEMMA CheckServePreserves ==
  ASSUME Inv, NEW r \in Requests, Check(r) \/ ServeHTTP(r)
  PROVE  Inv'
<1> USE LimiterAssumption
<1>1. TypeOK'
  BY DEF Inv, TypeOK, Check, ServeHTTP
<1>2. Counted' = Counted /\ Admitted' = Admitted
  BY DEF Inv, TypeOK, Check, ServeHTTP, Counted, Admitted
<1>3. CounterExact'
  BY <1>2 DEF Inv, CounterExact, Check, ServeHTTP
<1>4. \A q \in Requests : rpc'[q] \in {"serve", "release"} => current'[q] <= max
  BY DEF Inv, TypeOK, Check, ServeHTTP
<1> QED
  BY <1>1, <1>2, <1>3, <1>4 DEF Inv

\* Add(-1), by a rejected or by a finished request, uncounts that request.
LEMMA LeavePreserves ==
  ASSUME Inv, NEW r \in Requests, Reject(r) \/ Release(r)
  PROVE  Inv'
<1> USE LimiterAssumption
<1>1. Counted' = Counted \ {r} /\ r \in Counted /\ Counted \in SUBSET Requests
  BY DEF Inv, TypeOK, Reject, Release, Counted
<1>2. Cardinality(Counted') = Cardinality(Counted) - 1
  BY <1>1, RemoveOne
<1>3. CounterExact'
  BY <1>2 DEF Inv, CounterExact, Reject, Release
<1>4. TypeOK'
  <2>1. active' \in Nat
    BY <1>1, <1>3, RequestSetsFinite DEF CounterExact
  <2> QED
    BY <2>1 DEF Inv, TypeOK, Reject, Release
<1>5. Admitted' \in SUBSET Admitted /\ Admitted \in SUBSET Requests
  BY DEF Inv, TypeOK, Reject, Release, Admitted
<1>6. /\ Cardinality(Admitted') <= Cardinality(Admitted)
      /\ Cardinality(Admitted') \in Nat /\ Cardinality(Admitted) \in Nat
  BY <1>5, SubsetSmaller, RequestSetsFinite
<1>7. Cardinality(Admitted') <= max
  BY <1>6 DEF Inv
<1>8. \A q \in Requests : rpc'[q] \in {"serve", "release"} => current'[q] <= max
  BY DEF Inv, TypeOK, Reject, Release
<1> QED
  BY <1>3, <1>4, <1>7, <1>8 DEF Inv

\* Inv is an invariant of the limiter.
THEOREM InvHolds == Spec => []Inv
<1>1. Inv /\ [Next]_vars => Inv'
  <2> SUFFICES ASSUME Inv, [Next]_vars PROVE Inv'
    OBVIOUS
  <2>1. CASE UNCHANGED vars
    BY <2>1 DEF vars, Inv, TypeOK, CounterExact, Counted, Admitted
  <2>2. ASSUME NEW r \in Requests, Add(r) PROVE Inv'
    BY <2>2, AddPreserves
  <2>3. ASSUME NEW r \in Requests, Check(r) \/ ServeHTTP(r) PROVE Inv'
    BY <2>3, CheckServePreserves
  <2>4. ASSUME NEW r \in Requests, Reject(r) \/ Release(r) PROVE Inv'
    BY <2>4, LeavePreserves
  <2> QED
    BY <2>1, <2>2, <2>3, <2>4 DEF Next
<1> QED
  BY InitInv, <1>1, PTL DEF Spec

\* For every limit and any number of concurrent requests, no more than max
\* of them are inside the wrapped handler.
THEOREM NeverOverTheLimit == Spec => []AtMostMax
<1>1. Inv => AtMostMax
  <2> SUFFICES ASSUME Inv PROVE AtMostMax
    OBVIOUS
  <2> DEFINE Serving == {r \in Requests : rpc[r] = "serve"}
  <2>1. Serving \in SUBSET Admitted /\ Admitted \in SUBSET Requests
    BY DEF Inv, Admitted
  <2>2. /\ Cardinality(Serving) <= Cardinality(Admitted)
        /\ Cardinality(Serving) \in Nat /\ Cardinality(Admitted) \in Nat
    BY <2>1, SubsetSmaller, RequestSetsFinite
  <2> QED
    BY <2>2, LimiterAssumption DEF Inv, AtMostMax
<1> QED
  BY InvHolds, <1>1, PTL

\* No request ever leaves a count behind.
THEOREM CounterNeverLeaks == Spec => []CounterExact
<1>1. Inv => CounterExact
  BY DEF Inv
<1> QED
  BY InvHolds, <1>1, PTL

-----------------------------------------------------------------------------
(* The rate limiter. *)

\* A bucket stays between empty and full.
LEMMA RefillBounds ==
  ASSUME NEW b \in Nat, NEW p \in Nat, NEW t \in 0..b
  PROVE  /\ Refill(t, p, b) \in 0..b
         /\ Refill(t, p, b) = b \/ Refill(t, p, b) = t + p
BY DEF Refill

\* In the tick in which it was seen a bucket owes nothing.
LEMMA AccruedAtOnce ==
  ASSUME NEW t \in 0..PerKeyBurst
  PROVE  Accrued(t, 0)
<1>1. PerKeyPerTick * 0 = 0
  BY RateAssumption
<1> QED
  BY <1>1, RateAssumption DEF Accrued

\* A tick brings what a tick is worth.
LEMMA AccruedInATick ==
  ASSUME NEW t \in 0..PerKeyBurst, NEW d \in Nat, Accrued(t, d)
  PROVE  Accrued(Refill(t, PerKeyPerTick, PerKeyBurst), d + 1)
<1> DEFINE u == Refill(t, PerKeyPerTick, PerKeyBurst)
           x == PerKeyPerTick * d
           y == PerKeyPerTick * (d + 1)
<1>1. PerKeyPerTick \in Nat /\ PerKeyBurst \in Nat
  BY RateAssumption
<1>2. u = PerKeyBurst \/ u = t + PerKeyPerTick
  BY <1>1, RefillBounds
<1>3. u \in 0..PerKeyBurst
  BY <1>1, RefillBounds
<1>4. x \in Int /\ y = x + PerKeyPerTick
  BY <1>1
<1>5. t = PerKeyBurst \/ t >= x
  BY DEF Accrued
<1> HIDE DEF u, x, y
<1>6. u = PerKeyBurst \/ u >= y
  BY <1>1, <1>2, <1>3, <1>4, <1>5
<1> QED
  BY <1>6 DEF Accrued, u, y

\* After KeyLimiterTTL ticks a bucket is full.
LEMMA AccruedIsFull ==
  ASSUME NEW t \in 0..PerKeyBurst, NEW d \in Nat, Accrued(t, d),
         KeyLimiterTTL > 0, KeyLimiterTTL <= d
  PROVE  t = PerKeyBurst
<1> DEFINE x == PerKeyPerTick * d
           y == PerKeyPerTick * KeyLimiterTTL
<1>1. PerKeyPerTick \in Nat /\ PerKeyBurst \in Nat /\ KeyLimiterTTL \in Nat /\ PerKeyBurst <= y
  BY RateAssumption
<1>2. x \in Int /\ y \in Int /\ y <= x
  BY <1>1
<1>3. t = PerKeyBurst \/ t >= x
  BY DEF Accrued
<1> HIDE DEF x, y
<1> QED
  BY <1>1, <1>2, <1>3

\* The initial state satisfies the invariant: no key is known.
LEMMA RateInitInv == RateInit => RateInv
<1> SUFFICES ASSUME RateInit PROVE RateInv
  OBVIOUS
<1>1. RateTypeOK
  BY RateAssumption DEF RateInit, RateTypeOK
<1> QED
  BY <1>1 DEF RateInit, RateInv, InsideHaveKeys, TakersJustSeen, IdleFillsUp

\* A step that leaves time and the buckets alone keeps them filling up.
LEMMA BucketsUntouched ==
  ASSUME IdleFillsUp, UNCHANGED <<now, keyLimiters, lastSeen>>
  PROVE  IdleFillsUp'
BY DEF IdleFillsUp

\* Taking the global token touches no bucket of a key.
LEMMA AllowGlobalPreserves ==
  ASSUME RateInv, NEW r \in Requests, NEW k \in Keys, AllowGlobal(r, k)
  PROVE  RateInv'
<1>1. UNCHANGED <<now, keyLimiters, lastSeen>> /\ GoOn(r, k)
  BY DEF AllowGlobal
<1>2. globalLimiter' \in 0..GlobalBurst
  BY RateAssumption DEF RateInv, RateTypeOK, AllowGlobal
<1>3. IdleFillsUp'
  BY <1>1, BucketsUntouched DEF RateInv
<1>4. /\ qpc' \in [Requests -> {"idle", "lookup", "take", "passed"}]
      /\ key' \in [Requests -> Keys \cup {None}]
  BY <1>1 DEF RateInv, RateTypeOK, GoOn, Pass
<1>6. RateTypeOK'
  BY <1>1, <1>2, <1>4 DEF RateInv, RateTypeOK
<1>7. \A q \in Requests : q # r => qpc'[q] = qpc[q] /\ key'[q] = key[q]
  BY <1>1 DEF RateInv, RateTypeOK, GoOn, Pass
<1>8. qpc'[r] = "passed" \/ (qpc'[r] = "lookup" /\ key'[r] = k /\ PerKeyPerTick > 0)
  BY <1>1 DEF RateInv, RateTypeOK, GoOn, Pass
<1>9. InsideHaveKeys' /\ TakersJustSeen'
  BY <1>1, <1>7, <1>8 DEF RateInv, InsideHaveKeys, TakersJustSeen
<1> QED
  BY <1>3, <1>6, <1>9 DEF RateInv

\* A lookup sets lastSeen, so the bucket need not have filled up at all.
LEMMA GetKeyLimiterPreserves ==
  ASSUME RateInv, NEW r \in Requests, GetKeyLimiter(r)
  PROVE  RateInv'
<1>1. key[r] \in Keys
  BY DEF RateInv, InsideHaveKeys, GetKeyLimiter
<1>2. RateTypeOK'
  BY <1>1, RateAssumption DEF RateInv, RateTypeOK, GetKeyLimiter
<1>3. now' = now /\ now \in Nat /\ lastSeen'[key[r]] = now
  BY <1>1, RateAssumption DEF RateInv, RateTypeOK, GetKeyLimiter
<1>4. keyLimiters'[key[r]] \in 0..PerKeyBurst
  BY <1>1, RateAssumption DEF RateInv, RateTypeOK, GetKeyLimiter
<1>5. \A k \in Keys : k # key[r] => keyLimiters'[k] = keyLimiters[k] /\ lastSeen'[k] = lastSeen[k]
  BY DEF RateInv, RateTypeOK, GetKeyLimiter
<1>6. IdleFillsUp'
  <2> SUFFICES ASSUME NEW k \in Keys, keyLimiters'[k] # None
               PROVE  lastSeen'[k] <= now' /\ Accrued(keyLimiters'[k], now' - lastSeen'[k])
    BY DEF IdleFillsUp
  <2>1. CASE k = key[r]
    <3>1. lastSeen'[k] <= now' /\ now' - lastSeen'[k] = 0
      BY <2>1, <1>3
    <3> QED
      BY <2>1, <3>1, <1>4, AccruedAtOnce
  <2>2. CASE k # key[r]
    BY <2>2, <1>3, <1>5 DEF RateInv, IdleFillsUp
  <2> QED
    BY <2>1, <2>2
<1>7. keyLimiters'[key[r]] # None
  BY <1>4, RateAssumption
<1>8. TakersJustSeen'
  BY <1>1, <1>3, <1>5, <1>7 DEF RateInv, RateTypeOK, TakersJustSeen, InsideHaveKeys, GetKeyLimiter
<1>9. InsideHaveKeys'
  BY <1>1 DEF RateInv, RateTypeOK, InsideHaveKeys, GetKeyLimiter
<1> QED
  BY <1>2, <1>6, <1>8, <1>9 DEF RateInv

\* A token is only taken in the tick of the lookup.
LEMMA AllowKeyPreserves ==
  ASSUME RateInv, NEW r \in Requests, AllowKey(r)
  PROVE  RateInv'
<1>1. key[r] \in Keys /\ keyLimiters[key[r]] \in 0..PerKeyBurst /\ lastSeen[key[r]] = now
  BY DEF RateInv, RateTypeOK, InsideHaveKeys, TakersJustSeen, AllowKey
<1>2. UNCHANGED <<now, globalLimiter, lastSeen>> /\ now \in Nat
  BY RateAssumption DEF AllowKey, RateInv, RateTypeOK
<1>3. /\ qpc' \in [Requests -> {"idle", "lookup", "take", "passed"}]
      /\ key' \in [Requests -> Keys \cup {None}]
      /\ qpc'[r] \in {"idle", "passed"}
      /\ \A q \in Requests : q # r => qpc'[q] = qpc[q] /\ key'[q] = key[q]
  BY DEF RateInv, RateTypeOK, AllowKey, Pass
<1>4. keyLimiters'[key[r]] \in 0..PerKeyBurst
  BY <1>1, RateAssumption DEF RateInv, RateTypeOK, AllowKey
<1>5. \A k \in Keys : k # key[r] => keyLimiters'[k] = keyLimiters[k]
  BY DEF RateInv, RateTypeOK, AllowKey
<1>6. RateTypeOK'
  <2>1. keyLimiters' \in [Keys -> 0..PerKeyBurst \cup {None}]
    BY <1>4 DEF RateInv, RateTypeOK, AllowKey
  <2> QED
    BY <1>2, <1>3, <2>1 DEF RateInv, RateTypeOK
<1>7. IdleFillsUp'
  <2> SUFFICES ASSUME NEW k \in Keys, keyLimiters'[k] # None
               PROVE  lastSeen'[k] <= now' /\ Accrued(keyLimiters'[k], now' - lastSeen'[k])
    BY DEF IdleFillsUp
  <2>1. CASE k = key[r]
    <3>1. lastSeen'[k] <= now' /\ now' - lastSeen'[k] = 0
      BY <2>1, <1>1, <1>2
    <3> QED
      BY <2>1, <3>1, <1>4, AccruedAtOnce
  <2>2. CASE k # key[r]
    BY <2>2, <1>2, <1>5 DEF RateInv, IdleFillsUp
  <2> QED
    BY <2>1, <2>2
<1>8. keyLimiters'[key[r]] # None
  BY <1>4, RateAssumption
<1>9. TakersJustSeen'
  BY <1>2, <1>3, <1>5, <1>8 DEF RateInv, TakersJustSeen, InsideHaveKeys
<1>10. InsideHaveKeys'
  BY <1>3 DEF RateInv, InsideHaveKeys
<1> QED
  BY <1>6, <1>7, <1>9, <1>10 DEF RateInv

\* Going on to the next handler changes nothing the invariant is about.
LEMMA ServeNextPreserves ==
  ASSUME RateInv, NEW r \in Requests, ServeNext(r)
  PROVE  RateInv'
<1>1. RateTypeOK'
  BY DEF RateInv, RateTypeOK, ServeNext
<1>2. IdleFillsUp'
  BY BucketsUntouched DEF RateInv, ServeNext
<1>3. InsideHaveKeys' /\ TakersJustSeen'
  BY DEF RateInv, RateTypeOK, InsideHaveKeys, TakersJustSeen, ServeNext
<1> QED
  BY <1>1, <1>2, <1>3 DEF RateInv

\* A round of the cleanup drops no bucket that a request is about to use.
LEMMA CleanupPreserves ==
  ASSUME RateInv, Cleanup
  PROVE  RateInv'
<1>1. UNCHANGED <<now, globalLimiter, lastSeen, qpc, key>>
  BY DEF Cleanup
<1>2. \A k \in Keys : keyLimiters'[k] # None => keyLimiters'[k] = keyLimiters[k]
  BY DEF Cleanup
<1>3. RateTypeOK'
  BY DEF RateInv, RateTypeOK, Cleanup
<1>4. IdleFillsUp'
  BY <1>1, <1>2 DEF RateInv, IdleFillsUp
<1>5. ASSUME NEW k \in Keys, lastSeen[k] = now
      PROVE  keyLimiters'[k] = keyLimiters[k]
  <2>1. ~(lastSeen[k] < now - KeyLimiterTTL)
    BY <1>5, RateAssumption DEF RateInv, RateTypeOK
  <2> QED
    BY <2>1 DEF Cleanup
<1>6. TakersJustSeen'
  BY <1>1, <1>5 DEF RateInv, TakersJustSeen, InsideHaveKeys
<1>7. InsideHaveKeys'
  BY <1>1 DEF RateInv, InsideHaveKeys
<1> QED
  BY <1>3, <1>4, <1>6, <1>7 DEF RateInv

\* A tick refills by what a tick brings.
LEMMA TickPreserves ==
  ASSUME RateInv, Tick
  PROVE  RateInv'
<1>1. UNCHANGED <<lastSeen, qpc, key>> /\ now' = now + 1 /\ now \in Nat
  BY RateAssumption DEF Tick, RateInv, RateTypeOK
<1>2. ASSUME NEW k \in Keys, keyLimiters[k] # None
      PROVE  /\ keyLimiters[k] \in 0..PerKeyBurst
             /\ Refill(keyLimiters[k], PerKeyPerTick, PerKeyBurst) \in 0..PerKeyBurst
  <2>1. keyLimiters[k] \in 0..PerKeyBurst
    BY <1>2 DEF RateInv, RateTypeOK
  <2> QED
    BY <2>1, RefillBounds, RateAssumption
<1>3. RateTypeOK'
  <2>1. globalLimiter' \in 0..GlobalBurst
    BY RefillBounds, RateAssumption DEF RateInv, RateTypeOK, Tick
  <2>2. keyLimiters' \in [Keys -> 0..PerKeyBurst \cup {None}]
    BY <1>2 DEF Tick
  <2>3. now' \in 0..MaxTime
    BY RateAssumption DEF RateInv, RateTypeOK, Tick
  <2> QED
    BY <1>1, <2>1, <2>2, <2>3 DEF RateInv, RateTypeOK
<1>4. IdleFillsUp'
  <2> SUFFICES ASSUME NEW k \in Keys, keyLimiters'[k] # None
               PROVE  lastSeen'[k] <= now' /\ Accrued(keyLimiters'[k], now' - lastSeen'[k])
    BY DEF IdleFillsUp
  <2>1. /\ keyLimiters[k] # None
        /\ keyLimiters'[k] = Refill(keyLimiters[k], PerKeyPerTick, PerKeyBurst)
    BY DEF Tick
  <2>2. lastSeen[k] <= now /\ Accrued(keyLimiters[k], now - lastSeen[k])
    BY <2>1 DEF RateInv, IdleFillsUp
  <2> DEFINE d == now - lastSeen[k]
  <2>3. lastSeen[k] \in Nat
    BY RateAssumption DEF RateInv, RateTypeOK
  <2>4. d \in Nat /\ now' - lastSeen'[k] = d + 1 /\ lastSeen'[k] <= now'
    BY <1>1, <2>2, <2>3
  <2>5. Accrued(keyLimiters'[k], d + 1)
    <3> HIDE DEF d
    <3>1. Accrued(keyLimiters[k], d)
      BY <2>2 DEF d
    <3>2. keyLimiters[k] \in 0..PerKeyBurst
      BY <1>2, <2>1
    <3>3. Accrued(Refill(keyLimiters[k], PerKeyPerTick, PerKeyBurst), d + 1)
      BY <3>1, <3>2, <2>4, AccruedInATick
    <3> QED
      BY <3>3, <2>1
  <2> QED
    BY <2>4, <2>5
<1>5. \A r \in Requests : qpc[r] \notin {"lookup", "take"}
  BY DEF Tick
<1>6. InsideHaveKeys' /\ TakersJustSeen'
  BY <1>1, <1>5 DEF InsideHaveKeys, TakersJustSeen
<1> QED
  BY <1>3, <1>4, <1>6 DEF RateInv

\* The invariant holds in every reachable state.
LEMMA RateInvariant == RateSpec => []RateInv
<1>1. RateInv /\ [RateNext]_rateVars => RateInv'
  <2> SUFFICES ASSUME RateInv, [RateNext]_rateVars PROVE RateInv'
    OBVIOUS
  <2>1. CASE UNCHANGED rateVars
    <3>1. RateTypeOK' /\ InsideHaveKeys' /\ TakersJustSeen'
      BY <2>1 DEF rateVars, RateInv, RateTypeOK, InsideHaveKeys, TakersJustSeen
    <3>2. IdleFillsUp'
      BY <2>1, BucketsUntouched DEF rateVars, RateInv
    <3> QED
      BY <3>1, <3>2 DEF RateInv
  <2>2. ASSUME NEW r \in Requests, Allow(r), ~RefuseGlobal(r) PROVE RateInv'
    BY <2>2, AllowGlobalPreserves, GetKeyLimiterPreserves, AllowKeyPreserves DEF Allow
  <2>3. ASSUME NEW r \in Requests, ServeNext(r) PROVE RateInv'
    BY <2>3, ServeNextPreserves
  <2>4. ASSUME NEW r \in Requests, RefuseGlobal(r) PROVE RateInv'
    BY <2>1, <2>4 DEF RefuseGlobal
  <2> QED
    BY <2>1, <2>2, <2>3, <2>4, CleanupPreserves, TickPreserves DEF RateNext
<1> QED
  BY <1>1, RateInitInv, PTL DEF RateSpec

\* What a round of the cleanup drops is full.
LEMMA CleanupDropsFull ==
  ASSUME RateInv, Cleanup, NEW k \in Keys, keyLimiters[k] # None, keyLimiters'[k] = None
  PROVE  keyLimiters[k] = PerKeyBurst
<1>1. keyLimiters[k] \in 0..PerKeyBurst
  BY DEF RateInv, RateTypeOK
<1>2. KeyLimiterTTL > 0 /\ lastSeen[k] < now - KeyLimiterTTL
  BY DEF Cleanup
<1>3. now \in Nat /\ lastSeen[k] \in Nat /\ KeyLimiterTTL \in Nat
  BY RateAssumption DEF RateInv, RateTypeOK
<1>4. Accrued(keyLimiters[k], now - lastSeen[k])
  BY DEF RateInv, IdleFillsUp
<1>5. now - lastSeen[k] \in Nat /\ KeyLimiterTTL <= now - lastSeen[k]
  BY <1>2, <1>3
<1> QED
  BY <1>1, <1>2, <1>4, <1>5, AccruedIsFull

LEMMA BucketBounds ==
  ASSUME RateInv, NEW k \in Keys
  PROVE  /\ Bucket(k) \in 0..PerKeyBurst
         /\ keyLimiters[k] # None => keyLimiters[k] \in 0..PerKeyBurst
BY RateAssumption DEF Bucket, RateInv, RateTypeOK

Allowed == {r \in Requests : qpc[r] = "passed"}

\* A request that passes pays from the bucket of its key.
LEMMA AllowKeyIsIdeal ==
  ASSUME RateInv, NEW r \in Requests, AllowKey(r)
  PROVE  Ideal!AllowOne(r) \/ UNCHANGED <<now, [k \in Keys |-> Bucket(k)], Allowed>>
<1> DEFINE c == key[r]
<1>1. c \in Keys /\ keyLimiters[c] # None /\ keyLimiters[c] \in 0..PerKeyBurst
  BY BucketBounds DEF AllowKey, RateInv, InsideHaveKeys, TakersJustSeen
<1>2. qpc[r] = "take" /\ qpc \in [Requests -> {"idle", "lookup", "take", "passed"}] /\ UNCHANGED now
  BY DEF AllowKey, RateInv, RateTypeOK
<1>3. CASE keyLimiters[c] > 0
  <2>1. keyLimiters' = [keyLimiters EXCEPT ![c] = @ - 1] /\ qpc' = [qpc EXCEPT ![r] = "passed"]
    BY <1>3 DEF AllowKey, Pass
  <2>2. Bucket(c) = keyLimiters[c]
    BY <1>1 DEF Bucket
  <2> HIDE DEF c
  <2>3. keyLimiters[c] - 1 \in Nat
    BY <1>1, <1>3, RateAssumption
  <2>4. keyLimiters'[c] = keyLimiters[c] - 1 /\ keyLimiters'[c] # None
    BY <1>1, <2>1, <2>3, RateAssumption DEF RateInv, RateTypeOK
  <2>5. \A k \in Keys \ {c} : keyLimiters'[k] = keyLimiters[k]
    BY <2>1 DEF RateInv, RateTypeOK
  <2>6. \A k \in Keys : Bucket(k)' = IF k = c THEN Bucket(c) - 1 ELSE Bucket(k)
    BY <1>1, <2>2, <2>4, <2>5 DEF Bucket
  <2>7. [k \in Keys |-> Bucket(k)]' = [[k \in Keys |-> Bucket(k)] EXCEPT ![c] = @ - 1]
    BY <1>1, <2>6
  <2>8. r \in Requests \ Allowed /\ Allowed' = Allowed \cup {r}
    BY <1>2, <2>1 DEF Allowed
  <2>9. PerKeyPerTick > 0
    BY <1>2 DEF RateInv, InsideHaveKeys
  <2> QED
    BY <1>1, <1>2, <1>3, <2>2, <2>7, <2>8, <2>9 DEF Ideal!AllowOne, Allowed
<1>4. CASE ~(keyLimiters[c] > 0)
  <2>1. UNCHANGED keyLimiters /\ qpc' = [qpc EXCEPT ![r] = "idle"]
    BY <1>4 DEF AllowKey
  <2> QED
    BY <1>2, <2>1 DEF Bucket, Allowed
<1> QED
  BY <1>3, <1>4

\* Looking a bucket up or dropping it changes none.
LEMMA EntriesAreHidden ==
  ASSUME RateInv, (\E r \in Requests : GetKeyLimiter(r)) \/ Cleanup
  PROVE  UNCHANGED <<now, [k \in Keys |-> Bucket(k)], Allowed>>
<1>1. CASE Cleanup
  <2>1. ASSUME NEW k \in Keys PROVE Bucket(k)' = Bucket(k)
    <3>1. keyLimiters'[k] = keyLimiters[k] \/ keyLimiters'[k] = None
      BY <1>1 DEF Cleanup
    <3>2. CASE keyLimiters'[k] = None /\ keyLimiters[k] # None
      BY <1>1, <3>2, CleanupDropsFull DEF Bucket
    <3> QED
      BY <3>1, <3>2 DEF Bucket
  <2> QED
    BY <1>1, <2>1 DEF Cleanup, Allowed
<1>2. ASSUME NEW r \in Requests, GetKeyLimiter(r)
      PROVE  UNCHANGED <<now, [k \in Keys |-> Bucket(k)], Allowed>>
  <2>1. \A k \in Keys : keyLimiters'[k] # keyLimiters[k] => keyLimiters'[k] = PerKeyBurst /\ keyLimiters[k] = None
    BY <1>2 DEF GetKeyLimiter, RateInv, RateTypeOK
  <2>2. \A k \in Keys : Bucket(k)' = Bucket(k)
    BY <2>1 DEF Bucket
  <2>3. Allowed' = Allowed
    BY <1>2 DEF GetKeyLimiter, RateInv, RateTypeOK, Allowed
  <2> QED
    BY <1>2, <2>2, <2>3 DEF GetKeyLimiter
<1> QED
  BY <1>1, <1>2

\* A tick fills every bucket, whether it is in the map or will be made full.
LEMMA BucketInATick ==
  ASSUME RateInv, Tick, NEW k \in Keys
  PROVE  Bucket(k)' = Refill(Bucket(k), PerKeyPerTick, PerKeyBurst)
<1>1. CASE keyLimiters[k] = None
  BY <1>1, RateAssumption DEF Tick, Bucket, Refill
<1>2. CASE keyLimiters[k] # None
  <2>1. keyLimiters[k] \in 0..PerKeyBurst
    BY <1>2, BucketBounds
  <2>2. keyLimiters'[k] = Refill(keyLimiters[k], PerKeyPerTick, PerKeyBurst)
    BY <1>2 DEF Tick
  <2>3. PerKeyPerTick \in Nat /\ PerKeyBurst \in Nat
    BY RateAssumption
  <2>4. Refill(keyLimiters[k], PerKeyPerTick, PerKeyBurst) \in 0..PerKeyBurst
    BY <2>1, <2>3, RefillBounds
  <2>5. Refill(keyLimiters[k], PerKeyPerTick, PerKeyBurst) \in Nat
    BY <2>3, <2>4
  <2>6. keyLimiters'[k] # None
    BY <2>2, <2>5, RateAssumption
  <2> QED
    BY <1>2, <2>2, <2>6 DEF Bucket
<1> QED
  BY <1>1, <1>2

\* Whatever the rates and bursts, and whenever cleanupKeyLimiters comes: the
\* limiter implements the one that keeps a bucket per client for ever.
THEOREM LimiterIsIdeal == RateSpec => BucketsKept
<1>1. RateInit => Ideal!BucketsInit
  BY DEF RateInit, Bucket, Ideal!BucketsInit
<1>2. RateInv /\ [RateNext]_rateVars
        => [Ideal!BucketsNext]_<<now, [k \in Keys |-> Bucket(k)], Allowed>>
  <2> DEFINE same == UNCHANGED <<now, [k \in Keys |-> Bucket(k)], Allowed>>
  <2> SUFFICES ASSUME RateInv, [RateNext]_rateVars PROVE Ideal!BucketsNext \/ same
    OBVIOUS
  <2>0. qpc \in [Requests -> {"idle", "lookup", "take", "passed"}]
    BY DEF RateInv, RateTypeOK
  <2>1. CASE UNCHANGED rateVars
    BY <2>1 DEF rateVars, Bucket, Allowed
  <2>2. ASSUME NEW r \in Requests, NEW k \in Keys, AllowGlobal(r, k) PROVE Ideal!BucketsNext \/ same
    <3>1. UNCHANGED <<now, keyLimiters>> /\ qpc[r] = "idle"
      BY <2>2 DEF AllowGlobal
    <3>2. UNCHANGED [j \in Keys |-> Bucket(j)]
      BY <3>1 DEF Bucket
    <3>3. CASE PerKeyPerTick > 0
      <4>1. Allowed' = Allowed
        BY <2>0, <2>2, <3>1, <3>3 DEF AllowGlobal, GoOn, Allowed
      <4> QED
        BY <3>1, <3>2, <4>1
    <3>4. CASE ~(PerKeyPerTick > 0)
      <4>1. Allowed' = Allowed \cup {r} /\ r \notin Allowed
        BY <2>0, <2>2, <3>1, <3>4 DEF AllowGlobal, GoOn, Pass, Allowed
      <4> QED
        BY <3>1, <3>2, <3>4, <4>1 DEF Ideal!BucketsNext, Ideal!AllowOne, Allowed
    <3> QED
      BY <3>3, <3>4
  <2>3. ASSUME NEW r \in Requests, GetKeyLimiter(r) PROVE same
    BY <2>3, EntriesAreHidden
  <2>4. ASSUME NEW r \in Requests, AllowKey(r) PROVE Ideal!BucketsNext \/ same
    BY <2>4, AllowKeyIsIdeal DEF Ideal!BucketsNext
  <2>5. ASSUME NEW r \in Requests, ServeNext(r) PROVE Ideal!BucketsNext
    <3>1. UNCHANGED <<now, [k \in Keys |-> Bucket(k)]>>
      BY <2>5 DEF ServeNext, Bucket
    <3>2. r \in Allowed /\ Allowed' = Allowed \ {r}
      BY <2>0, <2>5 DEF ServeNext, Allowed
    <3> QED
      BY <3>1, <3>2 DEF Ideal!BucketsNext, Ideal!Leave, Allowed
  <2>6. CASE Tick
    <3>1. now' = now + 1 /\ Allowed' = Allowed
      BY <2>6 DEF Tick, Allowed
    <3>2. \A k \in Keys : Bucket(k)' = Refill(Bucket(k), PerKeyPerTick, PerKeyBurst)
      BY <2>6, BucketInATick
    <3> QED
      BY <3>1, <3>2 DEF Ideal!BucketsNext, Ideal!Pour, Refill, Allowed
  <2>7. CASE Cleanup
    BY <2>7, EntriesAreHidden
  <2> HIDE DEF same
  <2>8. ASSUME NEW r \in Requests, Allow(r) PROVE Ideal!BucketsNext \/ same
    BY <2>1, <2>2, <2>3, <2>4, <2>8 DEF Allow, RefuseGlobal
  <2> QED
    BY <2>1, <2>5, <2>6, <2>7, <2>8 DEF RateNext
<1> QED
  BY <1>1, <1>2, RateInvariant, PTL DEF RateSpec, BucketsKept, Ideal!BucketsSpec, Allowed

-----------------------------------------------------------------------------
\* The address the chain takes for the client's is the client's.
LEMMA KeyIsFrom ==
  ASSUME NEW q \in Inputs
  PROVE  ExtractClientIP(q) = q.from /\ q.from \in Keys
BY FromAssumption, RateAssumption DEF ExtractClientIP

RequestsOK == request \in [Requests -> Inputs \cup {None}]

\* One request's step in the chain is a step of the rate limiter or none ...
LEMMA WrappedForRate ==
  ASSUME RequestsOK, NEW r \in Requests, Wrapped(r)
  PROVE  Allow(r) \/ ServeNext(r) \/ UNCHANGED rateVars
<1>1. CASE Limit(r)
  <2>1. RefuseGlobal(r) \/ AllowKey(r) \/ GetKeyLimiter(r) => Allow(r)
    BY DEF Allow
  <2>2. ASSUME Outermost(r), AllowGlobal(r, ExtractClientIP(request[r])) PROVE Allow(r)
    <3>1. ExtractClientIP(request[r]) \in Keys
      BY <2>2, GuardAssumption DEF Outermost, RequestsOK
    <3> QED
      BY <2>2, <3>1 DEF Allow
  <2> QED
    BY <1>1, <2>1, <2>2 DEF Limit
<1>2. CASE Check1(r) \/ Admit(r) \/ Serve(r) \/ Return(r)
  BY <1>2 DEF Check1, Admit, Serve, Return
<1> QED
  BY <1>1, <1>2 DEF Wrapped

\* ... and of the connection limiter or none, and leaves the other requests alone.
LEMMA WrappedForConns ==
  ASSUME NEW r \in Requests, Wrapped(r)
  PROVE  Add(r) \/ Check(r) \/ Reject(r) \/ ServeHTTP(r) \/ Release(r) \/ UNCHANGED vars
BY DEF Wrapped, Check1, Limit, Admit, Serve, Return

LEMMA WrappedRequests ==
  ASSUME RequestsOK, NEW r \in Requests, Wrapped(r)
  PROVE  request' = request \/ request' = [request EXCEPT ![r] = None]
BY DEF Wrapped, Check1, Limit, Admit, Serve, Return, Refused, Answered, reqVars

LEMMA RequestsStayOK == RequestsOK /\ [GuardNext]_guardVars => RequestsOK'
<1> SUFFICES ASSUME RequestsOK, [GuardNext]_guardVars PROVE RequestsOK'
  OBVIOUS
<1>1. ASSUME NEW r \in Requests, Wrapped(r) PROVE RequestsOK'
  BY <1>1, WrappedRequests DEF RequestsOK
<1>2. ASSUME NEW r \in Requests, NEW q \in Inputs, Arrive(r, q) PROVE RequestsOK'
  BY <1>2 DEF RequestsOK, Arrive
<1>3. CASE request' = request
  BY <1>3 DEF RequestsOK
<1>4. CASE UNCHANGED guardVars
  BY <1>3, <1>4 DEF guardVars, reqVars
<1>5. ASSUME NEW r \in Requests, Read(r) PROVE RequestsOK'
  BY <1>3, <1>5 DEF Read
<1>6. CASE (Cleanup \/ Tick) /\ UNCHANGED <<vars, reqVars>>
  BY <1>3, <1>6 DEF reqVars
<1> QED
  BY <1>1, <1>2, <1>4, <1>5, <1>6 DEF GuardNext

\* Guard's chain implements both limiters: its steps, as the rate limiter
\* sees them, are steps of the rate limiter, and as the connection limiter
\* sees them, steps of the connection limiter.
THEOREM GuardImplements == GuardSpec => RateSpec /\ Spec
<1>1. GuardInit => RateInit /\ Init /\ RequestsOK
  BY DEF GuardInit, RequestsOK
<1>2. RequestsOK /\ [GuardNext]_guardVars => [RateNext]_rateVars
  <2> SUFFICES ASSUME RequestsOK, GuardNext PROVE [RateNext]_rateVars
    BY DEF guardVars
  <2>1. ASSUME NEW r \in Requests, Wrapped(r) PROVE [RateNext]_rateVars
    BY <2>1, WrappedForRate DEF RateNext
  <2>2. ASSUME NEW r \in Requests, Read(r) \/ \E q \in Inputs : Arrive(r, q) PROVE UNCHANGED rateVars
    BY <2>2 DEF Read, Arrive
  <2> QED
    BY <2>1, <2>2 DEF GuardNext, RateNext
<1>3. [GuardNext]_guardVars => [Next]_vars
  <2> SUFFICES ASSUME GuardNext PROVE [Next]_vars
    BY DEF guardVars
  <2>1. ASSUME NEW r \in Requests, Wrapped(r) PROVE [Next]_vars
    BY <2>1, WrappedForConns DEF Next
  <2>2. ASSUME NEW r \in Requests, Read(r) \/ \E q \in Inputs : Arrive(r, q) PROVE UNCHANGED vars
    BY <2>2 DEF Read, Arrive
  <2> QED
    BY <2>1, <2>2 DEF GuardNext
<1> QED
  BY <1>1, <1>2, <1>3, RequestsStayOK, PTL DEF GuardSpec, RateSpec, Spec

-----------------------------------------------------------------------------
(* The log. *)

Honest(p) == p.sent # p.logged => p.logged = 500 /\ p.sent \in HandlerStatuses

LogInv == GuardTypeOK /\ \A r \in Requests : Honest(written[r]) /\ Honest(response[r])

\* What Recovery and net/http make of a handler's status.
LEMMA HandledIsHonest ==
  ASSUME NEW status \in HandlerStatuses \cup {None}, NEW panics \in BOOLEAN
  PROVE  Handled(status, panics) \in Statuses /\ Honest(Handled(status, panics))
BY DEF Handled, Honest, Statuses, Status

LEMMA AnsweredIsHonest ==
  ASSUME LogInv, NEW r \in Requests, NEW sent, NEW logged, Answered(r, sent, logged),
         [sent |-> sent, logged |-> logged] \in Statuses, Honest([sent |-> sent, logged |-> logged])
  PROVE  LogInv'
BY DEF LogInv, GuardTypeOK, Answered, Honest, NoStatus, Statuses

LEMMA LogUntouched ==
  ASSUME LogInv, UNCHANGED reqVars
  PROVE  LogInv'
BY DEF LogInv, GuardTypeOK, Honest, reqVars

LEMMA WrappedIsHonest ==
  ASSUME LogInv, NEW r \in Requests, Wrapped(r)
  PROVE  LogInv'
<1>1. ASSUME NEW status \in {204, 403, 415, 429, 503}, Refused(r, status) PROVE LogInv'
  <2>1. [sent |-> status, logged |-> status] \in Statuses /\ Honest([sent |-> status, logged |-> status])
    BY DEF Statuses, Status, Honest
  <2> QED
    BY <1>1, <2>1, AnsweredIsHonest DEF Refused
<1>2. CASE UNCHANGED reqVars
  BY <1>2, LogUntouched
<1>3. CASE Check1(r)
  BY <1>1, <1>3 DEF Check1
<1>4. CASE Limit(r)
  BY <1>1, <1>2, <1>4 DEF Limit
<1>5. CASE Admit(r)
  BY <1>1, <1>2, <1>5 DEF Admit
<1>6. CASE Serve(r)
  <2>1. PICK status \in HandlerStatuses \cup {None}, panics \in BOOLEAN :
          written' = [written EXCEPT ![r] = Handled(status, panics)]
    BY <1>6 DEF Serve
  <2> DEFINE h == Handled(status, panics)
  <2>2. h \in Statuses /\ Honest(h) /\ written' = [written EXCEPT ![r] = h]
    BY <2>1, HandledIsHonest
  <2> HIDE DEF h
  <2>3. UNCHANGED <<request, response>>
    BY <1>6 DEF Serve
  <2> QED
    BY <2>2, <2>3 DEF LogInv, GuardTypeOK
<1>7. CASE Return(r)
  <2>1. written[r] \in Statuses /\ Honest(written[r])
    BY DEF LogInv, GuardTypeOK
  <2>2. [sent |-> written[r].sent, logged |-> written[r].logged] = written[r]
    BY <2>1 DEF Statuses, NoStatus
  <2> QED
    BY <1>7, <2>1, <2>2, AnsweredIsHonest DEF Return
<1> QED
  BY <1>3, <1>4, <1>5, <1>6, <1>7 DEF Wrapped

\* RequestLogger's record is the status the client got, whatever the chain and
\* the handler did, except after a panic of a handler that had sent one.
THEOREM LogTellsTheTruth == GuardSpec => []LogIsTrue
<1>1. GuardInit => LogInv
  BY DEF GuardInit, LogInv, GuardTypeOK, Honest, NoStatus, Statuses
<1>2. LogInv /\ [GuardNext]_guardVars => LogInv'
  <2> SUFFICES ASSUME LogInv, [GuardNext]_guardVars PROVE LogInv'
    OBVIOUS
  <2>1. ASSUME NEW r \in Requests, Read(r) PROVE LogInv'
    BY <2>1 DEF Read, LogInv, GuardTypeOK, Honest, NoStatus, Statuses
  <2>2. ASSUME NEW r \in Requests, NEW q \in Inputs, Arrive(r, q) PROVE LogInv'
    BY <2>2 DEF Arrive, LogInv, GuardTypeOK, Honest
  <2>3. CASE UNCHANGED reqVars
    BY <2>3, LogUntouched
  <2>4. UNCHANGED guardVars => UNCHANGED reqVars
    BY DEF guardVars
  <2> QED
    BY <2>1, <2>2, <2>3, <2>4, WrappedIsHonest DEF GuardNext
<1>3. LogInv => LogIsTrue
  BY DEF LogInv, LogIsTrue, Honest
<1> QED
  BY <1>1, <1>2, <1>3, PTL DEF GuardSpec

-----------------------------------------------------------------------------
(* The clients. *)

Retries(c) == (IF c.tried401 THEN 1 ELSE 0) + (IF c.tried403 THEN 1 ELSE 0)

\* A retry is paid for by the flag that was set for it.
Paid(c) == c.attempts <= Retries(c) + (IF c.phase = "wait" THEN 1 ELSE 0)

RetryInv ==
  /\ call \in [Requests -> Calls \cup {None}]
  /\ \A r \in Requests : call[r] # None => Paid(call[r])

\* What a response makes of a call that waits for it.
LEMMA OutcomesPaid ==
  ASSUME NEW c \in Calls, Paid(c), c.phase = "wait", NEW s, NEW d \in Outcomes(c, s), d # None
  PROVE  d \in Calls /\ Paid(d)
<1>1. \/ ~c.tried401 /\ d = Next401(c)
      \/ ~c.tried403 /\ d = Next403(c)
  BY DEF Outcomes
<1>2. CASE ~c.tried401 /\ d = Next401(c)
  <2>1. /\ d \in Calls /\ d.attempts = c.attempts /\ d.phase = "build"
        /\ d.tried401 = TRUE /\ d.tried403 = c.tried403
    BY <1>2 DEF Next401, Calls
  <2> QED
    BY <2>1, <1>2 DEF Paid, Retries, Calls
<1>3. CASE ~c.tried403 /\ d = Next403(c)
  <2>1. /\ d \in Calls /\ d.attempts = c.attempts /\ d.phase = "build"
        /\ d.tried401 = c.tried401 /\ d.tried403 = TRUE
    BY <1>3 DEF Next403, Calls
  <2> QED
    BY <2>1, <1>3 DEF Paid, Retries, Calls
<1> QED
  BY <1>1, <1>2, <1>3

\* One entry of call changes, to nothing or to something paid for.
LEMMA RetryUpdate ==
  ASSUME RetryInv, NEW r \in Requests, NEW d,
         d = None \/ (d \in Calls /\ Paid(d)), call' = [call EXCEPT ![r] = d]
  PROVE  RetryInv'
BY DEF RetryInv

LEMMA ClientPreserves ==
  ASSUME RetryInv, NEW r \in Requests, Client(r)
  PROVE  RetryInv'
<1>0. call[r] # None => call[r] \in Calls /\ Paid(call[r])
  BY DEF RetryInv
<1>1. CASE Start(r)
  <2>1. PICK q \in Inputs : call' = [call EXCEPT ![r] =
          [input |-> q, phase |-> IF NeedsPreflight(q) THEN "asked" ELSE "wait",
           tried401 |-> FALSE, tried403 |-> FALSE, attempts |-> IF NeedsPreflight(q) THEN 0 ELSE 1]]
    BY <1>1 DEF Start
  <2> DEFINE d == [input |-> q, phase |-> IF NeedsPreflight(q) THEN "asked" ELSE "wait",
                   tried401 |-> FALSE, tried403 |-> FALSE,
                   attempts |-> IF NeedsPreflight(q) THEN 0 ELSE 1]
  <2>2. d \in Calls /\ Paid(d)
    BY DEF Calls, Paid, Retries
  <2> QED
    BY <2>1, <2>2, RetryUpdate
<1>2. CASE Attempt(r)
  <2> DEFINE d == [call[r] EXCEPT !.phase = "wait", !.attempts = @ + 1]
  <2>1. call[r] \in Calls /\ Paid(call[r]) /\ call[r].phase = "build"
    BY <1>0, <1>2 DEF Attempt
  <2>2. /\ d \in Calls /\ d.phase = "wait" /\ d.attempts = call[r].attempts + 1
        /\ d.tried401 = call[r].tried401 /\ d.tried403 = call[r].tried403
    <3>1. call[r].attempts \in Nat /\ call[r].attempts + 1 \in Nat
      BY <2>1 DEF Calls
    <3> DEFINE n == call[r].attempts + 1
               e == [call[r] EXCEPT !.phase = "wait", !.attempts = n]
    <3>2. n \in Nat
      BY <3>1
    <3> HIDE DEF n
    <3>3. /\ e \in Calls /\ e.phase = "wait" /\ e.attempts = n
          /\ e.tried401 = call[r].tried401 /\ e.tried403 = call[r].tried403
      BY <2>1, <3>2, Zenon DEF Calls
    <3> QED
      BY <3>3 DEF n
  <2>3. Paid(d)
    <3> HIDE DEF d
    <3> QED
      BY <2>1, <2>2 DEF Paid, Retries, Calls
  <2>4. call' = [call EXCEPT ![r] = d]
    BY <1>2 DEF Attempt, RetryInv
  <2> QED
    BY <2>2, <2>3, <2>4, RetryUpdate
<1>3. CASE Fail(r)
  BY <1>3, RetryUpdate DEF Fail
<1>4. CASE Permitted(r)
  <2> DEFINE d == [call[r] EXCEPT !.phase = "build"]
  <2>1. call[r] \in Calls /\ Paid(call[r]) /\ call[r].phase = "asked"
    BY <1>0, <1>4 DEF Permitted
  <2>2. /\ d \in Calls /\ d.phase = "build" /\ d.attempts = call[r].attempts
        /\ d.tried401 = call[r].tried401 /\ d.tried403 = call[r].tried403
    BY <2>1 DEF Calls
  <2>3. Paid(d)
    <3> HIDE DEF d
    <3> QED
      BY <2>1, <2>2 DEF Paid, Retries, Calls
  <2>4. call' = [call EXCEPT ![r] = d] \/ call' = [call EXCEPT ![r] = None]
    BY <1>4 DEF Permitted, RetryInv
  <2> QED
    BY <2>2, <2>3, <2>4, RetryUpdate
<1>5. CASE Respond(r)
  <2>1. PICK d \in Outcomes(call[r], response[r].sent) : call' = [call EXCEPT ![r] = d]
    BY <1>5 DEF Respond
  <2>2. call[r] \in Calls /\ Paid(call[r]) /\ call[r].phase = "wait"
    BY <1>0, <1>5 DEF Respond
  <2>3. d # None => d \in Calls /\ Paid(d)
    BY <2>2, OutcomesPaid
  <2> QED
    BY <2>1, <2>3, RetryUpdate
<1>6. CASE Drop(r)
  BY <1>6 DEF Drop, RetryInv
<1> QED
  BY <1>1, <1>2, <1>3, <1>4, <1>5, <1>6 DEF Client

LEMMA RetryInvariant == CallerSpec => []RetryInv
<1>1. CallerInit => RetryInv
  BY DEF CallerInit, RetryInv
<1>2. RetryInv /\ [CallerNext]_allVars => RetryInv'
  <2> SUFFICES ASSUME RetryInv, [CallerNext]_allVars PROVE RetryInv'
    OBVIOUS
  <2>1. CASE UNCHANGED call
    BY <2>1 DEF RetryInv
  <2>2. ASSUME NEW r \in Requests, Client(r) PROVE RetryInv'
    BY <2>2, ClientPreserves
  <2> QED
    BY <2>1, <2>2 DEF CallerNext, Server, Time, allVars, callerVars
<1> QED
  BY <1>1, <1>2, PTL DEF CallerSpec

\* However the server's 401 and 403 alternate, a call is made at most three times.
THEOREM RetriesEnd == CallerSpec => []RetryBudget
<1>1. RetryInv => RetryBudget
  <2> SUFFICES ASSUME RetryInv, NEW r \in Requests, call[r] # None PROVE call[r].attempts <= 3
    BY DEF RetryBudget
  <2>1. call[r] \in Calls /\ Paid(call[r])
    BY DEF RetryInv
  <2> QED
    BY <2>1 DEF Paid, Retries, Calls
<1> QED
  BY <1>1, RetryInvariant, PTL

\* What the clients do is what Guard expects of its surroundings.
THEOREM CallersUseGuard == CallerSpec => GuardSpec
<1>1. CallerInit => GuardInit
  BY DEF CallerInit
<1>2. RetryInv /\ [CallerNext]_allVars => [GuardNext]_guardVars
  <2> SUFFICES ASSUME RetryInv, CallerNext PROVE [GuardNext]_guardVars
    BY DEF allVars
  <2>1. ASSUME NEW r \in Requests, Client(r) PROVE [GuardNext]_guardVars
    <3>1. ASSUME NEW q \in Inputs, Arrive(r, q) PROVE GuardNext
      BY <3>1 DEF GuardNext
    <3>2. CASE Start(r)
      <4>1. PICK q \in Inputs : Arrive(r, IF NeedsPreflight(q) THEN AsPreflight(q) ELSE q)
        BY <3>2 DEF Start
      <4>2. AsPreflight(q) \in Inputs
        BY CallerAssumption
      <4> QED
        BY <3>1, <4>1, <4>2
    <3>3. CASE Attempt(r)
      <4>1. call[r].input \in Inputs /\ Arrive(r, call[r].input)
        BY <3>3 DEF Attempt, RetryInv, Calls
      <4> QED
        BY <3>1, <4>1
    <3>4. CASE Fail(r)
      BY <3>4 DEF Fail
    <3>5. CASE Permitted(r) \/ Respond(r) \/ Drop(r)
      BY <3>5 DEF Permitted, Respond, Drop, GuardNext
    <3> QED
      BY <2>1, <3>2, <3>3, <3>4, <3>5 DEF Client
  <2>2. ASSUME NEW r \in Requests, Server(r) PROVE GuardNext
    BY <2>2 DEF Server, GuardNext
  <2>3. CASE Time \/ (Cleanup /\ UNCHANGED <<vars, reqVars, callerVars>>)
    BY <2>3 DEF Time, GuardNext
  <2> QED
    BY <2>1, <2>2, <2>3 DEF CallerNext
<1> QED
  BY <1>1, <1>2, RetryInvariant, PTL DEF CallerSpec, GuardSpec

-----------------------------------------------------------------------------
(* The rate of a client. *)

\* A goroutine is in one of the two limiters at a time.
OneLimiter == \A r \in Requests : rpc[r] # "idle" => qpc[r] = "idle"

\* The key a request has in Allow is its client, and it is still being served.
KeyIsClient == \A r \in Requests : qpc[r] \in {"lookup", "take"} =>
                 request[r] # None /\ key[r] = request[r].from

\* The limiter never gives what the bucket that is not forgotten would not.
Covered == PerKeyPerTick > 0 => \A k \in Keys : Bucket(k) <= credit[k]

CreditInv == OneLimiter /\ KeyIsClient /\ credit \in [Keys -> Int] /\ Covered

\* What the other invariants say, as far as it is needed here.
Known == RateInv /\ RequestsOK /\ TypeOK

\* A step that leaves the buckets and the credit alone.
LEMMA CoveredUntouched ==
  ASSUME Covered, UNCHANGED <<keyLimiters, credit>>
  PROVE  Covered'
BY DEF Covered, Bucket

LEMMA OneLimiterStays ==
  ASSUME Known, OneLimiter, NEW r \in Requests, Wrapped(r)
  PROVE  OneLimiter'
<1>1. CASE Check1(r) \/ Serve(r) \/ Return(r) \/ ((Check(r) \/ Reject(r)) /\ UNCHANGED rateVars)
  <2>1. UNCHANGED rateVars
    BY <1>1 DEF Check1, Serve, Return
  <2>2. \A q \in Requests : rpc'[q] # "idle" => rpc[q] # "idle"
    BY <1>1 DEF Check1, Serve, ServeHTTP, Return, Release, Check, Reject, vars, Known, TypeOK
  <2> QED
    BY <2>1, <2>2 DEF OneLimiter, rateVars
<1>2. CASE Limit(r)
  <2>1. UNCHANGED vars /\ rpc[r] = "idle"
    BY <1>2 DEF Limit, Outermost, OneLimiter, GetKeyLimiter, AllowKey
  <2>2. \A q \in Requests : q # r => qpc'[q] = qpc[q]
    BY <1>2 DEF Limit, RefuseGlobal, AllowGlobal, GetKeyLimiter, AllowKey, GoOn, Pass,
                rateVars, Known, RateInv, RateTypeOK
  <2> QED
    BY <2>1, <2>2 DEF OneLimiter, vars
<1>3. CASE ServeNext(r) /\ Add(r)
  BY <1>3 DEF OneLimiter, ServeNext, Add, Known, RateInv, RateTypeOK, TypeOK
<1> QED
  BY <1>1, <1>2, <1>3 DEF Wrapped, Admit

LEMMA KeyIsClientStays ==
  ASSUME Known, OneLimiter, KeyIsClient, NEW r \in Requests, Wrapped(r)
  PROVE  KeyIsClient'
<1>1. CASE Check1(r) \/ Serve(r) \/ Return(r) \/ ((Check(r) \/ Reject(r)) /\ UNCHANGED rateVars)
  <2>1. UNCHANGED rateVars /\ qpc[r] = "idle"
    BY <1>1 DEF Check1, Outermost, Serve, ServeHTTP, Return, Release, Check, Reject, OneLimiter
  <2>2. \A q \in Requests : q # r => request'[q] = request[q]
    BY WrappedRequests DEF Known, RequestsOK
  <2> QED
    BY <2>1, <2>2 DEF KeyIsClient, rateVars
<1>2. CASE ServeNext(r) /\ UNCHANGED reqVars
  <2> QED
    BY <1>2 DEF reqVars, KeyIsClient, ServeNext, Known, RateInv, RateTypeOK
<1>3. CASE Limit(r)
  <2>1. \A q \in Requests : q # r => qpc'[q] = qpc[q] /\ key'[q] = key[q]
    BY <1>3 DEF Limit, RefuseGlobal, AllowGlobal, GetKeyLimiter, AllowKey, GoOn, Pass,
                rateVars, Known, RateInv, RateTypeOK
  <2>2. \A q \in Requests : q # r => request'[q] = request[q]
    BY WrappedRequests DEF Known, RequestsOK
  <2>3. SUFFICES ASSUME qpc'[r] \in {"lookup", "take"}
                 PROVE  request'[r] # None /\ key'[r] = request'[r].from
    BY <2>1, <2>2 DEF KeyIsClient
  <2>4. CASE Outermost(r) /\ RefuseGlobal(r)
    BY <2>3, <2>4 DEF Outermost, RefuseGlobal, rateVars
  <2>5. CASE Outermost(r) /\ AllowGlobal(r, ExtractClientIP(request[r])) /\ UNCHANGED reqVars
    <3>1. request[r] \in Inputs /\ request'[r] = request[r] /\ request[r] # None
      BY <2>5 DEF Outermost, Known, RequestsOK, reqVars
    <3>2. key'[r] = ExtractClientIP(request[r])
      BY <2>3, <2>5 DEF AllowGlobal, GoOn, Pass, Known, RateInv, RateTypeOK
    <3> QED
      BY <3>1, <3>2, KeyIsFrom
  <2>6. CASE GetKeyLimiter(r) /\ UNCHANGED reqVars
    BY <2>6 DEF GetKeyLimiter, KeyIsClient, reqVars
  <2>7. CASE AllowKey(r)
    BY <2>3, <2>7 DEF AllowKey, Pass, Known, RateInv, RateTypeOK
  <2> QED
    BY <1>3, <2>4, <2>5, <2>6, <2>7 DEF Limit
<1> QED
  BY <1>1, <1>2, <1>3 DEF Wrapped, Admit

\* Only AllowKey lets a request pass when there is a limit per key.
LEMMA CoveredStays ==
  ASSUME Known, CreditInv, NEW r \in Requests, Server(r)
  PROVE  Covered' /\ credit' \in [Keys -> Int]
<1>0. Wrapped(r)
  BY DEF Server
<1>1. CASE ~(qpc[r] # "passed" /\ qpc'[r] = "passed")
  <2>1. credit' = credit
    BY <1>1 DEF Server
  <2>2. CASE GetKeyLimiter(r)
    <3>1. \A k \in Keys : keyLimiters'[k] # keyLimiters[k] => keyLimiters'[k] = PerKeyBurst /\ keyLimiters[k] = None
      BY <2>2 DEF GetKeyLimiter, Known, RateInv, RateTypeOK
    <3> QED
      BY <2>1, <3>1 DEF CreditInv, Covered, Bucket
  <2>3. CASE ~GetKeyLimiter(r)
    <3>1. UNCHANGED keyLimiters
      <4>1. AllowKey(r) => UNCHANGED keyLimiters
        BY <1>1 DEF AllowKey, Pass, Known, RateInv, RateTypeOK
      <4> QED
        BY <1>0, <2>3, <4>1 DEF Wrapped, Check1, Limit, Admit, Serve, Return, RefuseGlobal, AllowGlobal, ServeNext, rateVars
    <3> QED
      BY <2>1, <3>1, CoveredUntouched DEF CreditInv
  <2> QED
    BY <2>1, <2>2, <2>3 DEF CreditInv
<1>2. CASE qpc[r] # "passed" /\ qpc'[r] = "passed"
  <2>1. request[r] # None
    BY <1>0, <1>2 DEF Wrapped, Check1, Limit, Outermost, Admit, Serve, Return, ServeNext, GetKeyLimiter,
              AllowKey, CreditInv, KeyIsClient, rateVars, Known, RateInv, RateTypeOK
  <2>0. request[r].from \in Keys
    BY <2>1, KeyIsFrom DEF Known, RequestsOK
  <2> PICK c \in Keys : c = request[r].from
    BY <2>0
  <2>2. credit' = [credit EXCEPT ![c] = @ - 1]
    BY <1>2 DEF Server
  <2>3. credit' \in [Keys -> Int] /\ credit'[c] = credit[c] - 1 /\ \A k \in Keys \ {c} : credit'[k] = credit[k]
    BY <2>2 DEF CreditInv
  <2>4. SUFFICES ASSUME PerKeyPerTick > 0 PROVE \A k \in Keys : Bucket(k)' <= credit'[k]
    BY <2>3 DEF Covered
  <2>5. AllowKey(r)
    BY <1>0, <1>2, <2>4 DEF Wrapped, Check1, Limit, Admit, Serve, Return, ServeNext, RefuseGlobal,
              AllowGlobal, GoOn, GetKeyLimiter, rateVars, Known, RateInv, RateTypeOK
  <2>6. key[r] = c
    BY <2>5 DEF AllowKey, CreditInv, KeyIsClient
  <2>7. keyLimiters[c] # None
    BY <2>5, <2>6 DEF AllowKey, Known, RateInv, TakersJustSeen
  <2>8. /\ keyLimiters[c] > 0
        /\ keyLimiters' = [keyLimiters EXCEPT ![c] = @ - 1]
    BY <1>2, <2>5, <2>6 DEF AllowKey, Known, RateInv, RateTypeOK
  <2>9. keyLimiters[c] \in 0..PerKeyBurst /\ keyLimiters[c] <= credit[c] /\ credit[c] \in Int
    BY <2>2, <2>4, <2>7, BucketBounds DEF CreditInv, Covered, Bucket, Known
  <2>10. keyLimiters'[c] = keyLimiters[c] - 1 /\ \A k \in Keys \ {c} : keyLimiters'[k] = keyLimiters[k]
    BY <2>2, <2>8 DEF Known, RateInv, RateTypeOK
  <2>11. Bucket(c)' = keyLimiters[c] - 1
    <3>1. keyLimiters[c] - 1 \in Nat
      BY <2>8, <2>9, RateAssumption
    <3> QED
      BY <2>10, <3>1, RateAssumption DEF Bucket
  <2>12. \A k \in Keys \ {c} : Bucket(k)' = Bucket(k)
    BY <2>10 DEF Bucket
  <2>13. Bucket(c)' <= credit'[c]
    BY <2>3, <2>9, <2>11, RateAssumption
  <2> QED
    BY <2>3, <2>4, <2>12, <2>13 DEF CreditInv, Covered
<1> QED
  BY <1>1, <1>2

\* Of two buckets the fuller one is not less full after a tick.
LEMMA RefillMonotone ==
  ASSUME NEW b \in Nat, NEW p \in Nat, NEW s \in Int, NEW t \in Int, s <= t, s <= b
  PROVE  Refill(s, p, b) <= Refill(t, p, b) /\ Refill(t, p, b) \in Int
BY DEF Refill

LEMMA TimeKeepsCredit ==
  ASSUME Known, CreditInv, Time
  PROVE  CreditInv'
<1>1. UNCHANGED <<rpc, qpc, key, request>>
  BY DEF Time, Tick, vars, reqVars
<1>2. OneLimiter' /\ KeyIsClient'
  BY <1>1 DEF CreditInv, OneLimiter, KeyIsClient
<1>3. ASSUME NEW k \in Keys
      PROVE  /\ credit'[k] \in Int
             /\ PerKeyPerTick > 0 => Bucket(k)' <= credit'[k]
  <2>1. Bucket(k) \in 0..PerKeyBurst /\ credit[k] \in Int
    BY BucketBounds DEF Known, CreditInv
  <2>2. credit'[k] = Refill(credit[k], PerKeyPerTick, PerKeyBurst)
    BY DEF Time
  <2>3. credit'[k] \in Int
    BY <2>1, <2>2, RateAssumption DEF Refill
  <2>4. Bucket(k)' = Refill(Bucket(k), PerKeyPerTick, PerKeyBurst)
    BY BucketInATick DEF Time, Known
  <2> QED
    BY <2>1, <2>2, <2>3, <2>4, RefillMonotone, RateAssumption DEF CreditInv, Covered
<1>4. credit' \in [Keys -> Int]
  BY <1>3 DEF Time
<1> QED
  BY <1>2, <1>3, <1>4 DEF CreditInv, Covered

LEMMA CleanupKeepsCredit ==
  ASSUME Known, CreditInv, Cleanup, UNCHANGED <<vars, reqVars, callerVars>>
  PROVE  CreditInv'
<1>1. UNCHANGED <<rpc, qpc, key, request, credit>>
  BY DEF Cleanup, vars, reqVars, callerVars
<1>2. \A k \in Keys : Bucket(k)' = Bucket(k)
  BY EntriesAreHidden DEF Known
<1> QED
  BY <1>1, <1>2 DEF CreditInv, OneLimiter, KeyIsClient, Covered

LEMMA ClientKeepsCredit ==
  ASSUME Known, CreditInv, NEW r \in Requests, Client(r), UNCHANGED credit
  PROVE  CreditInv'
<1>1. UNCHANGED <<rateVars, vars>>
  BY DEF Client, Start, Attempt, Fail, Permitted, Respond, Drop, Arrive, Read, guardVars
<1>2. \A q \in Requests : request[q] # None => request'[q] = request[q]
  BY DEF Client, Start, Attempt, Fail, Permitted, Respond, Drop, Arrive, Read, guardVars, reqVars, Known, RequestsOK
<1> QED
  BY <1>1, <1>2, CoveredUntouched DEF CreditInv, OneLimiter, KeyIsClient, rateVars, vars

LEMMA KnownHolds == CallerSpec => []Known
<1>1. CallerSpec => []RateInv /\ []Inv
  BY CallersUseGuard, GuardImplements, RateInvariant, InvHolds, PTL
<1>2. GuardInit => RequestsOK
  BY DEF GuardInit, RequestsOK
<1>3. CallerSpec => []RequestsOK
  BY <1>2, RequestsStayOK, CallersUseGuard, PTL DEF GuardSpec
<1>4. RateInv /\ Inv /\ RequestsOK => Known
  BY DEF Known, Inv
<1> QED
  BY <1>1, <1>3, <1>4, PTL

LEMMA CreditInvariant == CallerSpec => []CreditInv
<1>1. CallerInit => CreditInv
  <2> SUFFICES ASSUME CallerInit PROVE CreditInv
    OBVIOUS
  <2>1. PerKeyBurst \in Int /\ credit = [k \in Keys |-> PerKeyBurst] /\ keyLimiters = [k \in Keys |-> None]
    BY RateAssumption DEF CallerInit, GuardInit, RateInit
  <2>2. credit \in [Keys -> Int] /\ Covered
    BY <2>1 DEF Covered, Bucket
  <2>3. OneLimiter /\ KeyIsClient
    BY DEF CallerInit, GuardInit, RateInit, Init, OneLimiter, KeyIsClient
  <2> QED
    BY <2>2, <2>3 DEF CreditInv
<1>2. Known /\ CreditInv /\ [CallerNext]_allVars => CreditInv'
  <2> SUFFICES ASSUME Known, CreditInv, [CallerNext]_allVars PROVE CreditInv'
    OBVIOUS
  <2>1. ASSUME NEW r \in Requests, Server(r) PROVE CreditInv'
    <3>1. Wrapped(r)
      BY <2>1 DEF Server
    <3> QED
      BY <2>1, <3>1, OneLimiterStays, KeyIsClientStays, CoveredStays DEF CreditInv
  <2>2. CASE UNCHANGED allVars
    <3>1. UNCHANGED <<rpc, qpc, key, request, keyLimiters, credit>>
      BY <2>2 DEF allVars, guardVars, rateVars, vars, reqVars, callerVars
    <3> QED
      BY <3>1, CoveredUntouched DEF CreditInv, OneLimiter, KeyIsClient
  <2> QED
    BY <2>1, <2>2, ClientKeepsCredit, TimeKeepsCredit, CleanupKeepsCredit DEF CallerNext
<1> QED
  BY <1>1, <1>2, KnownHolds, PTL DEF CallerSpec

\* For all rates and bursts, and however often its bucket is forgotten, no
\* client gets more than the burst and what the rate brings.
THEOREM ClientsAreLimited == CallerSpec => []ClientRate
<1>1. CallerSpec => []RateInv
  BY CallersUseGuard, GuardImplements, RateInvariant, PTL
<1>2. RateInv /\ CreditInv => ClientRate
  <2> SUFFICES ASSUME RateInv, CreditInv, PerKeyPerTick > 0, NEW k \in Keys PROVE credit[k] >= 0
    BY DEF ClientRate
  <2>1. Bucket(k) \in 0..PerKeyBurst /\ Bucket(k) <= credit[k] /\ credit[k] \in Int
    BY BucketBounds DEF CreditInv, Covered
  <2> QED
    BY <2>1, RateAssumption
<1> QED
  BY <1>1, <1>2, CreditInvariant, PTL

\* So the handler that Guard wraps is never entered by more than max
\* requests, and never by more of one client than its bucket allows.
COROLLARY GuardIsSafe == CallerSpec => []AtMostMax /\ BucketsKept
BY CallersUseGuard, GuardImplements, NeverOverTheLimit, LimiterIsIdeal, PTL

-----------------------------------------------------------------------------
(* The pages. *)

\* A request its browser would send: what needs a preflight has had one.
MaySend(q) == NeedsPreflight(q) => CheckOrigin(q.origin)

\* Only what may be sent is built or served, and only what has passed the
\* checks goes on to the limiters and the handler.
PageInv ==
  /\ \A r \in Requests : call[r] # None /\ call[r].phase = "build" => MaySend(call[r].input)
  /\ \A r \in Requests : request[r] # None => Preflight(request[r]) \/ MaySend(request[r])
  /\ \A r \in Requests : qpc[r] # "idle" \/ rpc[r] # "idle" =>
       request[r] # None /\ Passes(request[r])

\* What the checks let through, and the browser sent, is no foreign page's.
LEMMA PassedIsOwn ==
  ASSUME NEW q \in Inputs, Passes(q), MaySend(q)
  PROVE  ~ForeignPage(q)
<1> SUFFICES ASSUME q.caller = "page", q.upgrade \/ q.method \notin SafeMethods
             PROVE  q.origin \in OwnOrigins
  BY DEF ForeignPage
<1>1. CASE q.upgrade
  BY <1>1, OwnAssumption DEF Passes, WrongOrigin
<1>2. CASE ~q.upgrade
  <2>1. q.method = "POST" => q.type \notin SimpleTypes
    BY CallerAssumption DEF Passes, WrongType
  <2>2. NeedsPreflight(q)
    BY <1>2, <2>1 DEF NeedsPreflight
  <2> QED
    BY <2>2, OwnAssumption DEF MaySend
<1> QED
  BY <1>1, <1>2

\* The chain: a request goes on when it has passed the checks, and is gone
\* when it has been answered.
LEMMA ServerKeepsPages ==
  ASSUME Known, OneLimiter, PageInv, NEW r \in Requests, Server(r)
  PROVE  PageInv'
<1>1. Wrapped(r) /\ UNCHANGED call
  BY DEF Server
<1>2. \A q \in Requests : request'[q] = request[q] \/ request'[q] = None
  BY <1>1, WrappedRequests DEF Known, RequestsOK
<1>3. \A q \in Requests : q # r => request'[q] = request[q] /\ qpc'[q] = qpc[q] /\ rpc'[q] = rpc[q]
  <2>1. \A q \in Requests : q # r => request'[q] = request[q]
    BY <1>1, WrappedRequests DEF Known, RequestsOK
  <2>2. \A q \in Requests : q # r => qpc'[q] = qpc[q]
    <3>1. AllowGlobal(r, ExtractClientIP(request[r])) \/ AllowKey(r) \/ GetKeyLimiter(r) \/ ServeNext(r)
          \/ UNCHANGED rateVars
      BY <1>1 DEF Wrapped, Check1, Limit, RefuseGlobal, Admit, Serve, Return
    <3> QED
      BY <3>1 DEF AllowGlobal, GetKeyLimiter, AllowKey, ServeNext, GoOn, Pass, rateVars, Known, RateInv, RateTypeOK
  <2>3. \A q \in Requests : q # r => rpc'[q] = rpc[q]
    <3>1. Add(r) \/ Check(r) \/ Reject(r) \/ ServeHTTP(r) \/ Release(r) \/ UNCHANGED vars
      BY <1>1, WrappedForConns
    <3> QED
      BY <3>1 DEF Add, Check, Reject, ServeHTTP, Release, vars, Known, TypeOK
  <2> QED
    BY <2>1, <2>2, <2>3
<1>4. qpc'[r] # "idle" \/ rpc'[r] # "idle" => request'[r] # None /\ Passes(request'[r])
  <2>1. CASE Check1(r)
    BY <2>1 DEF Check1, Outermost, rateVars, vars
  <2>2. CASE Limit(r)
    <3>1. UNCHANGED rpc /\ rpc[r] = "idle"
      BY <2>2 DEF Limit, Outermost, OneLimiter, GetKeyLimiter, AllowKey, vars
    <3>2. CASE UNCHANGED reqVars
      <4>1. request[r] # None /\ Passes(request[r])
        BY <2>2 DEF Limit, Outermost, GetKeyLimiter, AllowKey, PageInv
      <4> QED
        BY <3>2, <4>1 DEF reqVars
    <3>3. CASE ~UNCHANGED reqVars
      <4>1. qpc'[r] = "idle"
        BY <2>2, <3>3 DEF Limit, Outermost, RefuseGlobal, AllowKey, Pass, rateVars, Known, RateInv, RateTypeOK
      <4> QED
        BY <3>1, <4>1
    <3> QED
      BY <3>2, <3>3
  <2>3. CASE (Admit(r) /\ UNCHANGED reqVars) \/ Serve(r)
    <3>1. request'[r] = request[r]
      BY <2>3 DEF Serve, reqVars
    <3>2. qpc[r] # "idle" \/ rpc[r] # "idle"
      BY <2>3 DEF Admit, ServeNext, Check, Reject, Serve, ServeHTTP
    <3> QED
      BY <3>1, <3>2 DEF PageInv
  <2>4. CASE (Reject(r) /\ UNCHANGED rateVars) \/ Return(r)
    BY <2>4 DEF Reject, Return, Release, OneLimiter, rateVars, Known, TypeOK
  <2> QED
    BY <1>1, <2>1, <2>2, <2>3, <2>4 DEF Wrapped, Admit
<1> QED
  BY <1>1, <1>2, <1>3, <1>4 DEF PageInv

\* The clients: a page goes on to its request when the preflight's answer
\* names its origin, and only calls that are no page's are retried.
LEMMA ClientKeepsPages ==
  ASSUME Known, RetryInv, PageInv, NEW r \in Requests, Client(r)
  PROVE  PageInv'
<1>1. UNCHANGED <<qpc, rpc>>
  BY DEF Client, Start, Attempt, Fail, Permitted, Respond, Drop, Arrive, Read, guardVars, rateVars, vars
<1>2. call \in [Requests -> Calls \cup {None}] /\ request \in [Requests -> Inputs \cup {None}]
  BY DEF RetryInv, Known, RequestsOK
<1>3. \A q \in Requests : q # r => call'[q] = call[q] /\ request'[q] = request[q]
  BY <1>2 DEF Client, Start, Attempt, Fail, Permitted, Respond, Drop, Arrive, Read, guardVars, reqVars
<1>4. request[r] # None => request'[r] = request[r]
  BY <1>2 DEF Client, Start, Attempt, Fail, Permitted, Respond, Drop, Arrive, Read, guardVars, reqVars
<1>5. request'[r] # None => Preflight(request'[r]) \/ MaySend(request'[r])
  <2>1. CASE Start(r)
    <3>1. PICK q \in Inputs : Arrive(r, IF NeedsPreflight(q) THEN AsPreflight(q) ELSE q)
      BY <2>1 DEF Start
    <3>2. request'[r] = IF NeedsPreflight(q) THEN AsPreflight(q) ELSE q
      BY <1>2, <3>1 DEF Arrive
    <3>3. CASE NeedsPreflight(q)
      <4>1. Preflight(request'[r])
        BY <3>2, <3>3, CallerAssumption DEF AsPreflight, Preflight
      <4> QED
        BY <4>1
    <3>4. CASE ~NeedsPreflight(q)
      BY <3>2, <3>4 DEF MaySend
    <3> QED
      BY <3>3, <3>4
  <2>2. CASE Attempt(r)
    <3>1. request'[r] = call[r].input /\ MaySend(call[r].input)
      BY <1>2, <2>2 DEF Attempt, Arrive, PageInv
    <3> QED
      BY <3>1
  <2>3. CASE UNCHANGED request
    BY <2>3 DEF PageInv
  <2> QED
    BY <2>1, <2>2, <2>3 DEF Client, Fail, Permitted, Respond, Drop, Read, guardVars, reqVars
<1>6. call'[r] # None /\ call'[r].phase = "build" => MaySend(call'[r].input)
  <2>1. CASE Start(r)
    <3>1. PICK q \in Inputs : call' = [call EXCEPT ![r] =
            [input |-> q, phase |-> IF NeedsPreflight(q) THEN "asked" ELSE "wait",
             tried401 |-> FALSE, tried403 |-> FALSE, attempts |-> IF NeedsPreflight(q) THEN 0 ELSE 1]]
      BY <2>1 DEF Start
    <3>2. call'[r].phase # "build"
      BY <1>2, <3>1
    <3> QED
      BY <3>2
  <2>2. CASE Attempt(r)
    <3>1. call[r] \in Calls /\ call' = [call EXCEPT ![r].phase = "wait", ![r].attempts = @ + 1]
      BY <1>2, <2>2 DEF Attempt
    <3>2. call'[r].phase = "wait"
      BY <1>2, <3>1 DEF Calls
    <3> QED
      BY <3>2
  <2>3. CASE Fail(r) \/ Drop(r)
    BY <1>2, <2>3 DEF Fail, Drop
  <2>4. CASE Permitted(r)
    <3>1. call[r] \in Calls
      BY <1>2, <2>4 DEF Permitted
    <3>2. call'[r] = IF Reflected(call[r].input) THEN [call[r] EXCEPT !.phase = "build"] ELSE None
      BY <1>2, <2>4 DEF Permitted
    <3>3. [call[r] EXCEPT !.phase = "build"].input = call[r].input
      BY <3>1 DEF Calls
    <3> QED
      BY <3>2, <3>3 DEF MaySend, Reflected
  <2>5. CASE Respond(r)
    <3>1. PICK d \in Outcomes(call[r], response[r].sent) : call' = [call EXCEPT ![r] = d]
      BY <2>5 DEF Respond
    <3>2. call[r] \in Calls /\ call'[r] = d
      BY <1>2, <2>5, <3>1 DEF Respond
    <3>3. d # None => call[r].input.caller = "auth" /\ d \in {Next401(call[r]), Next403(call[r])}
      BY <3>1 DEF Outcomes
    <3>4. Next401(call[r]).input = call[r].input /\ Next403(call[r]).input = call[r].input
      BY <3>2 DEF Next401, Next403, Calls
    <3>5. d # None => d.input.caller = "auth"
      BY <3>3, <3>4
    <3> QED
      BY <3>2, <3>5 DEF MaySend, NeedsPreflight
  <2> QED
    BY <2>1, <2>2, <2>3, <2>4, <2>5 DEF Client
<1> QED
  BY <1>1, <1>3, <1>4, <1>5, <1>6 DEF PageInv

\* Of the pages only the server's own reach the handler with a WebSocket
\* upgrade or a request that changes anything: OriginChecker, CORS and
\* RequireContentType with the browser's preflight leave no way round, for
\* every list of origins that names only those, and every list of types that
\* a plain form cannot send.
THEOREM PagesStayOut == CallerSpec => []ForeignPagesStayOut
<1>1. CallerInit => PageInv
  BY DEF CallerInit, GuardInit, RateInit, Init, PageInv
<1>2. Known /\ OneLimiter /\ RetryInv /\ PageInv /\ [CallerNext]_allVars => PageInv'
  <2> SUFFICES ASSUME Known, OneLimiter, RetryInv, PageInv, [CallerNext]_allVars PROVE PageInv'
    OBVIOUS
  <2>1. CASE UNCHANGED <<call, request, qpc, rpc>>
    BY <2>1 DEF PageInv
  <2>2. UNCHANGED allVars \/ Time \/ (Cleanup /\ UNCHANGED <<vars, reqVars, callerVars>>)
          => UNCHANGED <<call, request, qpc, rpc>>
    BY DEF allVars, guardVars, rateVars, vars, reqVars, callerVars, Time, Tick, Cleanup
  <2> QED
    BY <2>1, <2>2, ServerKeepsPages, ClientKeepsPages DEF CallerNext
<1>3. Known /\ PageInv => ForeignPagesStayOut
  <2> SUFFICES ASSUME Known, PageInv, NEW r \in Requests, rpc[r] = "serve"
               PROVE  ~ForeignPage(request[r])
    BY DEF ForeignPagesStayOut
  <2>1. request[r] # None /\ Passes(request[r]) /\ MaySend(request[r])
    BY DEF PageInv, Passes
  <2>2. request[r] \in Inputs
    BY <2>1 DEF Known, RequestsOK
  <2> QED
    BY <2>1, <2>2, PassedIsOwn
<1> QED
  BY <1>1, <1>2, <1>3, KnownHolds, CreditInvariant, RetryInvariant, PTL DEF CallerSpec, CreditInv
=============================================================================
