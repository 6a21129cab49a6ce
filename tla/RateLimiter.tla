----------------------------- MODULE RateLimiter -----------------------------
(***************************************************************************)
(* RateLimiter (middleware/ratelimit.go): one token bucket for everybody,  *)
(* one per key, and a goroutine that forgets the keys it has not seen for  *)
(* a while.  A key that comes back after that gets a new, full bucket.     *)
(*                                                                         *)
(* A request takes its global token, looks its key's bucket up under rl.mu *)
(* and takes a token from it: three atomic steps.  The buckets are         *)
(* golang.org/x/time/rate limiters, external: they start full, and tokens  *)
(* come back at a constant rate up to the burst.  Time is a number of      *)
(* ticks, and no request spends a whole tick inside Allow.                 *)
(***************************************************************************)
EXTENDS Integers, FiniteSets, Middleware

CONSTANTS Keys,                         \* what keyFunc returns
          GlobalPerTick, GlobalBurst,   \* cfg.GlobalPerSec and int(cfg.GlobalPerSec)
          PerKeyPerTick, PerKeyBurst,   \* cfg.PerKeyPerSec, cfg.PerKeyBurst
          KeyLimiterTTL,                \* cfg.KeyLimiterTTL
          MaxTime                       \* bound: ticks

\* A limit of 0 is no limit, and a KeyLimiterTTL of 0 no cleanup.  Otherwise
\* it gives an idle bucket the time to fill up, as in DefaultRateLimitConfig.
ASSUME RateAssumption ==
  /\ GlobalPerTick \in Nat /\ GlobalBurst \in Nat
  /\ PerKeyPerTick \in Nat /\ PerKeyBurst \in Nat
  /\ KeyLimiterTTL \in Nat /\ MaxTime \in Nat
  /\ KeyLimiterTTL > 0 => PerKeyBurst <= PerKeyPerTick * KeyLimiterTTL
  /\ None \notin Nat /\ None \notin Keys

VARIABLES
  now,
  globalLimiter,   \* tokens in rl.globalLimiter
  keyLimiters,     \* tokens in the limiter of each key; None: not in the map
  lastSeen,        \* entry.lastSeen
  qpc,             \* where each request is in Allow
  key              \* the key of a request inside Allow

rateVars == <<now, globalLimiter, keyLimiters, lastSeen, qpc, key>>

RateTypeOK ==
  /\ now \in 0..MaxTime
  /\ globalLimiter \in 0..GlobalBurst
  /\ keyLimiters \in [Keys -> 0..PerKeyBurst \cup {None}]
  /\ lastSeen \in [Keys -> 0..MaxTime]
  /\ qpc \in [Requests -> {"idle", "lookup", "take", "passed"}]
  /\ key \in [Requests -> Keys \cup {None}]

RateInit ==
  /\ now = 0
  /\ globalLimiter = GlobalBurst
  /\ keyLimiters = [k \in Keys |-> None]
  /\ lastSeen = [k \in Keys |-> 0]
  /\ qpc = [r \in Requests |-> "idle"]
  /\ key = [r \in Requests |-> None]

Refill(tokens, perTick, burst) == IF tokens + perTick <= burst THEN tokens + perTick ELSE burst

\* Allow returns true, or goes on to the limiter of the key.
Pass(r) ==
  /\ qpc' = [qpc EXCEPT ![r] = "passed"]
  /\ key' = [key EXCEPT ![r] = None]

GoOn(r, k) ==
  IF PerKeyPerTick > 0
  THEN /\ qpc' = [qpc EXCEPT ![r] = "lookup"]
       /\ key' = [key EXCEPT ![r] = k]
  ELSE Pass(r)

-----------------------------------------------------------------------------
\* rl.globalLimiter.Allow(), if there is one, says no: 429, and nothing changes.
RefuseGlobal(r) ==
  /\ qpc[r] = "idle"
  /\ GlobalPerTick > 0 /\ globalLimiter = 0
  /\ UNCHANGED rateVars

\* It says yes.
AllowGlobal(r, k) ==
  /\ qpc[r] = "idle"
  /\ GlobalPerTick > 0 => globalLimiter > 0
  /\ globalLimiter' = IF GlobalPerTick > 0 THEN globalLimiter - 1 ELSE globalLimiter
  /\ GoOn(r, k)
  /\ UNCHANGED <<now, keyLimiters, lastSeen>>

\* Mutant: lastSeen is set only when the entry is made.
GetKeyLimiter_SeenOnce(r) ==
  /\ qpc[r] = "lookup"
  /\ keyLimiters' = [keyLimiters EXCEPT ![key[r]] = IF @ = None THEN PerKeyBurst ELSE @]
  /\ lastSeen' = IF keyLimiters[key[r]] = None THEN [lastSeen EXCEPT ![key[r]] = now] ELSE lastSeen
  /\ qpc' = [qpc EXCEPT ![r] = "take"]
  /\ UNCHANGED <<now, globalLimiter, key>>

GetKeyLimiter(r) ==
  /\ qpc[r] = "lookup"
  /\ keyLimiters' = [keyLimiters EXCEPT ![key[r]] = IF @ = None THEN PerKeyBurst ELSE @]
  /\ lastSeen' = [lastSeen EXCEPT ![key[r]] = now]
  /\ qpc' = [qpc EXCEPT ![r] = "take"]
  /\ UNCHANGED <<now, globalLimiter, key>>

\* Allow() of the key's limiter; the global token is gone in either case.
AllowKey(r) ==
  /\ qpc[r] = "take"
  /\ IF keyLimiters[key[r]] > 0
     THEN /\ keyLimiters' = [keyLimiters EXCEPT ![key[r]] = @ - 1]
          /\ Pass(r)
     ELSE /\ qpc' = [qpc EXCEPT ![r] = "idle"]
          /\ key' = [key EXCEPT ![r] = None]
          /\ UNCHANGED keyLimiters
  /\ UNCHANGED <<now, globalLimiter, lastSeen>>

\* A request that was allowed goes on to the next handler.
ServeNext(r) ==
  /\ qpc[r] = "passed"
  /\ qpc' = [qpc EXCEPT ![r] = "idle"]
  /\ UNCHANGED <<now, globalLimiter, keyLimiters, lastSeen, key>>

\* A round of cleanupKeyLimiters, under rl.mu.
Cleanup ==
  /\ KeyLimiterTTL > 0
  /\ \E k \in Keys : keyLimiters[k] # None /\ lastSeen[k] < now - KeyLimiterTTL
  /\ keyLimiters' = [k \in Keys |-> IF lastSeen[k] < now - KeyLimiterTTL THEN None ELSE keyLimiters[k]]
  /\ UNCHANGED <<now, globalLimiter, lastSeen, qpc, key>>

Tick ==
  /\ now < MaxTime
  /\ \A r \in Requests : qpc[r] \in {"idle", "passed"}
  /\ now' = now + 1
  /\ globalLimiter' = Refill(globalLimiter, GlobalPerTick, GlobalBurst)
  /\ keyLimiters' = [k \in Keys |-> IF keyLimiters[k] = None THEN None
                                    ELSE Refill(keyLimiters[k], PerKeyPerTick, PerKeyBurst)]
  /\ UNCHANGED <<lastSeen, qpc, key>>

Allow(r) ==
  \/ RefuseGlobal(r)
  \/ \E k \in Keys : AllowGlobal(r, k)
  \/ GetKeyLimiter(r)
  \/ AllowKey(r)

RateNext == (\E r \in Requests : Allow(r) \/ ServeNext(r)) \/ Cleanup \/ Tick

RateSpec == RateInit /\ [][RateNext]_rateVars

-----------------------------------------------------------------------------
\* A key that is not in the map has the bucket it will get.
Bucket(k) == IF keyLimiters[k] = None THEN PerKeyBurst ELSE keyLimiters[k]

Ideal == INSTANCE TokenBuckets
         WITH Clients <- Keys, Asking <- Requests, PerTick <- PerKeyPerTick, Burst <- PerKeyBurst,
              tokens <- [k \in Keys |-> Bucket(k)],
              allowed <- {r \in Requests : qpc[r] = "passed"}

\* The limiter is as good as one that makes all buckets at the start and keeps
\* them: that entries are made on demand, in a step of their own, and dropped
\* by cleanupKeyLimiters cannot be told from outside.
BucketsKept == Ideal!BucketsSpec

\* Why: a bucket has had the time since lastSeen to fill up, and nobody takes
\* from it without having set lastSeen in the same tick.
Accrued(tokens, ticks) == tokens = PerKeyBurst \/ tokens >= PerKeyPerTick * ticks

InsideHaveKeys == \A r \in Requests : qpc[r] \in {"lookup", "take"} =>
                    key[r] \in Keys /\ PerKeyPerTick > 0

TakersJustSeen == \A r \in Requests : qpc[r] = "take" =>
                    keyLimiters[key[r]] # None /\ lastSeen[key[r]] = now

IdleFillsUp == \A k \in Keys : keyLimiters[k] # None =>
                 lastSeen[k] <= now /\ Accrued(keyLimiters[k], now - lastSeen[k])

RateInv == RateTypeOK /\ InsideHaveKeys /\ TakersJustSeen /\ IdleFillsUp
=============================================================================
