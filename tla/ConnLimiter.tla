---------------------------- MODULE ConnLimiter ----------------------------
(***************************************************************************)
(* ConnLimiter (middleware/connlimit.go): at most max requests are inside  *)
(* the wrapped handler at any time.  There is no lock: a request adds one  *)
(* to an atomic counter, looks at the sum it got back, and takes its one   *)
(* back if the sum is over the limit.  Between the two additions a request *)
(* that will be rejected is counted all the same.                          *)
(*                                                                         *)
(* Requests are the goroutines of concurrent requests; each may come back  *)
(* any number of times.                                                    *)
(***************************************************************************)
EXTENDS Integers, FiniteSets, Middleware

CONSTANT max          \* the limit; NewConnLimiter returns nil unless it is positive

ASSUME LimiterAssumption == max \in Nat \ {0} /\ IsFiniteSet(Requests)

VARIABLES
  active,    \* c.active
  rpc,       \* where each request is
  current    \* the sum each request got from its Add(1)

vars == <<active, rpc, current>>

TypeOK ==
  /\ active \in Nat
  /\ rpc \in [Requests -> {"idle", "check", "reject", "serve", "release"}]
  /\ current \in [Requests -> Int]

Init ==
  /\ active = 0
  /\ rpc = [r \in Requests |-> "idle"]
  /\ current = [r \in Requests |-> 0]

\* current := c.active.Add(1)
Add(r) ==
  /\ rpc[r] = "idle"
  /\ active' = active + 1
  /\ current' = [current EXCEPT ![r] = active + 1]
  /\ rpc' = [rpc EXCEPT ![r] = "check"]

\* Mutant: the limit is tested with the wrong comparison.
Check_OffByOne(r) ==
  /\ rpc[r] = "check"
  /\ rpc' = [rpc EXCEPT ![r] = IF current[r] > max + 1 THEN "reject" ELSE "serve"]
  /\ UNCHANGED <<active, current>>

\* if current > c.max
Check(r) ==
  /\ rpc[r] = "check"
  /\ rpc' = [rpc EXCEPT ![r] = IF current[r] > max THEN "reject" ELSE "serve"]
  /\ UNCHANGED <<active, current>>

\* c.active.Add(-1), then 503.
Reject(r) ==
  /\ rpc[r] = "reject"
  /\ active' = active - 1
  /\ rpc' = [rpc EXCEPT ![r] = "idle"]
  /\ current' = [current EXCEPT ![r] = 0]

\* next.ServeHTTP returns or panics ...
ServeHTTP(r) ==
  /\ rpc[r] = "serve"
  /\ rpc' = [rpc EXCEPT ![r] = "release"]
  /\ UNCHANGED <<active, current>>

\* ... and the deferred Add(-1) runs.
Release(r) ==
  /\ rpc[r] = "release"
  /\ active' = active - 1
  /\ rpc' = [rpc EXCEPT ![r] = "idle"]
  /\ current' = [current EXCEPT ![r] = 0]

Next == \E r \in Requests : Add(r) \/ Check(r) \/ Reject(r) \/ ServeHTTP(r) \/ Release(r)

Spec == Init /\ [][Next]_vars

-----------------------------------------------------------------------------
Counted == {r \in Requests : rpc[r] # "idle"}

Admitted == {r \in Requests : /\ rpc[r] \in {"check", "serve", "release"}
                              /\ current[r] <= max}

\* No interleaving of the atomic additions lets more than max requests into
\* the wrapped handler.
AtMostMax == Cardinality({r \in Requests : rpc[r] = "serve"}) <= max

\* Nothing leaks: the counter is exactly the number of requests between
\* their two additions, so it is back at zero when the last one has left.
CounterExact == active = Cardinality(Counted)

\* The strengthening of AtMostMax that the algorithm preserves.
Inv ==
  /\ TypeOK
  /\ CounterExact
  /\ Cardinality(Admitted) <= max
  /\ \A r \in Requests : rpc[r] \in {"serve", "release"} => current[r] <= max
=============================================================================
