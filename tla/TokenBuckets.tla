----------------------------- MODULE TokenBuckets -----------------------------
(***************************************************************************)
(* What a rate limiter promises: every client has a token bucket, which is *)
(* full at first, loses a token for every request that is allowed and gets *)
(* PerTick tokens in every tick.  No bucket is ever forgotten or shared.   *)
(***************************************************************************)
EXTENDS Naturals

CONSTANTS Clients, Asking,   \* who asks, and what is asked
          PerTick, Burst     \* a PerTick of 0 is no limit

VARIABLES now, tokens, allowed

BucketsInit ==
  /\ now = 0
  /\ tokens = [c \in Clients |-> Burst]
  /\ allowed = {}

\* A request is allowed at the expense of a client, or there is no limit.
AllowOne(r) ==
  /\ r \in Asking \ allowed
  /\ allowed' = allowed \cup {r}
  /\ IF PerTick > 0
     THEN \E c \in Clients : tokens[c] > 0 /\ tokens' = [tokens EXCEPT ![c] = @ - 1]
     ELSE UNCHANGED tokens
  /\ UNCHANGED now

Leave(r) ==
  /\ r \in allowed
  /\ allowed' = allowed \ {r}
  /\ UNCHANGED <<now, tokens>>

Pour ==
  /\ now' = now + 1
  /\ tokens' = [c \in Clients |-> IF tokens[c] + PerTick <= Burst THEN tokens[c] + PerTick ELSE Burst]
  /\ UNCHANGED allowed

BucketsNext == (\E r \in Asking : AllowOne(r) \/ Leave(r)) \/ Pour

BucketsSpec == BucketsInit /\ [][BucketsNext]_<<now, tokens, allowed>>
=============================================================================
