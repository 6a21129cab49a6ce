----------------------------- MODULE MCGraceful -----------------------------
(* Instances of Graceful: one connection of each kind and a second SSE one. *)
EXTENDS Graceful, TLC

CONSTANTS p1, e1, e2, w1

Kinds == p1 :> "plain" @@ e1 :> "sse" @@ e2 :> "sse" @@ w1 :> "ws"
=============================================================================
