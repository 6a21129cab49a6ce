---------------------------- MODULE MCURLWaiter -----------------------------
(* The waiter's requests among a connection of each other kind. *)
EXTENDS URLWaiter, TLC

CONSTANTS p1, e1, w1

Kinds == p1 :> "plain" @@ e1 :> "sse" @@ w1 :> "ws"
=============================================================================
