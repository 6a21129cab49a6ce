----------------------------- MODULE Middleware -----------------------------
(* What the middleware modules share: the goroutines that serve requests,   *)
(* and what stands for nothing, a missing header or an empty slot.          *)

CONSTANTS Requests, None
=============================================================================
