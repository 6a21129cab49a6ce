----------------------------- MODULE MCGameRoom -----------------------------
(* One subscriber and one sync client, as one player or as two. *)
EXTENDS GameRoom

CONSTANTS a1, b1, ann, bob
=============================================================================
