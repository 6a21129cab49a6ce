---------------------------- MODULE MCSSEClient ----------------------------
(* A model-checking instance of SSEClient: the producers are alike. *)
EXTENDS SSEClient, TLC

ProducerSymmetry == Permutations(Producers)
=============================================================================
