----------------------------- MODULE MCSSEHub -----------------------------
(* Instances of SSEHub: two connections under their own identifiers, or     *)
(* under the same one (a client that reconnects before it is unregistered). *)
EXTENDS SSEHub, TLC

CONSTANTS c1, c2, id1, id2

OwnIds == [c \in {c1, c2} |-> IF c = c1 THEN id1 ELSE id2]
SameId == [c \in {c1, c2} |-> id1]
OneId == [c \in {c1} |-> id1]

\* Two connections with the same identifier are interchangeable.
Symmetry == Permutations({c1, c2})
=============================================================================
