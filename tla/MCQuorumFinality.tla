-------------------------- MODULE MCQuorumFinality --------------------------
(* A small instance of QuorumFinality: two branches, g - x1 and              *)
(* g - y1 - y2.                                                              *)
EXTENDS QuorumFinality, TLC

CONSTANTS g, x1, y1, y2, v1, v2, v3, v4

Chain == (g :> {g}) @@ (x1 :> {g, x1}) @@ (y1 :> {g, y1}) @@ (y2 :> {g, y1, y2})
MCPath == [b \in Blocks |-> Chain[b]]
MCHeight == [b \in Blocks |-> Cardinality(Chain[b]) - 1]
\* x1 beats y1 by hash, y2 beats both by height.
MCScore == [b \in Blocks |-> 0]
MCHashRank == (g :> 0) @@ (x1 :> 1) @@ (y1 :> 2) @@ (y2 :> 3)
Symmetry == Permutations(Validators \ Faulty) \cup Permutations(Nodes)
=============================================================================
