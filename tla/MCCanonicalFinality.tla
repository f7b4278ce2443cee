------------------------ MODULE MCCanonicalFinality ------------------------
(* A genesis with two competing branches, a1-a2 and b1. *)
EXTENDS CanonicalFinality, TLC

CONSTANTS v1, v2, f1, f2, g, a1, a2, b1

MCPath   == [b \in Blocks |-> IF b = a2 THEN {g, a1, a2} ELSE {g, b}]
MCHeight == [b \in Blocks |-> IF b = g THEN 0 ELSE IF b = a2 THEN 2 ELSE 1]
\* b1 beats a1 by score; a2 ties with b1 and beats it by height.
MCScore  == [b \in Blocks |-> CASE b = g -> 0 [] b = a1 -> 1 [] OTHER -> 2]
MCRank   == [b \in Blocks |-> CASE b = g -> 0 [] b = a1 -> 2
                                [] b = a2 -> 3 [] OTHER -> 1]

\* The attestations the validators sign: the two competitors at height 1.
MCSigned == [validator : Validators, block : {a1, b1}]

Symmetry == Permutations(Validators) \cup Permutations(Facades)

=============================================================================
