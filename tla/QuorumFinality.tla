--------------------------- MODULE QuorumFinality ---------------------------
(***************************************************************************)
(* Validator finality between nodes.                                       *)
(*                                                                         *)
(* CanonicalFinality follows one node's store through its transactions;    *)
(* here every store is one atomic document and there are several nodes.    *)
(* Validators sign outside the nodes, an attestation reaches any node at   *)
(* any time and any number of times, and nodes mint blocks, adopt each     *)
(* other's chains by fork choice and finalize on their own votes.          *)
(***************************************************************************)
EXTENDS Integers, FiniteSets

CONSTANTS
    Nodes,
    Validators,
    Faulty,         \* validators that may sign anything
    Blocks, Genesis,
    Path,           \* block -> the blocks of its chain, itself included
    Height,         \* block -> its index
    Score, HashRank \* block -> what fork choice compares of its chain

ASSUME TreeAssumption ==
    /\ Genesis \in Blocks
    /\ Height \in [Blocks -> Nat] /\ Path \in [Blocks -> SUBSET Blocks]
    /\ \A b \in Blocks : {b, Genesis} \subseteq Path[b]
    /\ \A b \in Blocks : \A c, d \in Path[b] : Height[c] = Height[d] => c = d

ASSUME ValidatorAssumption == IsFiniteSet(Validators) /\ Faulty \subseteq Validators

VARIABLES
    signed,     \* attestations of the correct validators: <<validator, block>>
    tip,        \* node -> tip of its canonical chain
    votes,      \* node -> attestations its document retains
    proofs,     \* node -> its finalized blocks, each with its voters
    dropped     \* history: node -> attestations it has accepted and dropped

vars == <<signed, tip, votes, proofs, dropped>>

-----------------------------------------------------------------------------
\* Mutant: two thirds, rounded down.
FloorQuorum(n) == (2 * n) \div 3

\* Two thirds of the configured set, rounded up.
required_quorum(n) == (2 * n + 2) \div 3

Quorum == required_quorum(Cardinality(Validators))

Equivocators(vs, b) ==
    {x \in Validators : \E c \in Blocks \ {b} : Height[c] = Height[b] /\ {<<x, b>>, <<x, c>>} \subseteq vs}

votes_for_block(vs, b) == {x \in Validators : <<x, b>> \in vs} \ Equivocators(vs, b)

\* The proof that completes block b on node n, if any.
NewProof(n, b, vs) ==
    IF /\ \A p \in proofs[n] : Height[p.block] # Height[b]
       /\ Validators # {} /\ Cardinality(votes_for_block(vs, b)) >= Quorum
    THEN {[block |-> b, voters |-> votes_for_block(vs, b)]} ELSE {}

Replaces(c, b) ==
    \/ Score[c] > Score[b]
    \/ Score[c] = Score[b] /\ Height[c] > Height[b]
    \/ Score[c] = Score[b] /\ Height[c] = Height[b] /\ HashRank[c] < HashRank[b]

-----------------------------------------------------------------------------
\* The attestations a node may be given: nothing binds the faulty validators.
Available == signed \cup (Faulty \X (Blocks \ {Genesis}))

\* A correct validator signs a block that is canonical on some node, and one
\* block per height.
SignAttestation(x, b) ==
    /\ b # Genesis /\ x \notin Faulty
    /\ \E n \in Nodes : b \in Path[tip[n]]
    /\ \A c \in Blocks : <<x, c>> \in signed => Height[c] # Height[b]
    /\ signed' = signed \cup {<<x, b>>}
    /\ UNCHANGED <<tip, votes, proofs, dropped>>

\* A node is given an attestation: of its canonical block at that height,
\* and not against a proof it holds.
submit_validator_finality_attestation(n, x, b) ==
    /\ b \in Path[tip[n]]
    /\ \A p \in proofs[n] : Height[p.block] = Height[b] => p.block = b
    /\ <<x, b>> \notin votes[n]
    /\ votes' = [votes EXCEPT ![n] = @ \cup {<<x, b>>}]
    /\ proofs' = [proofs EXCEPT ![n] = @ \cup NewProof(n, b, votes'[n])]
    /\ UNCHANGED <<signed, tip, dropped>>

\* A node commits a block on its own tip.
commit_certified_submission(n, b) ==
    /\ Path[b] = Path[tip[n]] \cup {b} /\ b # tip[n]
    /\ tip' = [tip EXCEPT ![n] = b]
    /\ UNCHANGED <<signed, votes, proofs, dropped>>

\* Mutant: fork choice alone decides.
AdoptBetter(n, m) ==
    /\ Replaces(tip[m], tip[n])
    /\ tip' = [tip EXCEPT ![n] = tip[m]]
    /\ votes' = [votes EXCEPT ![n] = {v \in @ : v[2] \in Path[tip[m]]}]
    /\ dropped' = [dropped EXCEPT ![n] = @ \cup (votes[n] \ votes'[n])]
    /\ UNCHANGED <<signed, proofs>>

\* A node adopts a peer's chain that fork choice prefers and that keeps its
\* finalized blocks; attestations that are no longer canonical are dropped.
adopt_canonical_chain(n, m) ==
    /\ Replaces(tip[m], tip[n])
    /\ \A p \in proofs[n] : p.block \in Path[tip[m]]
    /\ tip' = [tip EXCEPT ![n] = tip[m]]
    /\ votes' = [votes EXCEPT ![n] = {v \in @ : v[2] \in Path[tip[m]]}]
    /\ dropped' = [dropped EXCEPT ![n] = @ \cup (votes[n] \ votes'[n])]
    /\ UNCHANGED <<signed, proofs>>

Init ==
    /\ signed = {}
    /\ tip = [n \in Nodes |-> Genesis]
    /\ votes = [n \in Nodes |-> {}] /\ proofs = [n \in Nodes |-> {}]
    /\ dropped = [n \in Nodes |-> {}]

Next ==
    \/ \E x \in Validators, b \in Blocks : SignAttestation(x, b)
    \/ \E n \in Nodes :
        \/ \E v \in Available : submit_validator_finality_attestation(n, v[1], v[2])
        \/ \E b \in Blocks : commit_certified_submission(n, b)
        \/ \E m \in Nodes : adopt_canonical_chain(n, m)

Spec == Init /\ [][Next]_vars

-----------------------------------------------------------------------------
(* Properties *)

\* Documents hold existing attestations, of canonical blocks only, and proofs of
\* existing blocks.
TypeOK ==
    /\ tip \in [Nodes -> Blocks]
    /\ signed \subseteq Validators \X Blocks
    /\ \A n \in Nodes :
        /\ votes[n] \cup dropped[n] \subseteq Available
        /\ \A v \in votes[n] : v[2] \in Path[tip[n]]
        /\ proofs[n] \subseteq [block : Blocks, voters : SUBSET Validators]

\* The fault bound under which two quorums share a correct validator.
FaultBound == Cardinality(Faulty) < 2 * Quorum - Cardinality(Validators)

\* No two nodes finalize different blocks of one height.
NoConflictAtHeight ==
    \A n, m \in Nodes : \A p \in proofs[n], q \in proofs[m] :
        Height[p.block] = Height[q.block] => p.block = q.block

\* The finalized blocks of all nodes lie on one chain.
\* The code does not keep this: README, section 5.
OneFinalizedChain ==
    \A n, m \in Nodes : \A p \in proofs[n], q \in proofs[m] :
        p.block \in Path[q.block] \/ q.block \in Path[p.block]

\* A node's own chain always contains what the node has finalized.
FinalizedStaysCanonical == \A n \in Nodes : \A p \in proofs[n] : p.block \in Path[tip[n]]

\* A node counts no vote of a validator of which it has accepted two
\* conflicting attestations.
\* The code does not keep this: README, section 5.
EquivocatorsNotCounted ==
    [][\A n \in Nodes : \A p \in proofs'[n] \ proofs[n] : \A x \in p.voters :
          \A c \in Blocks : <<x, c>> \in votes'[n] \cup dropped'[n] /\ Height[c] = Height[p.block] => c = p.block]_vars
=============================================================================
