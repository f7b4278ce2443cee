------------------------ MODULE QuorumFinalityProofs ------------------------
(***************************************************************************)
(* Validator finality between nodes, for every tree of blocks, set of      *)
(* nodes and set of validators: what a node has finalized stays on its     *)
(* chain, and, as long as two quorums share a correct validator, no two    *)
(* nodes finalize different blocks of one height.                          *)
(*                                                                         *)
(* AgreementInv is inductive.  Its parts say what a proof is worth by      *)
(* itself: a quorum of validators, the correct ones of which have signed   *)
(* the block; and that a correct validator signs once per height.  Two     *)
(* proofs of one height then share a voter that is bound by its signature. *)
(***************************************************************************)
EXTENDS QuorumFinality, FiniteSetTheorems, TLAPS

-----------------------------------------------------------------------------
(* The invariant *)

\* Correct validators sign once per height.
SignedOnce ==
    /\ \A v \in signed : v[1] \notin Faulty
    /\ \A v, w \in signed : v[1] = w[1] /\ Height[v[2]] = Height[w[2]] => v = w

\* Every proof is carried by a quorum, whose correct members signed the block.
ProofsAreBacked ==
    \A n \in Nodes : \A p \in proofs[n] :
        /\ Cardinality(p.voters) >= Quorum
        /\ \A x \in p.voters : <<x, p.block>> \in Available

\* The types of all variables.
Typed ==
    /\ votes \in [Nodes -> SUBSET Available]
    /\ dropped \in [Nodes -> SUBSET Available]
    /\ proofs \in [Nodes -> SUBSET [block : Blocks, voters : SUBSET Validators]]

AgreementInv == TypeOK /\ Typed /\ SignedOnce /\ ProofsAreBacked /\ FinalizedStaysCanonical

-----------------------------------------------------------------------------
(* Quorums *)

\* Two subsets of a finite set that are together larger than the set and a
\* third subset share a member outside the third (required_quorum).
LEMMA Overlap ==
    ASSUME NEW S, IsFiniteSet(S), NEW A, A \subseteq S, NEW B, B \subseteq S,
           NEW F, F \subseteq S,
           Cardinality(A) + Cardinality(B) > Cardinality(S) + Cardinality(F)
    PROVE  \E x \in A \cap B : x \notin F
<1>1. /\ IsFiniteSet(A) /\ IsFiniteSet(B) /\ IsFiniteSet(F)
      /\ IsFiniteSet(A \cup B) /\ IsFiniteSet(A \cap B)
      /\ Cardinality(A \cup B) <= Cardinality(S)
    <2>1. A \cup B \subseteq S /\ A \cap B \subseteq S
        OBVIOUS
    <2>. QED BY <2>1, FS_Subset
<1>2. /\ Cardinality(A) \in Nat /\ Cardinality(B) \in Nat /\ Cardinality(F) \in Nat
      /\ Cardinality(S) \in Nat /\ Cardinality(A \cup B) \in Nat /\ Cardinality(A \cap B) \in Nat
    BY <1>1, FS_CardinalityType
<1>3. Cardinality(A \cup B) = Cardinality(A) + Cardinality(B) - Cardinality(A \cap B)
    BY <1>1, FS_Union
<1>4. Cardinality(A \cap B) > Cardinality(F)
    BY <1>1, <1>2, <1>3
<1>5. SUFFICES ASSUME A \cap B \subseteq F PROVE FALSE
    OBVIOUS
<1>6. Cardinality(A \cap B) <= Cardinality(F)
    BY <1>1, <1>5, FS_Subset
<1>. QED BY <1>2, <1>4, <1>6

\* The quorum of n validators is a natural number.
LEMMA QuorumType == Cardinality(Validators) \in Nat /\ Quorum \in Nat
<1>1. Cardinality(Validators) \in Nat
    BY ValidatorAssumption, FS_CardinalityType
<1>. QED BY <1>1 DEF Quorum, required_quorum

\* Fewer faulty validators than a third are always within the bound
\* (required_quorum rounds two thirds up).
THEOREM ThirdIsTolerated ==
    3 * Cardinality(Faulty) < Cardinality(Validators) => FaultBound
<1>1. Cardinality(Validators) \in Nat /\ Cardinality(Faulty) \in Nat
    BY ValidatorAssumption, FS_CardinalityType, FS_Subset
<1>. QED BY <1>1 DEF FaultBound, Quorum, required_quorum

\* Two backed proofs of one height are of one block.
LEMMA ProofsAgree ==
    ASSUME FaultBound, AgreementInv
    PROVE  NoConflictAtHeight
<1>. SUFFICES ASSUME NEW n \in Nodes, NEW m \in Nodes,
                     NEW p \in proofs[n], NEW q \in proofs[m],
                     Height[p.block] = Height[q.block]
              PROVE  p.block = q.block
    BY DEF NoConflictAtHeight
<1>1. p.voters \subseteq Validators /\ q.voters \subseteq Validators
    BY DEF AgreementInv, TypeOK
<1>2. \E x \in p.voters \cap q.voters : x \notin Faulty
    <2>1. /\ Cardinality(p.voters) \in Nat /\ Cardinality(q.voters) \in Nat
          /\ Cardinality(Faulty) \in Nat
        BY <1>1, ValidatorAssumption, FS_Subset, FS_CardinalityType
    <2>2. Cardinality(p.voters) >= Quorum /\ Cardinality(q.voters) >= Quorum
        BY DEF AgreementInv, ProofsAreBacked
    <2>3. Cardinality(p.voters) + Cardinality(q.voters)
             > Cardinality(Validators) + Cardinality(Faulty)
        BY <2>1, <2>2, QuorumType DEF FaultBound
    <2>. QED BY <1>1, <2>3, ValidatorAssumption, Overlap
<1>3. PICK x \in p.voters \cap q.voters : x \notin Faulty
    BY <1>2
<1>4. <<x, p.block>> \in signed /\ <<x, q.block>> \in signed
    BY <1>3 DEF AgreementInv, ProofsAreBacked, Available
<1>. QED BY <1>4 DEF AgreementInv, SignedOnce

-----------------------------------------------------------------------------
(* The invariant is inductive. *)

LEMMA InvInit == Init => AgreementInv
BY TreeAssumption DEF Init, AgreementInv, TypeOK, Typed, SignedOnce, ProofsAreBacked,
    FinalizedStaysCanonical

\* A completed proof is of a quorum that voted.
LEMMA NewProofIsBacked ==
    ASSUME NEW n \in Nodes, NEW b \in Blocks, NEW vs, NEW p \in NewProof(n, b, vs)
    PROVE  /\ p \in [block : Blocks, voters : SUBSET Validators]
           /\ p.block = b
           /\ Cardinality(p.voters) >= Quorum
           /\ \A x \in p.voters : <<x, p.block>> \in vs
<1>1. /\ p = [block |-> b, voters |-> votes_for_block(vs, b)]
      /\ Cardinality(votes_for_block(vs, b)) >= Quorum
    <2>1. CASE /\ \A q \in proofs[n] : Height[q.block] # Height[b]
               /\ Validators # {} /\ Cardinality(votes_for_block(vs, b)) >= Quorum
        BY <2>1 DEF NewProof
    <2>2. CASE ~(/\ \A q \in proofs[n] : Height[q.block] # Height[b]
                 /\ Validators # {} /\ Cardinality(votes_for_block(vs, b)) >= Quorum)
        <3>1. NewProof(n, b, vs) = {}
            BY <2>2, Zenon DEF NewProof
        <3>. QED BY <3>1
    <2>. QED BY <2>1, <2>2
<1>2. votes_for_block(vs, b) \subseteq {x \in Validators : <<x, b>> \in vs}
    BY DEF votes_for_block
<1>. QED BY <1>1, <1>2

LEMMA SignKeeps ==
    ASSUME AgreementInv, NEW x \in Validators, NEW b \in Blocks, SignAttestation(x, b)
    PROVE  AgreementInv'
<1>. USE DEF SignAttestation, AgreementInv
<1>1. Available \subseteq Available'
    BY DEF Available
<1>2. TypeOK'
    BY <1>1 DEF TypeOK
<1>3. Typed'
    BY <1>1 DEF Typed
<1>4. SignedOnce'
    BY DEF SignedOnce, TypeOK
<1>5. ProofsAreBacked' /\ FinalizedStaysCanonical'
    BY <1>1 DEF ProofsAreBacked, FinalizedStaysCanonical
<1>. QED BY <1>2, <1>3, <1>4, <1>5

LEMMA SubmitKeeps ==
    ASSUME AgreementInv, NEW n \in Nodes, NEW v \in Available,
           submit_validator_finality_attestation(n, v[1], v[2])
    PROVE  AgreementInv'
<1>. DEFINE fresh == NewProof(n, v[2], votes'[n])
<1>. USE DEF submit_validator_finality_attestation, AgreementInv
<1>1. v = <<v[1], v[2]>> /\ v[2] \in Blocks
    BY ValidatorAssumption DEF TypeOK, Available
<1>2. Available' = Available
    BY DEF Available
<1>3. /\ votes' = [votes EXCEPT ![n] = @ \cup {v}]
      /\ votes' \in [Nodes -> SUBSET Available]
      /\ \A m \in Nodes : votes'[m] \subseteq votes[m] \cup {v}
      /\ \A m \in Nodes \ {n} : votes'[m] = votes[m]
    BY <1>1 DEF Typed
<1>4. /\ proofs' = [proofs EXCEPT ![n] = @ \cup fresh]
      /\ \A m \in Nodes : proofs'[m] = IF m = n THEN proofs[n] \cup fresh ELSE proofs[m]
    BY DEF Typed
<1>5. \A p \in fresh :
          /\ p \in [block : Blocks, voters : SUBSET Validators]
          /\ p.block = v[2]
          /\ Cardinality(p.voters) >= Quorum
          /\ \A x \in p.voters : <<x, p.block>> \in Available
    BY <1>1, <1>3, NewProofIsBacked
<1>. HIDE DEF fresh
<1>6. proofs' \in [Nodes -> SUBSET [block : Blocks, voters : SUBSET Validators]]
    BY <1>4, <1>5 DEF Typed
<1>7. TypeOK'
    BY <1>2, <1>3, <1>6 DEF TypeOK, Typed
<1>8. Typed'
    BY <1>2, <1>3, <1>6 DEF Typed
<1>9. SignedOnce' /\ ProofsAreBacked'
    BY <1>2, <1>4, <1>5 DEF SignedOnce, ProofsAreBacked
<1>10. FinalizedStaysCanonical'
    BY <1>4, <1>5 DEF FinalizedStaysCanonical
<1>. QED BY <1>7, <1>8, <1>9, <1>10

LEMMA CommitKeeps ==
    ASSUME AgreementInv, NEW n \in Nodes, NEW b \in Blocks,
           commit_certified_submission(n, b)
    PROVE  AgreementInv'
<1>. USE DEF commit_certified_submission, AgreementInv
<1>1. Available' = Available
    BY DEF Available
<1>2. tip' \in [Nodes -> Blocks] /\ \A m \in Nodes : Path[tip[m]] \subseteq Path[tip'[m]]
    BY DEF TypeOK
<1>3. TypeOK' /\ Typed'
    BY <1>1, <1>2 DEF TypeOK, Typed
<1>4. SignedOnce' /\ ProofsAreBacked'
    BY <1>1 DEF SignedOnce, ProofsAreBacked
<1>5. FinalizedStaysCanonical'
    BY <1>2 DEF FinalizedStaysCanonical
<1>. QED BY <1>3, <1>4, <1>5

LEMMA AdoptKeeps ==
    ASSUME AgreementInv, NEW n \in Nodes, NEW m \in Nodes, adopt_canonical_chain(n, m)
    PROVE  AgreementInv'
<1>. USE DEF adopt_canonical_chain, AgreementInv
<1>1. Available' = Available
    BY DEF Available
<1>2. tip' \in [Nodes -> Blocks]
    BY DEF TypeOK
<1>3. /\ votes' \in [Nodes -> SUBSET Available]
      /\ \A k \in Nodes : \A v \in votes'[k] : v[2] \in Path[tip'[k]]
    BY DEF TypeOK, Typed
<1>4. dropped' \in [Nodes -> SUBSET Available]
    BY DEF Typed
<1>5. TypeOK' /\ Typed'
    BY <1>1, <1>2, <1>3, <1>4 DEF TypeOK, Typed
<1>6. SignedOnce' /\ ProofsAreBacked'
    BY <1>1 DEF SignedOnce, ProofsAreBacked
<1>7. FinalizedStaysCanonical'
    BY DEF FinalizedStaysCanonical, TypeOK
<1>. QED BY <1>5, <1>6, <1>7

LEMMA InvNext == AgreementInv /\ [Next]_vars => AgreementInv'
<1>. SUFFICES ASSUME AgreementInv, [Next]_vars PROVE AgreementInv'
    OBVIOUS
<1>1. CASE Next
    BY <1>1, SignKeeps, SubmitKeeps, CommitKeeps, AdoptKeeps DEF Next
<1>2. CASE UNCHANGED vars
    BY <1>2 DEF vars, AgreementInv, TypeOK, Typed, SignedOnce, ProofsAreBacked,
        FinalizedStaysCanonical, Available
<1>. QED BY <1>1, <1>2

LEMMA Invariance == Spec => []AgreementInv
BY InvInit, InvNext, PTL DEF Spec

-----------------------------------------------------------------------------
(* Theorems *)

\* The documents of all nodes are well formed, whoever is faulty.
THEOREM TypeCorrect == Spec => []TypeOK
<1>1. AgreementInv => TypeOK
    BY DEF AgreementInv
<1>. QED BY <1>1, Invariance, PTL

\* No node leaves a block it has finalized, whoever is faulty
\* (adopt_canonical_chain, _reconcile_finality).
THEOREM FinalizedHistory == Spec => []FinalizedStaysCanonical
<1>1. AgreementInv => FinalizedStaysCanonical
    BY DEF AgreementInv
<1>. QED BY <1>1, Invariance, PTL

\* Within the fault bound, no two nodes finalize different blocks of a height
\* (process_attestation).
THEOREM HeightsDoNotConflict ==
    ASSUME FaultBound
    PROVE  Spec => []NoConflictAtHeight
<1>1. AgreementInv => NoConflictAtHeight
    BY ProofsAgree
<1>. QED BY <1>1, Invariance, PTL
=============================================================================
