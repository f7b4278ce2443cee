---------------------- MODULE CanonicalFinalityProofs ----------------------
(***************************************************************************)
(* Finality of the canonical store is monotone for any set of facades,     *)
(* validators and blocks.  The invariant below strengthens                 *)
(* DurableFinalityCoherent: every document on its way to the store or to a *)
(* facade's memory carries only proofs that are durable already, except    *)
(* the draft of the open attestation transaction, which extends them.      *)
(***************************************************************************)
EXTENDS CanonicalFinality, TLAPS

Coherent(doc) ==
    /\ OneProofPerHeight(doc.proofs)
    /\ ProofsOnChain(doc.proofs, doc.tip)
    /\ \A p \in doc.proofs : ValidEvidence(p)
    /\ \A v \in doc.votes : OnChain(v, doc.tip)

DraftExtends ==
    lock # Free =>
        /\ Coherent(draft)
        /\ draft.tip = durable.tip
        /\ durable.proofs \subseteq draft.proofs

CarriedDurable == \A t \in threads : t.doc.proofs \subseteq durable.proofs

\* The inductive invariant.
FinalityInv ==
    /\ TypeOK
    /\ Coherent(durable)
    /\ DraftExtends
    /\ CachedFinalityIsDurable
    /\ CarriedDurable

-----------------------------------------------------------------------------
(* Documents *)

\* The document of a fresh store.
LEMMA EmptyDocType == EmptyDoc \in Doc /\ Coherent(EmptyDoc)
  BY TreeAssumption DEF EmptyDoc, Doc, Coherent, OneProofPerHeight, ProofsOnChain

\* A merge of two documents is a document.
LEMMA MergedType ==
  ASSUME NEW old \in Doc, NEW new \in Doc
  PROVE  Merged(old, new) \in Doc
  BY DEF Merged, MergedProofs, Doc

\* What a thread carries is well formed.
LEMMA StepType ==
  ASSUME NEW f \in Facades, NEW k \in WriterKinds \cup ReorgKinds, NEW d \in Doc
  PROVE  Step(f, k, d) \in Thread
  BY DEF Step, Thread

\* Publishing a document into memory leaves a document there.
LEMMA PublishType ==
  ASSUME NEW mem \in Doc, NEW doc \in Doc
  PROVE  /\ _publish_finality_cache(mem, doc) \in Doc
         /\ _publish_finality_cache(mem, doc).proofs = doc.proofs
         /\ _restore_blockchain_state_document(mem, doc) \in Doc
         /\ _restore_blockchain_state_document(mem, doc).proofs = doc.proofs
  BY DEF _publish_finality_cache, _restore_blockchain_state_document, WithTip, Doc

\* Another tip under the same finality.
LEMMA WithTipType ==
  ASSUME NEW doc \in Doc, NEW b \in Blocks
  PROVE  WithTip(doc, b) \in Doc /\ WithTip(doc, b).proofs = doc.proofs
  BY DEF WithTip, Doc

\* What a guarded write keeps: it extends the stored proofs, stays coherent,
\* and adds no proof when the replacement carries only stored ones.
LEMMA GuardedWrite ==
  ASSUME NEW old \in Doc, NEW new \in Doc, NEW allow \in BOOLEAN,
         Coherent(old), _preserve_finality(old, new, allow),
         OneProofPerHeight(new.proofs), \A p \in new.proofs : ValidEvidence(p)
  PROVE  /\ Coherent(Merged(old, new))
         /\ old.proofs \subseteq Merged(old, new).proofs
         /\ new.proofs \subseteq old.proofs => Merged(old, new).proofs = old.proofs
         /\ Merged(old, new).tip = new.tip
  <1>1. Merged(old, new).tip = new.tip
    BY DEF Merged
  <1>2. Merged(old, new).proofs = MergedProofs(old, new)
    BY DEF Merged
  <1>3. OneProofPerHeight(MergedProofs(old, new))
    BY DEF MergedProofs, OneProofPerHeight, HasProofAt, Coherent, Doc, Proof
  <1>4. ProofsOnChain(MergedProofs(old, new), new.tip)
    BY DEF _preserve_finality
  <1>5. \A p \in MergedProofs(old, new) : ValidEvidence(p)
    BY DEF MergedProofs, Coherent
  <1>6. \A v \in Merged(old, new).votes : OnChain(v, new.tip)
    BY DEF Merged
  <1>7. Coherent(Merged(old, new))
    BY <1>1, <1>2, <1>3, <1>4, <1>5, <1>6 DEF Coherent
  <1>8. ASSUME new.proofs \subseteq old.proofs PROVE MergedProofs(old, new) = old.proofs
    BY <1>8 DEF MergedProofs, HasProofAt
  <1> QED BY <1>1, <1>2, <1>7, <1>8 DEF MergedProofs

\* A subset of coherent proofs is one per height and carries evidence.
LEMMA SubsetEvidence ==
  ASSUME NEW doc, Coherent(doc), NEW ps \in SUBSET doc.proofs
  PROVE  OneProofPerHeight(ps) /\ \A p \in ps : ValidEvidence(p)
  BY DEF Coherent, OneProofPerHeight

\* A document that passes the publication check keeps what memory knew.
LEMMA PublishKeeps ==
  ASSUME Coherent(durable), durable \in Doc, NEW mem \in Doc, NEW doc \in Doc,
         mem.proofs \subseteq durable.proofs, doc.proofs \subseteq durable.proofs,
         _check_finality_cache_transition(mem, doc)
  PROVE  mem.proofs \subseteq doc.proofs
  BY DEF Coherent, OneProofPerHeight, _check_finality_cache_transition, Doc

\* One attestation extends the private document and keeps it coherent.
LEMMA AttestationStep ==
  ASSUME NEW doc \in Doc, Coherent(doc), NEW v \in Vote, OnChain(v, doc.tip)
  PROVE  LET new == process_attestation(doc, v) IN
         /\ new \in Doc
         /\ Coherent(new)
         /\ new.tip = doc.tip
         /\ doc.proofs \subseteq new.proofs
  <1> DEFINE votes  == doc.votes \cup {v}
             voters == votes_for_block(votes, v.block)
             proof  == [block |-> v.block, voters |-> voters]
             new    == process_attestation(doc, v)
  <1>1. votes \in SUBSET Vote /\ proof \in Proof
    BY DEF Doc, Vote, Proof, votes_for_block
  <1>2. /\ new.tip = doc.tip
        /\ new.votes = votes
        /\ \/ new.proofs = doc.proofs
           \/ /\ new.proofs = doc.proofs \cup {proof}
              /\ ~HasProofAt(doc.proofs, v.block)
              /\ ValidEvidence(proof)
    BY DEF process_attestation, ValidEvidence
  <1>3. new \in Doc
    BY <1>1 DEF process_attestation, Doc
  <1>4. \A w \in votes : OnChain(w, doc.tip)
    BY DEF Coherent
  <1>5. proof.block = v.block /\ proof.block \in Path[doc.tip]
    BY DEF OnChain
  <1> HIDE DEF votes, voters, proof, new
  <1>6. Coherent(new)
    <2>1. CASE new.proofs = doc.proofs
      BY <2>1, <1>2, <1>4 DEF Coherent
    <2>2. CASE /\ new.proofs = doc.proofs \cup {proof}
               /\ ~HasProofAt(doc.proofs, v.block)
               /\ ValidEvidence(proof)
      <3>1. OneProofPerHeight(new.proofs)
        BY <2>2, <1>5 DEF Coherent, OneProofPerHeight, HasProofAt
      <3>2. ProofsOnChain(new.proofs, new.tip)
        BY <2>2, <1>2, <1>5 DEF Coherent, ProofsOnChain
      <3> QED BY <2>2, <3>1, <3>2, <1>2, <1>4 DEF Coherent
    <2> QED BY <2>1, <2>2, <1>2
  <1> QED BY <1>2, <1>3, <1>6 DEF new

-----------------------------------------------------------------------------
(* Steps *)

\* What every step of the system preserves.
StepKeeps ==
    /\ FinalityInv'
    /\ durable.proofs \subseteq durable'.proofs
    /\ \A f \in Facades : cache[f].proofs \subseteq cache'[f].proofs

\* A fresh store with fresh facades.
LEMMA InitInv == Init => FinalityInv
  <1> SUFFICES ASSUME Init PROVE FinalityInv
    OBVIOUS
  <1>1. TypeOK
    BY EmptyDocType DEF Init, TypeOK
  <1>2. CachedFinalityIsDurable /\ CarriedDurable
    BY DEF Init, CachedFinalityIsDurable, CarriedDurable, EmptyDoc
  <1> QED BY <1>1, <1>2, EmptyDocType DEF Init, FinalityInv, DraftExtends

\* A step that replaces one facade's memory by a document whose proofs are
\* durable and include what it knew, and leaves the store alone.
LEMMA CacheStep ==
  ASSUME FinalityInv, NEW f \in Facades, NEW doc \in Doc,
         cache' = [cache EXCEPT ![f] = doc],
         cache[f].proofs \subseteq doc.proofs, doc.proofs \subseteq durable.proofs,
         durable' = durable
  PROVE  /\ cache' \in [Facades -> Doc]
         /\ CachedFinalityIsDurable'
         /\ \A x \in Facades : cache[x].proofs \subseteq cache'[x].proofs
  <1>1. cache \in [Facades -> Doc]
    BY DEF FinalityInv, TypeOK
  <1>2. \A x \in Facades : cache'[x] = IF x = f THEN doc ELSE cache[x]
    BY <1>1
  <1>3. \A x \in Facades : cache[x].proofs \subseteq durable.proofs
    BY DEF FinalityInv, CachedFinalityIsDurable
  <1> QED BY <1>1, <1>2, <1>3 DEF CachedFinalityIsDurable

\* A step that leaves the store, its lock and the memories alone.
LEMMA ThreadStep ==
  ASSUME FinalityInv, UNCHANGED <<durable, lock, draft, cache, promoted>>,
         avail' \in [Facades -> BOOLEAN], threads' \subseteq Thread,
         CarriedDurable'
  PROVE  StepKeeps
  <1>1. TypeOK'
    BY DEF FinalityInv, TypeOK
  <1>2. Coherent(durable)' /\ DraftExtends' /\ CachedFinalityIsDurable'
    BY DEF FinalityInv, DraftExtends, CachedFinalityIsDurable, Coherent,
           OneProofPerHeight, ProofsOnChain, ValidEvidence, OnChain
  <1> QED BY <1>1, <1>2 DEF FinalityInv, StepKeeps

\* A publication: the thread is done (or restarts as a failed one) and the
\* memory of its facade takes the document over.
LEMMA PublishStep ==
  ASSUME FinalityInv, UNCHANGED <<durable, lock, draft, promoted>>,
         NEW f \in Facades, NEW doc \in Doc,
         cache' = [cache EXCEPT ![f] = doc],
         cache[f].proofs \subseteq doc.proofs, doc.proofs \subseteq durable.proofs,
         avail' \in [Facades -> BOOLEAN], threads' \subseteq threads
  PROVE  StepKeeps
  <1>1. /\ cache' \in [Facades -> Doc] /\ CachedFinalityIsDurable'
        /\ \A x \in Facades : cache[x].proofs \subseteq cache'[x].proofs
    BY CacheStep
  <1>2. TypeOK'
    BY <1>1 DEF FinalityInv, TypeOK
  <1>3. Coherent(durable)' /\ DraftExtends'
    BY DEF FinalityInv, DraftExtends, Coherent,
           OneProofPerHeight, ProofsOnChain, ValidEvidence, OnChain
  <1>4. CarriedDurable'
    BY DEF FinalityInv, CarriedDurable
  <1> QED BY <1>1, <1>2, <1>3, <1>4 DEF FinalityInv, StepKeeps

\* A durable write of a document that extends the stored proofs.
LEMMA WriteStep ==
  ASSUME FinalityInv, NEW new \in Doc, Coherent(new), durable' = new,
         durable.proofs \subseteq new.proofs,
         lock' = Free, draft' \in Doc,
         UNCHANGED cache, promoted' \in [Facades -> SUBSET Proof],
         avail' \in [Facades -> BOOLEAN], threads' \subseteq Thread,
         \A t \in threads' : t \in threads \/ t.doc.proofs \subseteq new.proofs
  PROVE  StepKeeps
  <1>1. TypeOK'
    BY DEF FinalityInv, TypeOK
  <1>2. Coherent(durable)'
    BY DEF Coherent, OneProofPerHeight, ProofsOnChain, ValidEvidence, OnChain
  <1>3. CachedFinalityIsDurable' /\ CarriedDurable'
    BY DEF FinalityInv, CachedFinalityIsDurable, CarriedDurable
  <1>4. DraftExtends'
    BY DEF DraftExtends
  <1> QED BY <1>1, <1>2, <1>3, <1>4 DEF FinalityInv, StepKeeps

\* The availability flags stay flags.
LEMMA PublishedType ==
  ASSUME avail \in [Facades -> BOOLEAN], NEW f \in Facades
  PROVE  Published(f) \in [Facades -> BOOLEAN]
  BY DEF Published

\* One open transaction: begin, process an attestation, commit or fail.
LEMMA SubmitSteps ==
  ASSUME FinalityInv,
         \/ \E f \in Facades : SubmitBegin(f) \/ SubmitCommit(f) \/ SubmitFail(f)
         \/ \E v \in Signed : SubmitAttestation(v)
  PROVE  StepKeeps
  <1> USE DEF FinalityInv
  <1>1. CASE \E f \in Facades : SubmitBegin(f)
    <2> PICK f \in Facades : SubmitBegin(f)
      BY <1>1
    <2>1. TypeOK'
      BY DEF SubmitBegin, TypeOK
    <2>2. DraftExtends' /\ Coherent(durable)'
      BY DEF SubmitBegin, DraftExtends, Coherent, OneProofPerHeight,
             ProofsOnChain, ValidEvidence, OnChain
    <2>3. CachedFinalityIsDurable' /\ CarriedDurable'
      BY DEF SubmitBegin, CachedFinalityIsDurable, CarriedDurable
    <2> QED BY <2>1, <2>2, <2>3 DEF SubmitBegin, StepKeeps
  <1>2. CASE \E v \in Signed : SubmitAttestation(v)
    <2> PICK v \in Signed : SubmitAttestation(v)
      BY <1>2
    <2>1. v \in Vote
      BY ActorAssumption DEF Vote
    <2>2. draft \in Doc /\ Coherent(draft)
      BY DEF SubmitAttestation, DraftExtends, TypeOK
    <2>3. /\ draft' \in Doc /\ Coherent(draft') /\ draft'.tip = draft.tip
          /\ draft.proofs \subseteq draft'.proofs
      BY <2>1, <2>2, AttestationStep DEF SubmitAttestation
    <2>4. TypeOK'
      BY <2>3 DEF SubmitAttestation, TypeOK
    <2>5. DraftExtends'
      BY <2>3 DEF SubmitAttestation, DraftExtends
    <2>6. Coherent(durable)'
      BY DEF SubmitAttestation, Coherent, OneProofPerHeight,
             ProofsOnChain, ValidEvidence, OnChain
    <2>7. CachedFinalityIsDurable' /\ CarriedDurable'
      BY DEF SubmitAttestation, CachedFinalityIsDurable, CarriedDurable
    <2> QED BY <2>4, <2>5, <2>6, <2>7 DEF SubmitAttestation, StepKeeps
  <1>3. ASSUME NEW f \in Facades, lock = f, CommitDraft(f)
        PROVE  /\ durable' \in Doc /\ Coherent(durable')
               /\ durable.proofs \subseteq durable'.proofs
               /\ promoted' \in [Facades -> SUBSET Proof]
    <2>1. durable \in Doc /\ draft \in Doc /\ promoted \in [Facades -> SUBSET Proof]
      BY DEF TypeOK
    <2>2. lock # Free
      BY <1>3, ActorAssumption
    <2>3. Coherent(draft)
      BY <2>2 DEF DraftExtends
    <2>4. OneProofPerHeight(draft.proofs) /\ \A p \in draft.proofs : ValidEvidence(p)
      BY <2>3 DEF Coherent
    <2>5. durable' = Merged(durable, draft) /\ _preserve_finality(durable, draft, FALSE)
      BY <1>3 DEF CommitDraft
    <2>6. durable' \in Doc
      BY <2>1, <2>5, MergedType
    <2>7. Coherent(durable') /\ durable.proofs \subseteq durable'.proofs
      BY <2>1, <2>4, <2>5, GuardedWrite
    <2>8. promoted' \in [Facades -> SUBSET Proof]
      BY <1>3, <2>1, <2>6 DEF CommitDraft, Doc
    <2> QED BY <2>6, <2>7, <2>8
  <1>4. CASE \E f \in Facades : SubmitCommit(f)
    <2> PICK f \in Facades : SubmitCommit(f)
      BY <1>4
    <2>1. /\ durable' \in Doc /\ Coherent(durable')
          /\ durable.proofs \subseteq durable'.proofs
          /\ promoted' \in [Facades -> SUBSET Proof]
      BY <1>3 DEF SubmitCommit
    <2>2. Step(f, "submit", durable') \in Thread
      BY <2>1, StepType DEF WriterKinds
    <2>3. Step(f, "submit", durable').doc = durable'
      BY DEF Step
    <2>4. /\ lock' = Free /\ draft' \in Doc /\ UNCHANGED cache
          /\ avail' \in [Facades -> BOOLEAN]
          /\ threads' = threads \cup {Step(f, "submit", durable')}
          /\ threads' \subseteq Thread
      BY <2>2, EmptyDocType DEF SubmitCommit, TypeOK
    <2> QED BY <2>1, <2>3, <2>4, WriteStep
  <1>5. CASE \E f \in Facades : SubmitFail(f)
    <2> PICK f \in Facades : SubmitFail(f)
      BY <1>5
    <2>1. /\ durable' \in Doc /\ Coherent(durable')
          /\ durable.proofs \subseteq durable'.proofs
          /\ promoted' \in [Facades -> SUBSET Proof]
      <3>1. CASE UNCHANGED <<durable, promoted>>
        BY <3>1 DEF TypeOK
      <3>2. CASE CommitDraft(f)
        BY <3>2, <1>3 DEF SubmitFail
      <3> QED BY <3>1, <3>2 DEF SubmitFail
    <2>2. Step(f, "failed", EmptyDoc) \in Thread
      BY EmptyDocType, StepType DEF WriterKinds
    <2>3. Step(f, "failed", EmptyDoc).doc.proofs = {}
      BY DEF Step, EmptyDoc
    <2>4. /\ lock' = Free /\ draft' \in Doc /\ UNCHANGED cache
          /\ avail' \in [Facades -> BOOLEAN]
          /\ threads' = threads \cup {Step(f, "failed", EmptyDoc)}
          /\ threads' \subseteq Thread
      BY <2>2, EmptyDocType DEF SubmitFail, TypeOK
    <2> QED BY <2>1, <2>3, <2>4, WriteStep
  <1> QED BY <1>1, <1>2, <1>4, <1>5

\* Publications into memory, and the recovery of a failed submission.
LEMMA PublishSteps ==
  ASSUME FinalityInv, NEW t \in threads,
         \/ SubmitPublish(t) \/ SubmitRecover(t) \/ SavePublish(t)
         \/ AdoptPublish(t) \/ LoadPublish(t)
  PROVE  StepKeeps
  <1> DEFINE f == t.facade
  <1>1. /\ durable \in Doc /\ cache \in [Facades -> Doc] /\ avail \in [Facades -> BOOLEAN]
        /\ threads \subseteq Thread /\ Coherent(durable)
    BY DEF FinalityInv, TypeOK
  <1>2. f \in Facades /\ t.doc \in Doc /\ cache[f] \in Doc
    BY <1>1 DEF Thread
  <1>3. t.doc.proofs \subseteq durable.proofs /\ cache[f].proofs \subseteq durable.proofs
    BY <1>2 DEF FinalityInv, CarriedDurable, CachedFinalityIsDurable
  <1>4. \A x \in BOOLEAN : [avail EXCEPT ![f] = x] \in [Facades -> BOOLEAN]
    BY <1>1
  <1>5. Published(f) \in [Facades -> BOOLEAN]
    BY <1>1, <1>2, PublishedType
  <1>6. ASSUME _check_finality_cache_transition(cache[f], t.doc)
        PROVE  cache[f].proofs \subseteq t.doc.proofs
    BY <1>1, <1>2, <1>3, <1>6, PublishKeeps
  <1>7. /\ _restore_blockchain_state_document(cache[f], t.doc) \in Doc
        /\ _restore_blockchain_state_document(cache[f], t.doc).proofs = t.doc.proofs
        /\ _publish_finality_cache(cache[f], t.doc) \in Doc
        /\ _publish_finality_cache(cache[f], t.doc).proofs = t.doc.proofs
        /\ _restore_blockchain_state_document(cache[f], durable) \in Doc
        /\ _restore_blockchain_state_document(cache[f], durable).proofs = durable.proofs
    BY <1>1, <1>2, PublishType
  <1>8. ASSUME UNCHANGED <<durable, lock, draft, promoted, cache>>, threads' \subseteq threads,
               avail' \in [Facades -> BOOLEAN]
        PROVE  StepKeeps
    BY <1>1, <1>8, ThreadStep DEF FinalityInv, CarriedDurable
  <1>9. CASE SubmitPublish(t)
    <2>1. CASE _check_finality_cache_transition(cache[f], t.doc)
      BY <1>2, <1>3, <1>5, <1>6, <1>7, <1>9, <2>1, PublishStep DEF SubmitPublish
    <2>2. CASE ~_check_finality_cache_transition(cache[f], t.doc)
      <3>1. Step(f, "failed", EmptyDoc) \in Thread
        BY <1>2, EmptyDocType, StepType DEF WriterKinds
      <3>2. Step(f, "failed", EmptyDoc).doc.proofs = {}
        BY DEF Step, EmptyDoc
      <3>3. /\ threads' = (threads \ {t}) \cup {Step(f, "failed", EmptyDoc)}
            /\ UNCHANGED <<durable, lock, draft, promoted, cache, avail>>
        BY <1>9, <2>2 DEF SubmitPublish
      <3>4. threads' \subseteq Thread /\ CarriedDurable'
        BY <3>1, <3>2, <3>3, <1>1 DEF FinalityInv, CarriedDurable
      <3> QED BY <3>3, <3>4, <1>1, ThreadStep
    <2> QED BY <2>1, <2>2
  <1>10. CASE SubmitRecover(t)
    <2>1. CASE cache' = [cache EXCEPT ![f] =
                            _restore_blockchain_state_document(cache[f], durable)]
               /\ avail' = Published(f)
      BY <1>2, <1>3, <1>5, <1>7, <1>10, <2>1, PublishStep DEF SubmitRecover
    <2>2. CASE UNCHANGED cache /\ avail' = [avail EXCEPT ![f] = FALSE]
      BY <1>4, <1>8, <1>10, <2>2 DEF SubmitRecover
    <2> QED BY <1>10, <2>1, <2>2 DEF SubmitRecover
  <1>11. CASE SavePublish(t)
    <2>1. CASE _check_finality_cache_transition(cache[f], t.doc)
      BY <1>2, <1>3, <1>5, <1>6, <1>7, <1>11, <2>1, PublishStep DEF SavePublish
    <2>2. CASE ~_check_finality_cache_transition(cache[f], t.doc)
      BY <1>1, <1>8, <1>11, <2>2 DEF SavePublish
    <2> QED BY <2>1, <2>2
  <1>12. CASE AdoptPublish(t)
    <2>1. CASE _check_finality_cache_transition(cache[f], t.doc)
      BY <1>2, <1>3, <1>5, <1>6, <1>7, <1>12, <2>1, PublishStep DEF AdoptPublish
    <2>2. CASE ~_check_finality_cache_transition(cache[f], t.doc)
      BY <1>1, <1>8, <1>12, <2>2 DEF AdoptPublish
    <2> QED BY <2>1, <2>2
  <1>13. CASE LoadPublish(t)
    <2>1. CASE _check_finality_cache_transition(cache[f], t.doc)
      BY <1>2, <1>3, <1>4, <1>6, <1>7, <1>13, <2>1, PublishStep DEF LoadPublish
    <2>2. CASE ~_check_finality_cache_transition(cache[f], t.doc)
      BY <1>1, <1>8, <1>13, <2>2 DEF LoadPublish
    <2> QED BY <2>1, <2>2
  <1> QED BY <1>9, <1>10, <1>11, <1>12, <1>13

\* Steps that only start a thread.
LEMMA StartSteps ==
  ASSUME FinalityInv, NEW f \in Facades,
         SaveSnapshot(f) \/ LoadRead(f) \/ \E b \in Blocks : AdoptCandidate(f, b)
  PROVE  StepKeeps
  <1>1. /\ durable \in Doc /\ cache[f] \in Doc /\ avail \in [Facades -> BOOLEAN]
        /\ threads \subseteq Thread
    BY DEF FinalityInv, TypeOK
  <1>2. cache[f].proofs \subseteq durable.proofs
    BY DEF FinalityInv, CachedFinalityIsDurable
  <1>3. ASSUME NEW k \in WriterKinds \cup ReorgKinds, NEW d \in Doc,
               d.proofs \subseteq durable.proofs,
               threads' = threads \cup {Step(f, k, d)},
               UNCHANGED <<durable, lock, draft, cache, promoted>>,
               avail' \in [Facades -> BOOLEAN]
        PROVE  StepKeeps
    <2>1. Step(f, k, d) \in Thread /\ Step(f, k, d).doc = d
      BY <1>3, StepType DEF Step
    <2>2. threads' \subseteq Thread /\ CarriedDurable'
      BY <1>1, <1>3, <2>1 DEF FinalityInv, CarriedDurable
    <2> QED BY <1>3, <2>2, ThreadStep
  <1>4. CASE SaveSnapshot(f)
    BY <1>1, <1>2, <1>3, <1>4 DEF SaveSnapshot, WriterKinds
  <1>5. CASE LoadRead(f)
    BY <1>1, <1>3, <1>5 DEF LoadRead, WriterKinds
  <1>6. CASE \E b \in Blocks : AdoptCandidate(f, b)
    <2> PICK b \in Blocks : AdoptCandidate(f, b)
      BY <1>6
    <2>1. WithTip(EmptyDoc, b) \in Doc /\ WithTip(EmptyDoc, b).proofs = {}
      BY EmptyDocType, WithTipType DEF EmptyDoc
    <2> QED BY <1>1, <1>3, <2>1 DEF AdoptCandidate, ReorgKinds
  <1> QED BY <1>4, <1>5, <1>6

\* Saves and reorganisations carry no proof the store does not have.
LEMMA StoreSteps ==
  ASSUME FinalityInv, NEW t \in threads, SaveCommit(t) \/ AdoptCommit(t) \/ Abort(t)
  PROVE  StepKeeps
  <1>1. /\ durable \in Doc /\ avail \in [Facades -> BOOLEAN] /\ draft \in Doc
        /\ threads \subseteq Thread /\ Coherent(durable)
        /\ promoted \in [Facades -> SUBSET Proof]
    BY DEF FinalityInv, TypeOK
  <1>2. t.facade \in Facades /\ t.doc \in Doc /\ t.doc.proofs \subseteq durable.proofs
    BY <1>1 DEF Thread, FinalityInv, CarriedDurable
  <1>3. ASSUME NEW new \in Doc, NEW k \in WriterKinds \cup ReorgKinds,
               NEW allow \in BOOLEAN,
               new.proofs \subseteq durable.proofs,
               _preserve_finality(durable, new, allow),
               durable' = Merged(durable, new),
               threads' = (threads \ {t}) \cup {Step(t.facade, k, durable')},
               lock = Free, UNCHANGED <<lock, draft, cache, avail, promoted>>
        PROVE  StepKeeps
    <2>1. OneProofPerHeight(new.proofs) /\ \A p \in new.proofs : ValidEvidence(p)
      BY <1>1, <1>3, SubsetEvidence
    <2>2. Coherent(Merged(durable, new)) /\ durable.proofs \subseteq Merged(durable, new).proofs
      BY <1>1, <1>3, <2>1, GuardedWrite
    <2>3. Merged(durable, new) \in Doc
      BY <1>1, <1>3, MergedType
    <2>4. /\ Step(t.facade, k, durable') \in Thread
          /\ Step(t.facade, k, durable').doc = durable'
      BY <1>2, <1>3, <2>3, StepType DEF Step
    <2>5. threads' \subseteq Thread
      BY <1>1, <1>3, <2>4
    <2>6. lock' = Free /\ draft' \in Doc /\ avail' \in [Facades -> BOOLEAN]
          /\ promoted' \in [Facades -> SUBSET Proof]
      BY <1>1, <1>3
    <2>7. \A x \in threads' : x \in threads \/ x.doc.proofs \subseteq Merged(durable, new).proofs
      BY <1>3, <2>4
    <2> QED BY <1>3, <2>2, <2>3, <2>5, <2>6, <2>7, WriteStep
  <1>4. ASSUME threads' = threads \ {t},
               UNCHANGED <<durable, lock, draft, cache, avail, promoted>>
        PROVE  StepKeeps
    BY <1>1, <1>4, ThreadStep DEF FinalityInv, CarriedDurable
  <1>5. CASE SaveCommit(t)
    <2>1. CASE _preserve_finality(durable, t.doc, FALSE)
      <3>1. /\ durable' = Merged(durable, t.doc)
            /\ threads' = (threads \ {t}) \cup {Step(t.facade, "save", durable')}
            /\ lock = Free /\ UNCHANGED <<lock, draft, cache, avail, promoted>>
        BY <1>5, <2>1 DEF SaveCommit
      <3> QED BY <1>2, <1>3, <2>1, <3>1 DEF WriterKinds
    <2>2. CASE ~_preserve_finality(durable, t.doc, FALSE)
      BY <1>4, <1>5, <2>2 DEF SaveCommit
    <2> QED BY <2>1, <2>2
  <1>6. CASE AdoptCommit(t)
    <2> DEFINE new == WithTip(durable, t.doc.tip)
               wins == \/ t.doc.tip = durable.tip
                       \/ /\ Replaces(t.doc.tip, durable.tip)
                          /\ ProofsOnChain(durable.proofs, t.doc.tip)
                          /\ _preserve_finality(durable, new, TRUE)
    <2>1. CASE wins
      <3>1. new \in Doc /\ new.proofs = durable.proofs /\ new.tip = t.doc.tip
        BY <1>1, <1>2, WithTipType DEF WithTip, Doc
      <3>2. _preserve_finality(durable, new, TRUE)
        <4>1. CASE t.doc.tip = durable.tip
          BY <4>1, <3>1, <1>1
             DEF _preserve_finality, KeepsAncestry, MergedProofs, Coherent,
                 OneProofPerHeight, ProofsOnChain, Doc
        <4> QED BY <4>1, <2>1
      <3>3. /\ durable' = Merged(durable, new)
            /\ threads' = (threads \ {t}) \cup {Step(t.facade, "reorg", durable')}
            /\ lock = Free /\ UNCHANGED <<lock, draft, cache, avail, promoted>>
        BY <1>6, <2>1 DEF AdoptCommit
      <3> HIDE DEF new
      <3> QED BY <1>3, <3>1, <3>2, <3>3 DEF ReorgKinds
    <2>2. CASE ~wins
      BY <1>4, <1>6, <2>2 DEF AdoptCommit
    <2> QED BY <2>1, <2>2
  <1>7. CASE Abort(t)
    BY <1>4, <1>7 DEF Abort
  <1> QED BY <1>5, <1>6, <1>7

\* A certified commit, successful or rolled back.
LEMMA CommitSteps ==
  ASSUME FinalityInv, NEW f \in Facades, NEW b \in Blocks,
         CommitCertified(f, b) \/ CommitCertifiedFails(f, b)
  PROVE  StepKeeps
  <1>1. /\ durable \in Doc /\ cache \in [Facades -> Doc] /\ avail \in [Facades -> BOOLEAN]
        /\ cache[f] \in Doc /\ durable.tip \in Blocks
        /\ threads \subseteq Thread /\ Coherent(durable)
    BY DEF FinalityInv, TypeOK, Doc
  <1>2. \A x \in Facades : cache[x].proofs \subseteq durable.proofs
    BY DEF FinalityInv, CachedFinalityIsDurable
  <1>3. Published(f) \in [Facades -> BOOLEAN]
    BY <1>1, PublishedType
  <1> DEFINE mem(tip) == WithTip(_restore_blockchain_state_document(cache[f], durable), tip)
  <1>4. \A tip \in Blocks : mem(tip) \in Doc /\ mem(tip).proofs = durable.proofs
    <2>1. /\ _restore_blockchain_state_document(cache[f], durable) \in Doc
          /\ _restore_blockchain_state_document(cache[f], durable).proofs = durable.proofs
      BY <1>1, PublishType
    <2> QED BY <2>1, WithTipType
  <1>5. CASE CommitCertified(f, b)
    <2>1. /\ _preserve_finality(durable, mem(b), FALSE)
          /\ cache' = [cache EXCEPT ![f] = mem(b)]
          /\ durable' = Merged(durable, mem(b))
          /\ avail' = Published(f)
          /\ lock = Free
          /\ UNCHANGED <<lock, draft, threads, promoted>>
      BY <1>5 DEF CommitCertified, CommitStart
    <2>2. mem(b) \in Doc /\ mem(b).proofs = durable.proofs
      BY <1>4
    <2> HIDE DEF mem
    <2>3. OneProofPerHeight(mem(b).proofs) /\ \A p \in mem(b).proofs : ValidEvidence(p)
      BY <1>1, <2>2 DEF Coherent
    <2>4. Coherent(durable') /\ durable'.proofs = durable.proofs
      BY <1>1, <2>1, <2>2, <2>3, GuardedWrite
    <2>5. durable' \in Doc
      BY <1>1, <2>1, <2>2, MergedType
    <2>6. cache' \in [Facades -> Doc]
      BY <1>1, <2>1, <2>2
    <2>7. \A x \in Facades : cache'[x].proofs \subseteq durable'.proofs
                             /\ cache[x].proofs \subseteq cache'[x].proofs
      BY <1>1, <1>2, <2>1, <2>2, <2>4
    <2>8. TypeOK'
      BY <1>3, <2>1, <2>5, <2>6 DEF FinalityInv, TypeOK
    <2>9. Coherent(durable)'
      BY <2>4 DEF Coherent, OneProofPerHeight, ProofsOnChain, ValidEvidence, OnChain
    <2>10. DraftExtends' /\ CarriedDurable' /\ CachedFinalityIsDurable'
      BY <2>1, <2>4, <2>7 DEF FinalityInv, DraftExtends, CarriedDurable, CachedFinalityIsDurable
    <2> QED BY <2>4, <2>7, <2>8, <2>9, <2>10 DEF FinalityInv, StepKeeps
  <1>6. CASE CommitCertifiedFails(f, b)
    <2> PICK tip \in {durable.tip, b} :
            cache' = [cache EXCEPT ![f] =
                        IF _check_finality_cache_transition(mem(tip), cache[f])
                        THEN _restore_blockchain_state_document(mem(tip), cache[f])
                        ELSE mem(tip)]
      BY <1>6 DEF CommitCertifiedFails
    <2>1. mem(tip) \in Doc /\ mem(tip).proofs = durable.proofs
      BY <1>1, <1>4
    <2> HIDE DEF mem
    <2>2. /\ _restore_blockchain_state_document(mem(tip), cache[f]) \in Doc
          /\ _restore_blockchain_state_document(mem(tip), cache[f]).proofs = cache[f].proofs
      BY <1>1, <2>1, PublishType
    <2>3. /\ UNCHANGED <<durable, lock, draft, promoted>>
          /\ avail' \in [Facades -> BOOLEAN] /\ threads' \subseteq threads
      BY <1>3, <1>6 DEF CommitCertifiedFails
    <2>4. PICK doc \in Doc : /\ cache' = [cache EXCEPT ![f] = doc]
                             /\ doc.proofs = cache[f].proofs \/ doc.proofs = durable.proofs
      BY <2>1, <2>2
    <2> QED BY <1>2, <2>3, <2>4, PublishStep
  <1> QED BY <1>5, <1>6

\* A restart reads its memory back from the store.
LEMMA RestartStep ==
  ASSUME FinalityInv, NEW f \in Facades, Restart(f)
  PROVE  StepKeeps
  <1>1. /\ durable \in Doc /\ cache \in [Facades -> Doc] /\ avail \in [Facades -> BOOLEAN]
    BY DEF FinalityInv, TypeOK
  <1>2. cache[f].proofs \subseteq durable.proofs
    BY DEF FinalityInv, CachedFinalityIsDurable
  <1>3. /\ cache' \in [Facades -> Doc] /\ CachedFinalityIsDurable'
        /\ \A x \in Facades : cache[x].proofs \subseteq cache'[x].proofs
    BY <1>1, <1>2, CacheStep DEF Restart
  <1>4. TypeOK'
    BY <1>1, <1>3, EmptyDocType DEF FinalityInv, TypeOK, Restart
  <1>5. DraftExtends' /\ CarriedDurable'
    BY DEF FinalityInv, DraftExtends, CarriedDurable, Restart, Coherent,
           OneProofPerHeight, ProofsOnChain, ValidEvidence, OnChain
  <1>6. Coherent(durable)'
    BY DEF Restart, FinalityInv, Coherent, OneProofPerHeight, ProofsOnChain,
           ValidEvidence, OnChain
  <1> QED BY <1>3, <1>4, <1>5, <1>6 DEF FinalityInv, StepKeeps, Restart

\* Every step keeps the invariant and regresses no finality.
LEMMA NextKeeps == FinalityInv /\ [Next]_vars => StepKeeps
  <1> SUFFICES ASSUME FinalityInv, [Next]_vars PROVE StepKeeps
    OBVIOUS
  <1>1. CASE UNCHANGED vars
    BY <1>1, ThreadStep DEF vars, FinalityInv, TypeOK, CarriedDurable
  <1>2. CASE Next
    BY <1>2, SubmitSteps, StartSteps, RestartStep, CommitSteps, PublishSteps, StoreSteps
       DEF Next
  <1> QED BY <1>1, <1>2

-----------------------------------------------------------------------------
(* Theorems *)

\* FinalityInv holds of every reachable state: the type invariant, coherence of
\* the stored finality (storage._preserve_finality under every writer), and the
\* durability of every proof a facade or a pending publication carries.
THEOREM FinalityInvariant == Spec => []FinalityInv
  <1>1. FinalityInv /\ [Next]_vars => FinalityInv'
    BY NextKeeps DEF StepKeeps
  <1> QED BY InitInv, <1>1, PTL DEF Spec

\* Documents, votes and proofs are well formed in the store, in memory and in
\* every operation in progress.
THEOREM TypeCorrect == Spec => []TypeOK
  BY FinalityInvariant, PTL DEF FinalityInv

\* Every writer of the store keeps one quorum proof per height, on the stored
\* chain, with the stored votes.
THEOREM DurableCoherence == Spec => []DurableFinalityCoherent
  <1>1. FinalityInv => DurableFinalityCoherent
    BY DEF FinalityInv, Coherent, DurableFinalityCoherent
  <1> QED BY FinalityInvariant, <1>1, PTL

\* No facade serves a proof that the store does not hold, whatever transaction
\* failed or whatever acknowledgement was lost.
THEOREM CachedIsDurable == Spec => []CachedFinalityIsDurable
  <1>1. FinalityInv => CachedFinalityIsDurable
    BY DEF FinalityInv
  <1> QED BY FinalityInvariant, <1>1, PTL

\* No writer drops or rewrites a retained proof.
THEOREM FinalityMonotone == Spec => FinalityNeverRegresses
  <1>1. FinalityInv /\ [Next]_vars => [durable.proofs \subseteq durable'.proofs]_vars
    BY NextKeeps DEF StepKeeps
  <1> QED BY FinalityInvariant, <1>1, PTL DEF Spec, FinalityNeverRegresses

\* No order of late publications makes a facade forget a finalized block.
THEOREM CacheMonotone == Spec => CachedFinalityNeverRegresses
  <1>1. FinalityInv /\ [Next]_vars
          => [\A f \in Facades : cache[f].proofs \subseteq cache'[f].proofs]_vars
    BY NextKeeps DEF StepKeeps
  <1> QED BY FinalityInvariant, <1>1, PTL DEF Spec, CachedFinalityNeverRegresses

\* A finalized block and all its ancestors stay on the stored chain for ever.
THEOREM FinalizedHistory == Spec => FinalizedPrefixKept
  <1>1. FinalityInv /\ [Next]_vars
          => [\A p \in durable.proofs : Path[p.block] \subseteq Path[durable'.tip]]_vars
    <2> SUFFICES ASSUME FinalityInv, [Next]_vars, NEW p \in durable.proofs
                 PROVE  Path[p.block] \subseteq Path[durable'.tip]
      OBVIOUS
    <2>1. FinalityInv' /\ p \in durable'.proofs
      BY NextKeeps DEF StepKeeps
    <2>2. durable'.tip \in Blocks
      BY <2>1 DEF FinalityInv, TypeOK, Doc
    <2>3. p.block \in Path[durable'.tip]
      BY <2>1 DEF FinalityInv, Coherent, ProofsOnChain
    <2> QED BY <2>2, <2>3, TreeAssumption
  <1> QED BY FinalityInvariant, <1>1, PTL DEF Spec, FinalizedPrefixKept

=============================================================================
