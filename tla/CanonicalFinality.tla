------------------------- MODULE CanonicalFinality -------------------------
(***************************************************************************)
(* The canonical chain and validator-quorum finality of one node's store.  *)
(*                                                                         *)
(* A store holds one durable document.  Several facades (Blockchain        *)
(* objects of separate processes, each with its own threads) keep an       *)
(* in-memory copy of it and write it back through storage transactions.    *)
(* The module models every writer of the chain and of finality: validator  *)
(* attestations, whole-snapshot saves, canonical reorganisation, certified *)
(* commits, reload and restart, with the window between a durable COMMIT   *)
(* and the publication of the committed document into memory, failures     *)
(* before COMMIT and COMMITs whose outcome the caller never learns.        *)
(*                                                                         *)
(* A block hash commits to the whole prefix, so a chain is named by its    *)
(* tip, and Path[tip] is the set of blocks on it.                          *)
(***************************************************************************)
EXTENDS Naturals, FiniteSets

CONSTANTS
    Facades,     \* one Blockchain facade per process sharing the store
    Validators,  \* the configured validator set
    Blocks,      \* block hashes, Genesis included
    Genesis,
    Path,        \* Path[b]: the blocks of the chain whose tip is b
    Height,      \* Height[b]: index of b
    Score,       \* Score[b]: cumulative originality of the chain with tip b
    HashRank,    \* order of the block hashes (tie-break of fork choice)
    Signed,      \* the attestations the validators have signed
    MaxThreads,  \* bound: operations in progress at a time
    Free         \* no facade holds the storage write lock

ASSUME TreeAssumption ==
    /\ Genesis \in Blocks
    /\ Height \in [Blocks -> Nat]
    /\ Path \in [Blocks -> SUBSET Blocks]
    /\ \A b \in Blocks : b \in Path[b] /\ Genesis \in Path[b]
    /\ \A b \in Blocks : \A c \in Path[b] :
          Path[c] = {d \in Path[b] : Height[d] <= Height[c]}
    /\ \A b \in Blocks : \A c, d \in Path[b] : Height[c] = Height[d] => c = d

ASSUME OrderAssumption ==
    /\ Score \in [Blocks -> Nat]
    /\ HashRank \in [Blocks -> Nat]
    /\ \A b, c \in Blocks : HashRank[b] = HashRank[c] => b = c

ASSUME ActorAssumption ==
    /\ IsFiniteSet(Validators)
    /\ Free \notin Facades
    /\ Signed \subseteq [validator : Validators, block : Blocks]
    /\ MaxThreads \in Nat

VARIABLES
    durable,  \* the stored document
    lock,     \* facade whose attestation transaction is open, or Free
    draft,    \* the private document of the open transaction
    cache,    \* each facade's in-memory document
    avail,    \* each facade: ~_finality_unavailable
    threads,  \* operations of the facades that are between two of their steps
    promoted  \* proofs each facade's own submissions have committed

vars == <<durable, lock, draft, cache, avail, threads, promoted>>

-----------------------------------------------------------------------------
(* Data *)

Vote  == [validator : Validators, block : Blocks]
Proof == [block : Blocks, voters : SUBSET Validators]
Doc   == [tip : Blocks, votes : SUBSET Vote, proofs : SUBSET Proof]

\* What a thread is about to do, with the document it carries:
\*  "load"   restore the document it has read
\*  "failed" reread the store after a failed attestation submission
\*  "submit" publish the document its attestations committed
\*  "snap"   write the snapshot it has serialised
\*  "save"   publish the document its save committed
\*  "adopt"  ask the store to adopt the candidate chain
\*  "reorg"  publish the document its reorganisation committed
WriterKinds == {"load", "failed", "submit", "snap", "save"}
ReorgKinds  == {"adopt", "reorg"}
Thread == [facade : Facades, kind : WriterKinds \cup ReorgKinds, doc : Doc]

WithTip(doc, tip) == [tip |-> tip, votes |-> doc.votes, proofs |-> doc.proofs]

EmptyDoc == [tip |-> Genesis, votes |-> {}, proofs |-> {}]

\* ceil(2n/3) of the configured set
required_quorum(n) == (2 * n + 2) \div 3

\* The block of vote v is the canonical block at its height.
OnChain(v, tip) == v.block \in Path[tip]

\* Validators that retained votes for two hashes at the height of b.
Equivocators(votes, b) ==
    {x \in Validators : \E v, w \in votes :
        /\ v.validator = x /\ w.validator = x
        /\ Height[v.block] = Height[b] /\ Height[w.block] = Height[b]
        /\ v.block # w.block}

votes_for_block(votes, b) ==
    {x \in Validators : [validator |-> x, block |-> b] \in votes}
        \ Equivocators(votes, b)

HasProofAt(proofs, b) == \E p \in proofs : Height[p.block] = Height[b]

ValidEvidence(p) ==
    /\ Validators # {}
    /\ Cardinality(p.voters) >= required_quorum(Cardinality(Validators))

OneProofPerHeight(proofs) ==
    \A p, q \in proofs : Height[p.block] = Height[q.block] => p = q

ProofsOnChain(proofs, tip) == \A p \in proofs : p.block \in Path[tip]

\* Fork choice: higher score, then higher chain, then lower latest hash.
Replaces(c, b) ==
    \/ Score[c] > Score[b]
    \/ Score[c] = Score[b] /\ Height[c] > Height[b]
    \/ Score[c] = Score[b] /\ Height[c] = Height[b] /\ HashRank[c] < HashRank[b]

-----------------------------------------------------------------------------
(* The guard every document writer passes inside its transaction. *)

\* Mutant: the proofs of the last writer win.
LastProofs(old, new) == new.proofs

MergedProofs(old, new) ==
    old.proofs \cup {p \in new.proofs : ~HasProofAt(old.proofs, p.block)}

KeepsAncestry(old, new) ==
    \A p \in old.proofs :
        {b \in Path[old.tip] : Height[b] <= Height[p.block]}
            = {b \in Path[new.tip] : Height[b] <= Height[p.block]}

_preserve_finality(old, new, allow_vote_reorg) ==
    /\ \A p \in old.proofs, q \in new.proofs :
          Height[p.block] = Height[q.block] => p.block = q.block
    /\ ProofsOnChain(MergedProofs(old, new), new.tip)
    /\ KeepsAncestry(old, new)
    /\ \/ allow_vote_reorg
       \/ \A v \in old.votes \cup new.votes : OnChain(v, new.tip)

\* Mutant: a reorganisation that keeps the votes for the blocks it detaches.
MergedKeepsDetachedVotes(old, new) ==
    [tip    |-> new.tip,
     votes  |-> old.votes \cup new.votes,
     proofs |-> MergedProofs(old, new)]

Merged(old, new) ==
    [tip    |-> new.tip,
     votes  |-> {v \in old.votes \cup new.votes : OnChain(v, new.tip)},
     proofs |-> MergedProofs(old, new)]

-----------------------------------------------------------------------------
(* Publication of a committed document into a facade's memory. *)

_check_finality_cache_transition(mem, doc) ==
    /\ OneProofPerHeight(doc.proofs)
    /\ ProofsOnChain(doc.proofs, doc.tip)
    /\ \A p \in doc.proofs : p \in mem.proofs \/ ValidEvidence(p)
    /\ \A p \in mem.proofs : \E q \in doc.proofs : q.block = p.block

\* A refresh of the same selected chain keeps the votes already confirmed.
_publish_finality_cache(mem, doc) ==
    [tip    |-> mem.tip,
     votes  |-> IF mem.tip = doc.tip
                THEN doc.votes \cup {v \in mem.votes : OnChain(v, doc.tip)}
                ELSE doc.votes,
     proofs |-> doc.proofs]

_restore_blockchain_state_document(mem, doc) ==
    _publish_finality_cache(WithTip(mem, doc.tip), doc)

-----------------------------------------------------------------------------
(* Threads *)

Step(f, kind, doc) == [facade |-> f, kind |-> kind, doc |-> doc]
Running(f, kinds)  == {t \in threads : t.facade = f /\ t.kind \in kinds}

\* The per-process writer lock: one submission, save or load at a time.
WriterIdle(f) == lock # f /\ Running(f, WriterKinds) = {}

\* Room for one more operation; the open transaction counts as one.
CanStart == Cardinality(threads) + (IF lock = Free THEN 0 ELSE 1) < MaxThreads

\* _publish_finality_cache clears the flag unless a reload is in progress.
Published(f) == [avail EXCEPT ![f] = @ \/ Running(f, {"load"}) = {}]

Init ==
    /\ durable = EmptyDoc
    /\ lock = Free
    /\ draft = EmptyDoc
    /\ cache = [f \in Facades |-> EmptyDoc]
    /\ avail = [f \in Facades |-> TRUE]
    /\ threads = {}
    /\ promoted = [f \in Facades |-> {}]

-----------------------------------------------------------------------------
(* submit_validator_finality_attestations *)

\* BEGIN IMMEDIATE: the callback reads the document into a private copy and
\* validates the retained proofs.
SubmitBegin(f) ==
    /\ CanStart /\ lock = Free /\ WriterIdle(f)
    /\ ProofsOnChain(durable.proofs, durable.tip)
    /\ \A p \in durable.proofs : ValidEvidence(p)
    /\ lock' = f
    /\ draft' = durable
    /\ UNCHANGED <<durable, cache, avail, threads, promoted>>

\* What the attestation adds: a vote, and the proof it completes, if any.
process_attestation(doc, v) ==
    LET votes == doc.votes \cup {v}
        voters == votes_for_block(votes, v.block)
        quorum == /\ ~HasProofAt(doc.proofs, v.block)
                  /\ Validators # {}
                  /\ Cardinality(voters) >= required_quorum(Cardinality(Validators))
    IN  [tip    |-> doc.tip,
         votes  |-> votes,
         proofs |-> doc.proofs \cup
                    IF quorum THEN {[block |-> v.block, voters |-> voters]} ELSE {}]

\* Mutant: the batch is applied to memory before the transaction commits.
AttestInMemory(v) ==
    /\ lock # Free
    /\ OnChain(v, draft.tip)
    /\ v \notin draft.votes
    /\ draft' = process_attestation(draft, v)
    /\ cache' = [cache EXCEPT ![lock] = draft']
    /\ UNCHANGED <<durable, lock, avail, threads, promoted>>

\* One attestation of the batch: it names the exact canonical block.
SubmitAttestation(v) ==
    /\ lock # Free
    /\ OnChain(v, draft.tip)
    /\ \A p \in draft.proofs : Height[p.block] = Height[v.block] => p.block = v.block
    /\ v \notin draft.votes
    /\ draft' = process_attestation(draft, v)
    /\ UNCHANGED <<durable, lock, cache, avail, threads, promoted>>

CommitDraft(f) ==
    /\ _preserve_finality(durable, draft, FALSE)
    /\ durable' = Merged(durable, draft)
    /\ promoted' = [promoted EXCEPT ![f] = @ \cup (durable'.proofs \ durable.proofs)]

\* COMMIT returned: the document waits to be published.
SubmitCommit(f) ==
    /\ lock = f
    /\ CommitDraft(f)
    /\ lock' = Free
    /\ draft' = EmptyDoc
    /\ threads' = threads \cup {Step(f, "submit", durable')}
    /\ UNCHANGED <<cache, avail>>

\* A bad attestation or a failure before COMMIT, or a COMMIT whose outcome is
\* unknown: in both cases the caller sees an exception and must reread.
SubmitFail(f) ==
    /\ lock = f
    /\ \/ UNCHANGED <<durable, promoted>>
       \/ CommitDraft(f)
    /\ lock' = Free
    /\ draft' = EmptyDoc
    /\ threads' = threads \cup {Step(f, "failed", EmptyDoc)}
    /\ UNCHANGED <<cache, avail>>

\* Publication of the committed document; a refusal takes the failure path.
SubmitPublish(t) ==
    /\ t.kind = "submit"
    /\ IF _check_finality_cache_transition(cache[t.facade], t.doc)
       THEN /\ cache' = [cache EXCEPT ![t.facade] =
                            _restore_blockchain_state_document(@, t.doc)]
            /\ avail' = Published(t.facade)
            /\ threads' = threads \ {t}
       ELSE /\ threads' = (threads \ {t}) \cup {Step(t.facade, "failed", EmptyDoc)}
            /\ UNCHANGED <<cache, avail>>
    /\ UNCHANGED <<durable, lock, draft, promoted>>

\* The failure path rereads the store on a new connection and restores what it
\* reads; when the read or the restore fails, finality becomes unavailable.
SubmitRecover(t) ==
    /\ t.kind = "failed"
    /\ threads' = threads \ {t}
    /\ \/ /\ _check_finality_cache_transition(cache[t.facade], durable)
          /\ cache' = [cache EXCEPT ![t.facade] =
                          _restore_blockchain_state_document(@, durable)]
          /\ avail' = Published(t.facade)
       \/ /\ avail' = [avail EXCEPT ![t.facade] = FALSE]
          /\ UNCHANGED cache
    /\ UNCHANGED <<durable, lock, draft, promoted>>

-----------------------------------------------------------------------------
(* save_blockchain *)

\* The whole local state is serialised before the storage transaction opens.
SaveSnapshot(f) ==
    /\ CanStart /\ WriterIdle(f)
    /\ threads' = threads \cup {Step(f, "snap", cache[f])}
    /\ UNCHANGED <<durable, lock, draft, cache, avail, promoted>>

SaveCommit(t) ==
    /\ lock = Free
    /\ t.kind = "snap"
    /\ IF _preserve_finality(durable, t.doc, FALSE)
       THEN /\ durable' = Merged(durable, t.doc)
            /\ threads' = (threads \ {t}) \cup {Step(t.facade, "save", durable')}
       ELSE /\ threads' = threads \ {t}
            /\ UNCHANGED durable
    /\ UNCHANGED <<lock, draft, cache, avail, promoted>>

\* Only finality is published: the chain in memory stays as it is.
SavePublish(t) ==
    /\ t.kind = "save"
    /\ threads' = threads \ {t}
    /\ IF _check_finality_cache_transition(cache[t.facade], t.doc)
       THEN /\ cache' = [cache EXCEPT ![t.facade] = _publish_finality_cache(@, t.doc)]
            /\ avail' = Published(t.facade)
       ELSE UNCHANGED <<cache, avail>>
    /\ UNCHANGED <<durable, lock, draft, promoted>>

-----------------------------------------------------------------------------
(* adopt_canonical_chain *)

\* The candidate must win against the chain in memory.
AdoptCandidate(f, c) ==
    /\ CanStart /\ Running(f, ReorgKinds) = {}
    /\ Replaces(c, cache[f].tip)
    /\ ProofsOnChain(cache[f].proofs, c)
    /\ threads' = threads \cup {Step(f, "adopt", WithTip(EmptyDoc, c))}
    /\ UNCHANGED <<durable, lock, draft, cache, avail, promoted>>

\* Mutant: the finality checks made against memory are not repeated.
AdoptUnchecked(t) ==
    /\ lock = Free
    /\ t.kind = "adopt"
    /\ durable' = Merged(durable, WithTip(durable, t.doc.tip))
    /\ threads' = (threads \ {t}) \cup {Step(t.facade, "reorg", durable')}
    /\ UNCHANGED <<lock, draft, cache, avail, promoted>>

\* Under the write lock it must win again, against the durable chain; votes
\* for detached blocks are dropped.
AdoptCommit(t) ==
    /\ lock = Free
    /\ t.kind = "adopt"
    /\ LET c   == t.doc.tip
           new == WithTip(durable, c)
       IN  IF \/ c = durable.tip
              \/ /\ Replaces(c, durable.tip)
                 /\ ProofsOnChain(durable.proofs, c)
                 /\ _preserve_finality(durable, new, TRUE)
           THEN /\ durable' = Merged(durable, new)
                /\ threads' = (threads \ {t}) \cup {Step(t.facade, "reorg", durable')}
           ELSE /\ threads' = threads \ {t}
                /\ UNCHANGED durable
    /\ UNCHANGED <<lock, draft, cache, avail, promoted>>

AdoptPublish(t) ==
    /\ t.kind = "reorg"
    /\ threads' = threads \ {t}
    /\ IF _check_finality_cache_transition(cache[t.facade], t.doc)
       THEN /\ cache' = [cache EXCEPT ![t.facade] =
                            _restore_blockchain_state_document(@, t.doc)]
            /\ avail' = Published(t.facade)
       ELSE UNCHANGED <<cache, avail>>
    /\ UNCHANGED <<durable, lock, draft, promoted>>

-----------------------------------------------------------------------------
(* commit_certified_submission *)

\* The expected head is the facade's own; the durable document is restored
\* into memory inside the transaction before the block is built on it.
CommitStart(f, b) ==
    /\ lock = Free
    /\ cache[f].tip = durable.tip
    /\ _check_finality_cache_transition(cache[f], durable)
    /\ b \notin Path[durable.tip] /\ Path[b] = Path[durable.tip] \cup {b}

CommitCertified(f, b) ==
    /\ CommitStart(f, b)
    /\ LET mem == WithTip(_restore_blockchain_state_document(cache[f], durable), b)
       IN  /\ _preserve_finality(durable, mem, FALSE)
           /\ cache' = [cache EXCEPT ![f] = mem]
           /\ durable' = Merged(durable, mem)
    /\ avail' = Published(f)
    /\ UNCHANGED <<lock, draft, threads, promoted>>

\* The transaction fails before or after the block was appended in memory.  The
\* snapshot taken before is restored, but only if it passes the finality check
\* against the memory the transaction left behind.
CommitCertifiedFails(f, b) ==
    /\ CommitStart(f, b)
    /\ \E tip \in {durable.tip, b} :
       LET mem == WithTip(_restore_blockchain_state_document(cache[f], durable), tip)
       IN  cache' = [cache EXCEPT ![f] =
                        IF _check_finality_cache_transition(mem, cache[f])
                        THEN _restore_blockchain_state_document(mem, cache[f])
                        ELSE mem]
    /\ avail' = Published(f)
    /\ UNCHANGED <<durable, lock, draft, threads, promoted>>

-----------------------------------------------------------------------------
(* load_blockchain, crash and restart *)

\* A reload withholds finality reads until it has succeeded.
LoadRead(f) ==
    /\ CanStart /\ WriterIdle(f)
    /\ threads' = threads \cup {Step(f, "load", durable)}
    /\ avail' = [avail EXCEPT ![f] = FALSE]
    /\ UNCHANGED <<durable, lock, draft, cache, promoted>>

LoadPublish(t) ==
    /\ t.kind = "load"
    /\ threads' = threads \ {t}
    /\ IF _check_finality_cache_transition(cache[t.facade], t.doc)
       THEN /\ cache' = [cache EXCEPT ![t.facade] =
                            _restore_blockchain_state_document(@, t.doc)]
            /\ avail' = [avail EXCEPT ![t.facade] = TRUE]
       ELSE UNCHANGED <<cache, avail>>
    /\ UNCHANGED <<durable, lock, draft, promoted>>

\* An exception ends a save, a reorganisation or a load: a refusal of the save
\* callback, a storage failure before COMMIT, or one between COMMIT and
\* publication.
Abort(t) ==
    /\ t.kind \in {"snap", "save", "adopt", "reorg", "load"}
    /\ threads' = threads \ {t}
    /\ UNCHANGED <<durable, lock, draft, cache, avail, promoted>>

\* The process dies: its threads and its open transaction are gone.  The new
\* process loads the durable document into an empty facade.
Restart(f) ==
    /\ threads' = {t \in threads : t.facade # f}
    /\ IF lock = f THEN lock' = Free /\ draft' = EmptyDoc
                   ELSE UNCHANGED <<lock, draft>>
    /\ cache' = [cache EXCEPT ![f] = durable]
    /\ avail' = [avail EXCEPT ![f] = TRUE]
    /\ UNCHANGED <<durable, promoted>>

-----------------------------------------------------------------------------

Next ==
    \/ \E f \in Facades :
          \/ SubmitBegin(f) \/ SubmitCommit(f) \/ SubmitFail(f)
          \/ SaveSnapshot(f) \/ LoadRead(f) \/ Restart(f)
          \/ \E b \in Blocks :
                AdoptCandidate(f, b) \/ CommitCertified(f, b)
                    \/ CommitCertifiedFails(f, b)
    \/ \E v \in Signed : SubmitAttestation(v)
    \/ \E t \in threads :
          \/ SubmitPublish(t) \/ SubmitRecover(t)
          \/ SaveCommit(t) \/ SavePublish(t)
          \/ AdoptCommit(t) \/ AdoptPublish(t)
          \/ LoadPublish(t) \/ Abort(t)

Spec == Init /\ [][Next]_vars

-----------------------------------------------------------------------------
(* Properties *)

\* Documents, votes and proofs are well formed, in the store, in every facade's
\* memory and in what threads carry between two steps.
TypeOK ==
    /\ durable \in Doc
    /\ lock \in Facades \cup {Free}
    /\ draft \in Doc
    /\ cache \in [Facades -> Doc]
    /\ avail \in [Facades -> BOOLEAN]
    /\ threads \subseteq Thread
    /\ promoted \in [Facades -> SUBSET Proof]

\* The stored document is coherent: one quorum proof per height, every proof
\* and every retained vote names a block of the stored chain.
DurableFinalityCoherent ==
    /\ OneProofPerHeight(durable.proofs)
    /\ ProofsOnChain(durable.proofs, durable.tip)
    /\ \A p \in durable.proofs : ValidEvidence(p)
    /\ \A v \in durable.votes : OnChain(v, durable.tip)

\* No facade ever asserts finality that is not durable.
CachedFinalityIsDurable ==
    \A f \in Facades : cache[f].proofs \subseteq durable.proofs

\* A facade that serves finality and has no submission or save in flight
\* knows every proof its own submissions made durable, lost acknowledgements
\* included.
\* The code does not keep this: README, section 5.
OwnFinalityVisible ==
    \A f \in Facades :
        (avail[f] /\ Running(f, {"submit", "failed", "load"}) = {})
            => promoted[f] \subseteq cache[f].proofs

\* The first proof of a height is immutable and no writer drops it.
FinalityNeverRegresses == [][durable.proofs \subseteq durable'.proofs]_vars

\* Whatever the order in which its threads publish the documents they
\* committed or read, a facade never forgets a finalized block.
CachedFinalityNeverRegresses ==
    [][\A f \in Facades : cache[f].proofs \subseteq cache'[f].proofs]_vars

\* No writer replaces a finalized block or its ancestry.
FinalizedPrefixKept ==
    [][\A p \in durable.proofs : Path[p.block] \subseteq Path[durable'.tip]]_vars

\* The chain a facade holds in memory moves only to a chain its store has
\* committed: the durable one, or one a thread of the facade carries from the
\* store.  A failed certified commit, in particular, leaves nothing behind.
\* The code does not keep this: README, section 5.
MemoryFollowsStore ==
    [][\A f \in Facades :
          \/ cache'[f].tip = cache[f].tip
          \/ cache'[f].tip = durable'.tip
          \/ \E t \in Running(f, {"load", "submit", "reorg"}) :
                t.doc.tip = cache'[f].tip]_vars

\* Votes leave the store only through a reorganisation to a winning chain.
VotesLeaveOnlyByForkChoice ==
    [][durable.votes \subseteq durable'.votes \/ Replaces(durable'.tip, durable.tip)]_vars

=============================================================================
