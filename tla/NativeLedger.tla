---------------------------- MODULE NativeLedger ----------------------------
(***************************************************************************)
(* Native ZOID transfers of one node's store: admission and reservation,   *)
(* block selection, settlement, mempool revalidation, and the rebuilding   *)
(* of every record when fork choice replaces the chain.                    *)
(*                                                                         *)
(* The store holds one document: the canonical chain and one lifecycle     *)
(* record per known transaction.  Facades (Blockchain objects of separate  *)
(* processes) keep a copy of it in memory.  Admission and reorganisation   *)
(* reread the document inside their storage transaction; whole saves and   *)
(* revalidation write back what memory holds; a certified commit lays the  *)
(* records of memory over the reread document.                             *)
(*                                                                         *)
(* A transaction is signed, well formed and of the right network: what is  *)
(* left of it is its sender, recipient, nonce and amount (fees are zero).  *)
(* A chain is the sequence of its blocks after genesis, and a block hash   *)
(* commits to the prefix that ends in it, so the prefix is the hash.       *)
(***************************************************************************)
EXTENDS Naturals, Sequences, FiniteSets, SequencesExt

CONSTANTS
    Facades,      \* Blockchain facades sharing the store
    Wallets,      \* wallet addresses, in the order of their strings
    Txs,          \* transaction ids, in the order of their strings
    Sender, Recipient, Nonce, Amount,   \* functions of a transaction
    Grant,        \* Grant[w]: balance of w at genesis
    Reward,       \* creator reward of a block
    Creators,     \* wallets whose submissions are minted
    Scores,       \* originality scores a block may have
    HashLower(_, _),     \* order of the latest hashes of two chains
    MaxBlockTxs,  \* MAX_TRANSACTIONS_PER_BLOCK
    MaxHeight     \* bound: longest chain considered

ASSUME WalletAssumption ==
    /\ Wallets \subseteq Nat /\ Txs \subseteq Nat \ {0}
    /\ IsFiniteSet(Wallets) /\ IsFiniteSet(Txs)

ASSUME TxAssumption ==
    /\ Sender \in [Txs -> Wallets] /\ Recipient \in [Txs -> Wallets]
    /\ Nonce \in [Txs -> Nat \ {0}] /\ Amount \in [Txs -> Nat \ {0}]

ASSUME BlockAssumption ==
    /\ Grant \in [Wallets -> Nat] /\ Reward \in Nat
    /\ Creators \subseteq Wallets /\ Scores \subseteq Nat
    /\ MaxBlockTxs \in Nat \ {0} /\ MaxHeight \in Nat

VARIABLES
    durable,  \* the stored document
    logged,   \* transactions with rows in the table of lifecycle transitions
    mem       \* mem[f]: the document in the memory of f

vars == <<durable, logged, mem>>

-----------------------------------------------------------------------------
(* Lifecycle of a record.  "included", "finalized", "failed" and "expired" *)
(* exist in the tables of the code, but no operation assigns them.         *)

Pending   == {"signed_pending", "validated_pending", "mempool"}
Active    == Pending \cup {"settled"}
Candidate == {"validated_pending", "mempool"}
Statuses  == Active \cup {"rejected"}

Absent == [status |-> "absent", at |-> <<>>]

\* A record with a status; only a settled one names its block.
Rec(status) == [status |-> status, at |-> <<>>]
Settled(chain) == [status |-> "settled", at |-> chain]

lifecycle_transitions ==
    [s \in Statuses |->
        CASE s = "signed_pending"    -> Statuses
          [] s = "validated_pending" -> Statuses \ {"signed_pending"}
          [] s = "mempool"           -> Statuses \ {"signed_pending"}
          [] s = "settled"           -> Statuses \ {"signed_pending"}
          [] s = "rejected"          -> {"rejected", "settled"}]

Legal(old, new) == new \in lifecycle_transitions[old]

Known(recs) == {t \in Txs : recs[t].status # "absent"}
With(recs, status) == {t \in Txs : recs[t].status \in status}

-----------------------------------------------------------------------------
(* The ledger a chain determines *)

SumOf(f, S) == MapThenSumSet(LAMBDA t : f[t], S)

Opening == [bal |-> Grant, next |-> [w \in Wallets |-> 1], seen |-> {}]

\* validate_block_step, its checks.
Fits(led, t) ==
    /\ t \notin led.seen
    /\ Nonce[t] = led.next[Sender[t]]
    /\ Amount[t] <= led.bal[Sender[t]]

\* validate_block_step, its effect.
Spend(led, t) ==
    LET paid == [led.bal EXCEPT ![Sender[t]] = @ - Amount[t]] IN
    [bal  |-> [paid EXCEPT ![Recipient[t]] = @ + Amount[t]],
     next |-> [led.next EXCEPT ![Sender[t]] = @ + 1],
     seen |-> led.seen \cup {t}]

Credit(led, w) == [led EXCEPT !.bal[w] = @ + Reward]

\* calculate_balances_from_chain and the chain's settled ids and nonces.
Ledger(chain) ==
    FoldLeft(LAMBDA led, b : Credit(FoldLeft(Spend, led, b.txs), b.creator),
             Opening, chain)

ChainTxs(chain) == UNION {Range(chain[i].txs) : i \in DOMAIN chain}

\* native_block_sort_key
BlockOrder(t, u) ==
    \/ Sender[t] < Sender[u]
    \/ Sender[t] = Sender[u] /\ Nonce[t] < Nonce[u]
    \/ Sender[t] = Sender[u] /\ Nonce[t] = Nonce[u] /\ t < u

\* validate_native_transactions: the transactions of a block against the
\* ledger of the chain before it.
BlockFits(led, txs) ==
    LET check(acc, t) == [ok  |-> acc.ok /\ Fits(acc.led, t),
                          led |-> IF acc.ok /\ Fits(acc.led, t)
                                  THEN Spend(acc.led, t) ELSE acc.led]
    IN  /\ FoldLeft(check, [ok |-> TRUE, led |-> led], txs).ok
        /\ \A i \in 2 .. Len(txs) : BlockOrder(txs[i-1], txs[i])

\* is_chain_valid, as far as native transfers go.
ChainValid(chain) ==
    \A i \in DOMAIN chain :
        BlockFits(Ledger(SubSeq(chain, 1, i - 1)), chain[i].txs)

Block == [creator : Creators, score : Scores,
          txs : {SetToSortSeq(S, BlockOrder) : S \in SUBSET Txs}]

\* The valid chains of n blocks, and all that a peer may offer.
ChainsOf[n \in 0 .. MaxHeight] ==
    IF n = 0 THEN {<<>>}
    ELSE {chain \in {Append(c, b) : c \in ChainsOf[n - 1], b \in Block} : ChainValid(chain)}

Chains == UNION {ChainsOf[n] : n \in 0 .. MaxHeight}

CumulativeScore(chain) ==
    MapThenSumSet(LAMBDA i : chain[i].score, DOMAIN chain)

\* Fork choice: higher score, then higher chain, then lower latest hash.
Replaces(cand, chain) ==
    \/ CumulativeScore(cand) > CumulativeScore(chain)
    \/ /\ CumulativeScore(cand) = CumulativeScore(chain)
       /\ \/ Len(cand) > Len(chain)
          \/ Len(cand) = Len(chain) /\ HashLower(cand, chain)

-----------------------------------------------------------------------------
(* Admission policy over a document; a transaction ignores its own record. *)

Others(recs, t, status) ==
    {u \in With(recs, status) \ {t} : Sender[u] = Sender[t]}

\* validate_transaction_nonce: t takes the first nonce no record holds.
NonceFree(recs, t) ==
    LET held == {Nonce[u] : u \in Others(recs, t, Active)} IN
    Nonce[t] \notin held /\ \A n \in 1 .. Nonce[t] - 1 : n \in held

\* validate_transaction_balance_sufficiency
Affordable(doc, t) ==
    Amount[t] + SumOf(Amount, Others(doc.recs, t, Pending))
        <= Ledger(doc.chain).bal[Sender[t]]

\* validate_admission_state
Admissible(doc, t) ==
    /\ t \notin ChainTxs(doc.chain)
    /\ NonceFree(doc.recs, t)
    /\ Affordable(doc, t)

-----------------------------------------------------------------------------
(* What a storage transaction accepts: the lifecycle trigger on the rows   *)
(* that stay, the partial unique index on active sender nonces, and the    *)
(* key of the table of transitions, in which a new record starts its       *)
(* history at sequence 1.  Rows the new document does not have are         *)
(* deleted; their transitions stay.                                        *)

HistoryStarts(old, new) == (Known(new) \ Known(old)) \cap logged = {}

LifecycleKept(old, new) ==
    \A t \in Known(old) \cap Known(new) : Legal(old[t].status, new[t].status)

\* Mutant: no unique index.
AcceptsWithoutIndex(old, new) ==
    /\ LifecycleKept(old, new)
    /\ HistoryStarts(old, new)

Accepts(old, new) ==
    /\ LifecycleKept(old, new)
    /\ HistoryStarts(old, new)
    /\ \A t, u \in With(new, Active) :
          Sender[t] = Sender[u] /\ Nonce[t] = Nonce[u] => t = u

Doc(chain, recs) == [chain |-> chain, recs |-> recs]

\* _synchronize_native_transaction_records
Write(doc) ==
    /\ Accepts(durable.recs, doc.recs)
    /\ durable' = doc
    /\ logged' = logged \cup Known(doc.recs)

\* Memory is published after COMMIT; admission publishes the records only.
StoreRecords(f, doc) ==
    /\ Write(doc)
    /\ mem' = [mem EXCEPT ![f].recs = doc.recs]

StoreDocument(f, doc) ==
    /\ Write(doc)
    /\ mem' = [mem EXCEPT ![f] = doc]

Init ==
    /\ durable = Doc(<<>>, [t \in Txs |-> Absent])
    /\ logged = {}
    /\ mem = [f \in Facades |-> durable]

-----------------------------------------------------------------------------
(* Admission *)

\* _merge_safe_local_chain_append
Merged(f) ==
    IF IsStrictPrefix(durable.chain, mem[f].chain)
    THEN Doc(mem[f].chain, durable.recs)
    ELSE durable

\* submit_signed_transfer_operation of a transaction the store has.
SubmitKnown(f, t) ==
    /\ t \in Known(durable.recs)
    /\ mem' = [mem EXCEPT ![f].recs = durable.recs]
    /\ UNCHANGED <<durable, logged>>

\* submit_signed_transfer_operation, _admit_signed_transfer_durably and
\* admit_signed_transfer of a transaction the store does not have.
SubmitNew(f, t, status) ==
    /\ t \notin Known(durable.recs)
    /\ Admissible(Merged(f), t)
    /\ StoreRecords(f, [Merged(f) EXCEPT !.recs[t] = Rec(status)])

\* admit_signed_transfer when another facade recorded the transaction after
\* submit_signed_transfer_operation looked for it.
SubmitRaced(f, t, admit_to_mempool) ==
    LET doc == Merged(f)  status == durable.recs[t].status IN
    /\ \E g \in Facades \ {f} : t \in Known(mem[g].recs)
    /\ status \in Pending \cup {"rejected"}
    /\ IF admit_to_mempool /\ status \in Pending \ {"mempool"}
       THEN /\ Admissible(doc, t)
            /\ StoreRecords(f, [doc EXCEPT !.recs[t] = Rec("mempool")])
       ELSE StoreRecords(f, doc)

\* admit_received_native_transaction_operation
Receive(f, t) ==
    LET doc == Merged(f)  status == durable.recs[t].status IN
    \/ /\ status = "settled"
       /\ StoreRecords(f, doc)
    \/ /\ status \in Pending \cup {"absent"}
       /\ Admissible(doc, t)
       /\ StoreRecords(f, [doc EXCEPT !.recs[t] = Rec("mempool")])

\* admit_native_transaction_operation: memory is checked first if it has t.
Admit(f, t) ==
    /\ t \in Known(mem[f].recs) =>
          mem[f].recs[t].status \in Pending /\ Admissible(mem[f], t)
    /\ durable.recs[t].status \in Pending
    /\ Admissible(durable, t)
    /\ StoreRecords(f, [durable EXCEPT !.recs[t] = Rec("mempool")])

-----------------------------------------------------------------------------
(* Revalidation, save and load *)

\* NativeMempoolService.revalidate: the mempool in the order of admission
\* times, which a wall clock gives in any order.
Revalidated(doc, order) ==
    LET visit(d, t) == IF Admissible(d, t) THEN d
                       ELSE [d EXCEPT !.recs[t] = Rec("rejected")]
    IN  FoldLeft(visit, doc, order)

MempoolOrders(recs) == SetToSeqs(With(recs, {"mempool"}))

\* save_blockchain: the document of memory replaces the stored one.  When
\* the storage transaction fails, the change in memory stays.
SaveOf(f, doc) ==
    /\ mem' = [mem EXCEPT ![f] = doc]
    /\ IF Accepts(durable.recs, doc.recs) THEN Write(doc)
       ELSE UNCHANGED <<durable, logged>>

\* save_blockchain, called by operations on other parts of the document.
Save(f) == SaveOf(f, mem[f])

\* revalidate_mempool_operation
Revalidate(f) ==
    /\ With(mem[f].recs, {"mempool"}) # {}
    /\ \E order \in MempoolOrders(mem[f].recs) :
          SaveOf(f, Revalidated(mem[f], order))

\* _restore_blockchain_state_document, before a certified commit is tried.
Refresh(f) ==
    /\ mem' = [mem EXCEPT ![f] = durable]
    /\ UNCHANGED <<durable, logged>>

\* load_blockchain, at start and at reload: saved if records were removed.
Load(f) ==
    \E order \in MempoolOrders(durable.recs) :
        LET doc == Revalidated(durable, order) IN
        IF doc = durable THEN Refresh(f) ELSE SaveOf(f, doc)

-----------------------------------------------------------------------------
(* Certified commit *)

\* select_for_block: what the block takes, and what it skips and rejects.
Select(doc) ==
    LET settled == Ledger(doc.chain).seen
        visit(acc, t) ==
            CASE Len(acc.txs) = MaxBlockTxs \/ t \in settled -> acc
              [] Len(acc.txs) < MaxBlockTxs /\ t \notin settled ->
                    IF Fits(acc.led, t)
                    THEN [acc EXCEPT !.led = Spend(@, t), !.txs = Append(@, t)]
                    ELSE [acc EXCEPT !.skip = @ \cup {t}]
        plan == FoldLeft(visit,
                         [led |-> Ledger(doc.chain), txs |-> <<>>, skip |-> {}],
                         SetToSortSeq(With(doc.recs, Candidate), BlockOrder))
    IN  [txs |-> plan.txs, skip |-> plan.skip]

\* The records of memory replace and extend those of the reread document.
Overlay(f) ==
    Doc(durable.chain,
        [t \in Txs |-> IF t \in Known(mem[f].recs) THEN mem[f].recs[t]
                       ELSE durable.recs[t]])

\* Mutant: a skipped transaction is removed instead of rejected.
SettleDropsSkipped(doc, chain, plan) ==
    [t \in Txs |-> IF t \in Range(plan.txs) THEN Settled(chain)
                   ELSE IF t \in plan.skip THEN Absent
                   ELSE doc.recs[t]]

\* settle_block_native_transactions, then the rejection of what was skipped.
Settle(doc, chain, plan) ==
    [t \in Txs |-> IF t \in Range(plan.txs) THEN Settled(chain)
                   ELSE IF t \in plan.skip THEN Rec("rejected")
                   ELSE doc.recs[t]]

\* commit_certified_submission: head compare-and-swap, candidate, validation
\* and _apply_certified_candidate_in_commit in one storage transaction.
Commit(f, creator, score) ==
    LET doc   == Overlay(f)
        plan  == Select(doc)
        block == [creator |-> creator, score |-> score, txs |-> plan.txs]
        chain == Append(durable.chain, block)
    IN  /\ Len(durable.chain) < MaxHeight
        /\ mem[f].chain = durable.chain
        /\ BlockFits(Ledger(durable.chain), plan.txs)
        /\ StoreDocument(f, Doc(chain, Settle(doc, chain, plan)))

-----------------------------------------------------------------------------
(* Canonical reorganisation *)

BlockOf(chain, t) ==
    SubSeq(chain, 1, CHOOSE i \in DOMAIN chain : t \in Range(chain[i].txs))

Detached(old, new) ==
    UNION {Range(old[i].txs) : i \in
              {j \in DOMAIN old : SubSeq(old, 1, j) \notin Prefixes(new)}}

\* _catalog_chain_transactions
Catalog(doc, cand) ==
    [t \in Txs |->
        IF t \notin Known(doc.recs)
           /\ t \in ChainTxs(doc.chain) \cup ChainTxs(cand)
        THEN Rec("validated_pending") ELSE doc.recs[t]]

\* Mutant: only records above the head of the new chain lost their place.
OrphanedByHeight(doc, recs, cand) ==
    {t \in With(recs, {"settled"}) \ ChainTxs(cand) : Len(recs[t].at) > Len(cand)}

\* Records that lost their place on the chain.
Orphaned(doc, recs, cand) ==
    {t \in Known(recs) \ ChainTxs(cand) :
        \/ t \in Detached(doc.chain, cand)
        \/ recs[t].status = "settled" /\ recs[t].at \notin Prefixes(cand)}

\* Mutant: an orphan goes back to the mempool without a new admission check.
RequeueUnchecked(d, t) == [d EXCEPT !.recs[t] = Rec("mempool")]

Requeue(d, t) ==
    [d EXCEPT !.recs[t] =
        Rec(IF Admissible(d, t) THEN "mempool" ELSE "rejected")]

\* By sender and nonce; work that was pending goes before an orphan.  (Two
\* orphans of one nonce are ordered by admission time in the code.)
RequeueOrder(pending, t, u) ==
    IF Sender[t] = Sender[u] /\ Nonce[t] = Nonce[u]
    THEN \/ t \in pending /\ u \notin pending
         \/ (t \in pending <=> u \in pending) /\ t < u
    ELSE BlockOrder(t, u)

\* CanonicalReorgService.rebuild_document: the records under a new chain.
Rebuild(doc, cand) ==
    LET recs    == Catalog(doc, cand)
        orphans == Orphaned(doc, recs, cand)
        pending == With(recs, Pending) \ (orphans \cup ChainTxs(cand))
        queue   == SetToSortSeq(pending \cup orphans,
                                LAMBDA t, u : RequeueOrder(pending, t, u))
        kept    == [t \in Txs |->
                       IF t \in ChainTxs(cand) THEN Settled(BlockOf(cand, t))
                       ELSE IF t \in pending \cup orphans THEN Absent
                       ELSE recs[t]]
    IN  FoldLeft(Requeue, Doc(cand, kept), queue)

\* _transition_record: every record moves along the lifecycle table.
RebuildLegal(doc, rebuilt) ==
    LET recs == Catalog(doc, rebuilt.chain) IN
    \A t \in Known(recs) : Legal(recs[t].status, rebuilt.recs[t].status)

\* adopt_canonical_chain: fork choice on memory, then on the stored chain.
Adopt(f, cand) ==
    /\ Replaces(cand, mem[f].chain)
    /\ \/ /\ durable.chain = cand
          /\ Refresh(f)
       \/ /\ Replaces(cand, durable.chain)
          /\ LET rebuilt == Rebuild(durable, cand) IN
             RebuildLegal(durable, rebuilt) /\ StoreDocument(f, rebuilt)

-----------------------------------------------------------------------------

\* The operations on one transaction.
Transfer(f, t) ==
    \/ SubmitKnown(f, t)
    \/ \E status \in {"signed_pending", "mempool"} : SubmitNew(f, t, status)
    \/ \E admit_to_mempool \in BOOLEAN : SubmitRaced(f, t, admit_to_mempool)
    \/ Receive(f, t)
    \/ Admit(f, t)

Upkeep(f) == Save(f) \/ Revalidate(f) \/ Refresh(f) \/ Load(f)

Next ==
    \E f \in Facades :
        \/ \E t \in Txs : Transfer(f, t)
        \/ Upkeep(f)
        \/ \E creator \in Creators, score \in Scores : Commit(f, creator, score)
        \/ \E cand \in Chains : Adopt(f, cand)

Spec == Init /\ [][Next]_vars

-----------------------------------------------------------------------------
(* Properties *)

\* The store and every memory hold a valid chain and one record per
\* transaction, settled exactly when it names a block.
TypeOK ==
    /\ DOMAIN mem = Facades
    /\ logged \in SUBSET Txs
    /\ \A d \in {durable} \cup Range(mem) :
          /\ d.chain \in Chains
          /\ DOMAIN d.recs = Txs
          /\ \A t \in Txs :
                \/ d.recs[t] \in [status : (Statuses \ {"settled"}) \cup {"absent"},
                                  at : {<<>>}]
                \/ d.recs[t].status = "settled" /\ d.recs[t].at \in Chains \ {<<>>}

\* What w has received on the chain, and what it has sent.
Received(chain, w) ==
    Grant[w]
    + Reward * Cardinality({i \in DOMAIN chain : chain[i].creator = w})
    + SumOf(Amount, {t \in ChainTxs(chain) : Recipient[t] = w})
Sent(chain, w) == SumOf(Amount, {t \in ChainTxs(chain) : Sender[t] = w})

\* Whatever facades, saves and reorganisations do, the stored chain spends
\* every transaction and every sender nonce once, in nonce order without
\* gaps, and after each block no wallet has sent more than it received
\* (validate_block_step, select_for_block, calculate_balances_from_chain).
ChainSpendsOnce ==
    LET chain == durable.chain IN
    /\ \A i, j \in DOMAIN chain : i # j =>
          Range(chain[i].txs) \cap Range(chain[j].txs) = {}
    /\ \A w \in Wallets :
          LET own == {t \in ChainTxs(chain) : Sender[t] = w} IN
          /\ {Nonce[t] : t \in own} = 1 .. Cardinality(own)
          /\ \A p \in Prefixes(chain) : Sent(p, w) <= Received(p, w)

\* No two live records of the store hold one sender nonce, in particular
\* after the memory of a stale facade was laid over them by a commit
\* (validate_transaction_nonce, active_native_transaction_sender_nonce).
OneLiveRecordPerNonce ==
    \A t, u \in With(durable.recs, Active) :
        Sender[t] = Sender[u] /\ Nonce[t] = Nonce[u] => t = u

\* On a store with one facade, a record is settled exactly when its
\* transaction is on the chain, in the block it names
\* (settle_block_native_transactions, rebuild_document).
SettledIsCanonical ==
    \A t \in Txs :
        /\ durable.recs[t].status = "settled" <=> t \in ChainTxs(durable.chain)
        /\ durable.recs[t].status = "settled" =>
              durable.recs[t].at = BlockOf(durable.chain, t)

\* On a store with one facade, what a wallet has pending never exceeds its
\* balance on the chain, also after a reorganisation took a reward or an
\* incoming transfer away (validate_transaction_balance_sufficiency).
ReservationsCovered ==
    \A w \in Wallets :
        SumOf(Amount, {t \in With(durable.recs, Pending) : Sender[t] = w})
            <= Ledger(durable.chain).bal[w]

\* After a reorganisation no pending transaction leaps over a nonce that
\* neither the chain nor another record holds (rebuild_document: "a later
\* nonce cannot leapfrog an invalid missing nonce").
LeavesNoGap ==
    ~IsPrefix(durable.chain, durable.chain') =>
        \A t \in With(durable'.recs, Pending) :
            \A n \in 1 .. Nonce[t] - 1 :
                \E u \in With(durable'.recs, Active) :
                    Sender[u] = Sender[t] /\ Nonce[u] = n

\* Whatever chain wins the fork choice, the store can follow it: the
\* rebuilt records pass the lifecycle table, the index and the key of the
\* transitions (rebuild_document, _upsert_native_transaction_record:
\* "canonical authority over local lifecycle policy").  This holds for a node
\* that has its store alone (README, section 5, for two).
Adoptable(cand) ==
    LET rebuilt == Rebuild(durable, cand) IN
    RebuildLegal(durable, rebuilt) /\ Accepts(durable.recs, rebuilt.recs)
WinnerIsAdoptable ==
    \A cand \in Chains : Replaces(cand, durable.chain) => Adoptable(cand)

\* A transaction the store has recorded, and so acknowledged, is never
\* dropped from it, and a rejected one comes back only with a block that
\* contains it (adopt_canonical_chain, save_blockchain, admission).
KeepsAcknowledged ==
    \A t \in Known(durable.recs) :
        /\ t \in Known(durable'.recs)
        /\ durable.recs[t].status = "rejected" =>
              durable'.recs[t].status = "rejected" \/ t \in ChainTxs(durable'.chain)
\* The code does not keep this: README, section 5.
AcknowledgedNeverDisappears == [][KeepsAcknowledged]_vars

=============================================================================
