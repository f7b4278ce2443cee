-------------------------- MODULE NativeLedgerProofs --------------------------
(***************************************************************************)
(* Proofs about NativeLedger, for any facades, wallets, transactions,      *)
(* balances and chains.                                                    *)
(*                                                                         *)
(* Whatever a stale memory holds and whatever a reorganisation rebuilds,   *)
(* it reaches the store through the same storage transaction.  So these    *)
(* facts do not depend on what a block or a rebuilding computes; what they *)
(* compute folds over sequences, and is left to TLC.                       *)
(***************************************************************************)
EXTENDS NativeLedger, TLAPS

\* Every step leaves the store alone or writes a document it accepts.
Written == \E doc : Write(doc)

LEMMA StoreStep == [Next]_vars => Written \/ UNCHANGED <<durable, logged>>
<1>. SUFFICES ASSUME [Next]_vars PROVE Written \/ UNCHANGED <<durable, logged>>
    OBVIOUS
<1>1. \A f, doc : SaveOf(f, doc) => Written \/ UNCHANGED <<durable, logged>>
    BY DEF SaveOf, Written
<1>2. \A f, doc : StoreRecords(f, doc) \/ StoreDocument(f, doc) => Written
    BY DEF StoreRecords, StoreDocument, Written
<1>3. \A f : Refresh(f) => UNCHANGED <<durable, logged>>
    BY DEF Refresh
<1>4. ASSUME NEW f \in Facades, NEW t \in Txs, Transfer(f, t)
      PROVE  Written \/ UNCHANGED <<durable, logged>>
    <2>1. CASE SubmitKnown(f, t)
        BY <2>1 DEF SubmitKnown
    <2>2. CASE \E status \in {"signed_pending", "mempool"} : SubmitNew(f, t, status)
        BY <2>2, <1>2 DEF SubmitNew
    <2>3. CASE \E admit_to_mempool \in BOOLEAN : SubmitRaced(f, t, admit_to_mempool)
        BY <2>3, <1>2 DEF SubmitRaced
    <2>4. CASE Receive(f, t)
        BY <2>4, <1>2 DEF Receive
    <2>5. CASE Admit(f, t)
        BY <2>5, <1>2 DEF Admit
    <2>. QED BY <1>4, <2>1, <2>2, <2>3, <2>4, <2>5 DEF Transfer
<1>5. ASSUME NEW f \in Facades, Upkeep(f)
      PROVE  Written \/ UNCHANGED <<durable, logged>>
    BY <1>1, <1>3, <1>5 DEF Upkeep, Save, Revalidate, Load
<1>6. ASSUME NEW f \in Facades, NEW creator, NEW score, Commit(f, creator, score)
      PROVE  Written
    BY <1>2, <1>6 DEF Commit
<1>7. ASSUME NEW f \in Facades, NEW cand, Adopt(f, cand)
      PROVE  Written \/ UNCHANGED <<durable, logged>>
    BY <1>2, <1>3, <1>7 DEF Adopt
<1>8. CASE UNCHANGED vars
    BY <1>8 DEF vars
<1>. QED BY <1>4, <1>5, <1>6, <1>7, <1>8 DEF Next

-----------------------------------------------------------------------------
(* The inductive invariant: nonces, and the table of transitions. *)

LedgerInv == OneLiveRecordPerNonce /\ Known(durable.recs) \subseteq logged

LEMMA InvInit == Init => LedgerInv
BY DEF Init, LedgerInv, OneLiveRecordPerNonce, With, Known, Absent, Doc, Active, Pending

LEMMA InvNext == LedgerInv /\ [Next]_vars => LedgerInv'
<1>. SUFFICES ASSUME LedgerInv, [Next]_vars PROVE LedgerInv'
    OBVIOUS
<1>1. CASE Written
    BY <1>1 DEF Written, Write, Accepts, LedgerInv, OneLiveRecordPerNonce
<1>2. CASE UNCHANGED <<durable, logged>>
    BY <1>2 DEF LedgerInv, OneLiveRecordPerNonce
<1>. QED BY <1>1, <1>2, StoreStep

LEMMA Invariance == Spec => []LedgerInv
BY InvInit, InvNext, PTL DEF Spec

-----------------------------------------------------------------------------
(* Theorems *)

\* No two live records of the store hold one nonce of one sender, whatever facade
\* wrote it from whatever memory (active_native_transaction_sender_nonce).
THEOREM NoncesAreHeldOnce == Spec => []OneLiveRecordPerNonce
<1>1. LedgerInv => OneLiveRecordPerNonce
    BY DEF LedgerInv
<1>. QED BY <1>1, Invariance, PTL

\* A record that the store has dropped does not come back: its transitions
\* remain, and a new record could not start its history
\* (_synchronize_native_transaction_records).
DroppedStaysDropped ==
    [][\A t \in logged \ Known(durable.recs) : t \notin Known(durable'.recs)]_vars

THEOREM DroppedNeverReturns == Spec => DroppedStaysDropped
<1>1. LedgerInv /\ [Next]_vars =>
        [\A t \in logged \ Known(durable.recs) : t \notin Known(durable'.recs)]_vars
    <2>. SUFFICES ASSUME LedgerInv, [Next]_vars, NEW t \in logged \ Known(durable.recs)
                  PROVE  t \notin Known(durable'.recs)
        OBVIOUS
    <2>1. CASE Written
        BY <2>1 DEF Written, Write, Accepts, HistoryStarts
    <2>2. CASE UNCHANGED <<durable, logged>>
        BY <2>2
    <2>. QED BY <2>1, <2>2, StoreStep
<1>. QED BY <1>1, Invariance, PTL DEF Spec, DroppedStaysDropped

\* The records a stored change keeps have moved along the lifecycle table, also
\* under a reorganisation: a settled or rejected transfer is never made
\* signed_pending, a rejected one only settled
\* (_transition_record, native_lifecycle_transitions).
RecordsMoveLegally ==
    [][durable' # durable => LifecycleKept(durable.recs, durable'.recs)]_vars

THEOREM LifecycleIsKept == Spec => RecordsMoveLegally
<1>1. [Next]_vars => [durable' # durable => LifecycleKept(durable.recs, durable'.recs)]_vars
    BY StoreStep DEF Written, Write, Accepts
<1>. QED BY <1>1, PTL DEF Spec, RecordsMoveLegally
=============================================================================
