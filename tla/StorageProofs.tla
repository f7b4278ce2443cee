--------------------------- MODULE StorageProofs ---------------------------
(***************************************************************************)
(* The proofs about what a node stores: the JSON document, the isolated    *)
(* certification store, the media store and the operators' tools.  The     *)
(* components share no state; each has a part of its own here, with its    *)
(* inductive invariant.  As in MCStorage, the JSON document is the module  *)
(* extended, and the others are instances; "store" is the state of the     *)
(* tools in theorems about Tools, and the store under way of the media in  *)
(* those about Media.                                                      *)
(***************************************************************************)
EXTENDS JsonDocument, IssuedEvidence, ServedContent, SnapshotFiles,
        Naturals, Sequences, FiniteSets, TLAPS

CONSTANTS
    \* AtomicCertification
    Stores, Certs, Ops, Variants, VariantNonces, Epoch, EpochLimit, Anchor,
    SourceHashes, MaxRevision, NoTip,
    \* ContentStore
    Hashes, Texts, BlockBytes, Crashes, Damages, Development,
    \* StorageTools
    Genesis, Blocks, Records, Native, Peers, Penalties, Accounts, Source,
    Quiesced, MaxRuns, MaxReads

VARIABLES
    \* AtomicCertification
    source, current, snapshots, claims, participation, owner, tip,
    selectedClaims, finality, prepared, call, answer,
    \* ContentStore
    file, sidecar, memory, stored, store, result,
    \* StorageTools, with a store of its own
    online, reading, reads, bak, tool, runs

Cert == INSTANCE AtomicCertification
Media == INSTANCE ContentStore
Tools == INSTANCE StorageTools

-----------------------------------------------------------------------------
(* The JSON document                                                       *)

Working == {"read", "copying", "replace"}
Written == {"first", "done"}

\* One of the files is whole: the backup is in a copy only while the document
\* parses, and the document is damaged only while the backup is whole.
OneIsWhole ==
    /\ main = ABSENT <=> backup = ABSENT
    /\ main = DAMAGED => Parses(backup)
    /\ \A p \in Procs : step[p] \in {"copying", "first"} => Parses(main) /\ backup = DAMAGED

\* No document has more finalized blocks than saves.
FinalBySaves(d) == d.final <= d.save
Plausible ==
    /\ Parses(main) => FinalBySaves(main)
    /\ Parses(backup) => FinalBySaves(backup)
    /\ \A p \in Procs : FinalBySaves(pending[p])

\* The saves an answer was given for, or will be, that the files must not lose.
Kept(n) ==
    /\ _load_json_document_with_backup.save + damage >= n
    /\ Parses(main) /\ Parses(backup) => backup.save + damage + 1 >= n

KeptSaves ==
    /\ Kept(acked.save)
    /\ Parses(main) => Kept(main.save)
    /\ \A p \in Procs : step[p] \in Written => Kept(pending[p].save)

\* What a process knows of the files while it writes its document.  It follows
\* the document, unless that was damaged before or after it was read; then it
\* follows the backup.
Follows(p) ==
    /\ pending[p].save + damage >= acked.save
    /\ recovered[p] => main = DAMAGED
    /\ Parses(main) => pending[p].save = main.save + 1 /\ pending[p].final >= main.final
    /\ (main = DAMAGED \/ step[p] = "replace") /\ Parses(backup) =>
          backup.save + damage + 1 >= pending[p].save

JsonInv ==
    /\ TypeOK
    /\ OneIsWhole
    /\ Plausible
    /\ KeptSaves
    /\ \A p \in Procs : step[p] \in Working => Follows(p)

-----------------------------------------------------------------------------
(* Lemmas *)

LEMMA Files ==
    ASSUME TypeOK
    PROVE  /\ main \in {ABSENT, DAMAGED} <=> ~Parses(main)
           /\ backup \in {ABSENT, DAMAGED} <=> ~Parses(backup)
           /\ Parses(main) => main.save \in 0 .. MaxSaves /\ main.final \in 0 .. MaxSaves
           /\ Parses(backup) => backup.save \in 0 .. MaxSaves /\ backup.final \in 0 .. MaxSaves
           /\ NoDocument \in Documents /\ ~Parses(ABSENT) /\ ~Parses(DAMAGED)
           /\ damage \in Nat /\ damage + 1 \in Nat
           /\ acked.save \in 0 .. MaxSaves
           /\ \A p \in Procs : pending[p].save \in 0 .. MaxSaves /\ pending[p].final \in 0 .. MaxSaves
BY JsonAssumption DEF TypeOK, Parses, Documents, NoDocument

\* A process at work holds the lock, so no other is.
LEMMA OneAtWork ==
    ASSUME TypeOK, NEW p \in Procs, step[p] # "idle", NEW q \in Procs, q # p
    PROVE  step[q] = "idle"
BY DEF TypeOK

\* The document the next update is made from.
LEMMA LoadedDocument ==
    ASSUME TypeOK, OneIsWhole
    PROVE  /\ Loadable
           /\ _load_json_document_with_backup \in Documents
           /\ Parses(main) => _load_json_document_with_backup = main
           /\ main = DAMAGED => _load_json_document_with_backup = backup
           /\ main = ABSENT => _load_json_document_with_backup = NoDocument
BY Files, JsonAssumption DEF OneIsWhole, Loadable, _load_json_document_with_backup, Parses

-----------------------------------------------------------------------------
(* The invariant *)

LEMMA JsonInvInit == ASSUME Init PROVE JsonInv
<1>1. TypeOK
    BY JsonAssumption DEF Init, TypeOK, Documents, NoDocument
<1>2. ~Parses(main) /\ main = ABSENT /\ backup = ABSENT /\ main # DAMAGED
    BY JsonAssumption DEF Init, Parses
<1>3. _load_json_document_with_backup.save = 0 /\ acked.save = 0 /\ damage = 0
    BY DEF Init, _load_json_document_with_backup, NoDocument
<1>4. OneIsWhole /\ Plausible /\ KeptSaves
    BY <1>2, <1>3 DEF Init, OneIsWhole, Plausible, KeptSaves, Kept, FinalBySaves, NoDocument, Written
<1>. QED BY <1>1, <1>4 DEF Init, JsonInv, Working

LEMMA UpdateStep ==
    ASSUME JsonInv, NEW p \in Procs, atomic_update_blockchain_document(p)
    PROVE  JsonInv'
<1>. TypeOK /\ OneIsWhole /\ Plausible /\ KeptSaves
    BY DEF JsonInv
<1>. DEFINE L == _load_json_document_with_backup
<1>1. PICK final \in {L.final, L.final + 1} :
          pending' = [pending EXCEPT ![p] = [save |-> L.save + 1, final |-> final]]
    BY DEF atomic_update_blockchain_document
<1>2. L \in Documents /\ L.save < MaxSaves /\ L.final <= L.save /\ L.save + damage >= acked.save
    BY LoadedDocument, Files, JsonAssumption
       DEF atomic_update_blockchain_document, Plausible, KeptSaves, Kept, FinalBySaves, Parses, NoDocument
<1>3. L.save \in Nat /\ L.final \in Nat /\ final \in 0 .. MaxSaves /\ final <= L.save + 1 /\ final >= L.final
    BY <1>1, <1>2, JsonAssumption DEF Documents
<1>4. pending'[p] \in Documents /\ pending'[p].save = L.save + 1 /\ pending'[p].final = final
    BY <1>1, <1>2, <1>3, JsonAssumption DEF TypeOK, Documents
<1>5. \A q \in Procs \ {p} : pending'[q] = pending[q] /\ step'[q] = step[q] /\ step[q] = "idle"
    BY <1>1, JsonAssumption DEF TypeOK, atomic_update_blockchain_document, Lock
<1>6. /\ UNCHANGED <<main, backup, acked, damage, crashes>> /\ lock = NOBODY /\ lock' = p
      /\ step'[p] = "read" /\ recovered'[p] = (main # ABSENT /\ ~Parses(main))
    BY DEF TypeOK, atomic_update_blockchain_document, Lock
<1>7. TypeOK'
    BY <1>4, <1>5, <1>6, JsonAssumption DEF TypeOK, atomic_update_blockchain_document, Documents
<1>8. OneIsWhole'
    BY <1>5, <1>6 DEF OneIsWhole, Parses
<1>9. Plausible'
    BY <1>3, <1>4, <1>5, <1>6 DEF Plausible, Parses, FinalBySaves
<1>10. L' = L
    BY <1>6 DEF _load_json_document_with_backup, Parses
<1>11. KeptSaves'
    BY <1>5, <1>6, <1>10 DEF KeptSaves, Kept, Parses, Written
<1>12. Follows(p)'
    <2>1. (pending[p].save + damage >= acked.save)'
        BY <1>2, <1>3, <1>4, <1>6, Files
    <2>2. (recovered[p] => main = DAMAGED)'
        BY <1>6, Files
    <2>3. (Parses(main) => pending[p].save = main.save + 1 /\ pending[p].final >= main.final)'
        BY <1>3, <1>4, <1>6, LoadedDocument DEF Parses
    <2>4. ((main = DAMAGED \/ step[p] = "replace") /\ Parses(backup) =>
              backup.save + damage + 1 >= pending[p].save)'
        BY <1>3, <1>4, <1>6, LoadedDocument, Files DEF Parses
    <2>. QED BY <2>1, <2>2, <2>3, <2>4 DEF Follows
<1>. QED BY <1>5, <1>7, <1>8, <1>9, <1>11, <1>12 DEF JsonInv, Working

\* The backup is copied from a whole document, or the document was damaged and
\* the backup is older than what is written.
LEMMA SaveStep ==
    ASSUME JsonInv, NEW p \in Procs, _save_blockchain_document_locked(p)
    PROVE  JsonInv'
<1>. TypeOK /\ OneIsWhole /\ Plausible /\ KeptSaves
    BY DEF JsonInv
<1>1. /\ UNCHANGED <<main, lock, pending, recovered, acked, damage, crashes>>
      /\ step[p] = "read" /\ Follows(p)
    BY DEF _save_blockchain_document_locked, JsonInv, Working
<1>2. \A q \in Procs \ {p} : step'[q] = step[q] /\ step[q] = "idle"
    BY <1>1, OneAtWork DEF TypeOK, _save_blockchain_document_locked
<1>3. CASE BacksUp(p)
    <2>1. backup' = DAMAGED /\ step'[p] = "copying" /\ Parses(main) /\ main # ABSENT /\ main # DAMAGED
        BY <1>3, Files DEF TypeOK, _save_blockchain_document_locked, BacksUp
    <2>2. TypeOK'
        BY <1>1, <1>3, <1>2 DEF TypeOK, _save_blockchain_document_locked
    <2>3. OneIsWhole' /\ Plausible'
        BY <1>1, <1>2, <2>1, Files, JsonAssumption DEF OneIsWhole, Plausible, Parses, FinalBySaves
    <2>4. _load_json_document_with_backup' = _load_json_document_with_backup
        BY <1>1, <2>1 DEF _load_json_document_with_backup, Parses
    <2>5. KeptSaves'
        BY <1>1, <1>2, <2>1, <2>4, JsonAssumption DEF KeptSaves, Kept, Parses, Written
    <2>6. Follows(p)'
        BY <1>1, <2>1, JsonAssumption DEF Follows, Parses
    <2>. QED BY <1>2, <2>2, <2>3, <2>5, <2>6 DEF JsonInv, Working
<1>4. CASE ~BacksUp(p)
    <2>1. backup' = backup /\ step'[p] = "replace"
        BY <1>4 DEF TypeOK, _save_blockchain_document_locked
    <2>2. TypeOK'
        BY <1>1, <1>4, <1>2 DEF TypeOK, _save_blockchain_document_locked
    <2>3. OneIsWhole' /\ Plausible'
        BY <1>1, <1>2, <2>1 DEF OneIsWhole, Plausible, Parses, FinalBySaves
    <2>4. _load_json_document_with_backup' = _load_json_document_with_backup
        BY <1>1, <2>1 DEF _load_json_document_with_backup, Parses
    <2>5. KeptSaves'
        BY <1>1, <1>2, <2>1, <2>4 DEF KeptSaves, Kept, Parses, Written
    <2>6. Parses(backup) => main = DAMAGED
        BY <1>1, <1>4, Files, JsonAssumption DEF BacksUp, Follows, OneIsWhole
    <2>7. Follows(p)'
        BY <1>1, <2>1, <2>6 DEF Follows, Parses
    <2>. QED BY <1>2, <2>2, <2>3, <2>5, <2>7 DEF JsonInv, Working
<1>. QED BY <1>3, <1>4

LEMMA CopyStep ==
    ASSUME JsonInv, NEW p \in Procs, CopyEnds(p)
    PROVE  JsonInv'
<1>. TypeOK /\ OneIsWhole /\ Plausible /\ KeptSaves
    BY DEF JsonInv
<1>1. /\ UNCHANGED <<main, lock, pending, recovered, acked, damage, crashes>>
      /\ step[p] = "copying" /\ step'[p] = "replace" /\ backup' = main /\ Follows(p)
    BY DEF TypeOK, CopyEnds, JsonInv, Working
<1>2. \A q \in Procs \ {p} : step'[q] = step[q] /\ step[q] = "idle"
    BY <1>1, OneAtWork DEF TypeOK, CopyEnds
<1>3. Parses(main) /\ main # ABSENT /\ main # DAMAGED
    BY <1>1, Files DEF OneIsWhole
<1>4. TypeOK'
    BY <1>1, <1>2 DEF TypeOK, CopyEnds
<1>5. OneIsWhole' /\ Plausible'
    BY <1>1, <1>2, <1>3 DEF OneIsWhole, Plausible, Parses, FinalBySaves
<1>6. _load_json_document_with_backup' = main /\ _load_json_document_with_backup = main
    BY <1>1, <1>3 DEF _load_json_document_with_backup, Parses
<1>7. KeptSaves'
    BY <1>1, <1>2, <1>3, <1>6, Files DEF KeptSaves, Kept, Parses, Written
<1>8. Follows(p)'
    BY <1>1, <1>3, Files DEF Follows, Parses
<1>. QED BY <1>2, <1>4, <1>5, <1>7, <1>8 DEF JsonInv, Working

\* The rename puts a document in place of the one it follows.
LEMMA RenameStep ==
    ASSUME JsonInv, NEW p \in Procs, _atomic_write_json_document(p)
    PROVE  JsonInv'
<1>. TypeOK /\ OneIsWhole /\ Plausible /\ KeptSaves
    BY DEF JsonInv
<1>1. /\ UNCHANGED <<lock, pending, acked, damage, crashes>>
      /\ step[p] = "replace" /\ main' = pending[p] /\ Follows(p)
      /\ backup' = IF backup = ABSENT THEN DAMAGED ELSE backup
      /\ step'[p] = IF backup = ABSENT THEN "first" ELSE "done"
    BY DEF TypeOK, _atomic_write_json_document, JsonInv, Working
<1>2. \A q \in Procs \ {p} : step'[q] = step[q] /\ step[q] = "idle"
    BY <1>1, OneAtWork DEF TypeOK, _atomic_write_json_document
<1>3. Parses(main)' /\ main' # ABSENT /\ main' # DAMAGED /\ Parses(pending[p])
    BY <1>1, JsonAssumption DEF TypeOK, Parses
<1>4. Parses(backup)' => Parses(backup) /\ backup' = backup
    BY <1>1, JsonAssumption DEF Parses
<1>5. TypeOK'
    BY <1>1, <1>2 DEF TypeOK, _atomic_write_json_document
<1>6. OneIsWhole' /\ Plausible'
    BY <1>1, <1>2, <1>3, <1>4, JsonAssumption DEF OneIsWhole, Plausible, Parses, FinalBySaves
<1>7. _load_json_document_with_backup' = pending[p]
    BY <1>1, <1>3 DEF _load_json_document_with_backup, Parses
<1>8. pending[p].save + damage >= acked.save
    BY <1>1 DEF Follows
<1>9. Parses(backup) => /\ backup.save + damage + 1 >= pending[p].save
                        /\ backup.save + damage + 1 >= acked.save
    <2>1. CASE Parses(main)
        BY <1>1, <2>1 DEF Follows, KeptSaves, Kept
    <2>2. CASE main = DAMAGED
        BY <1>1, <2>2, LoadedDocument, Files DEF Follows, KeptSaves, Kept
    <2>3. CASE main = ABSENT
        BY <2>3, Files DEF OneIsWhole
    <2>. QED BY <2>1, <2>2, <2>3, Files
<1>10. Kept(acked.save)' /\ Kept(main.save)' /\ Kept(pending[p].save)'
    BY <1>1, <1>4, <1>7, <1>8, <1>9, Files DEF Kept
<1>11. KeptSaves'
    BY <1>2, <1>10 DEF KeptSaves, Written
<1>. QED BY <1>1, <1>2, <1>5, <1>6, <1>11 DEF JsonInv, Working

LEMMA FirstCopyStep ==
    ASSUME JsonInv, NEW p \in Procs, FirstCopyEnds(p)
    PROVE  JsonInv'
<1>. TypeOK /\ OneIsWhole /\ Plausible /\ KeptSaves
    BY DEF JsonInv
<1>1. /\ UNCHANGED <<main, lock, pending, recovered, acked, damage, crashes>>
      /\ step[p] = "first" /\ step'[p] = "done" /\ backup' = main
    BY DEF TypeOK, FirstCopyEnds
<1>2. \A q \in Procs \ {p} : step'[q] = step[q] /\ step[q] = "idle"
    BY <1>1, OneAtWork DEF TypeOK, FirstCopyEnds
<1>3. Parses(main) /\ main # ABSENT /\ main # DAMAGED
    BY <1>1, Files DEF OneIsWhole
<1>4. TypeOK'
    BY <1>1, <1>2 DEF TypeOK, FirstCopyEnds
<1>5. OneIsWhole' /\ Plausible'
    BY <1>1, <1>2, <1>3 DEF OneIsWhole, Plausible, Parses, FinalBySaves
<1>6. _load_json_document_with_backup' = main /\ _load_json_document_with_backup = main
    BY <1>1, <1>3 DEF _load_json_document_with_backup, Parses
<1>7. KeptSaves'
    BY <1>1, <1>2, <1>3, <1>6, Files DEF KeptSaves, Kept, Parses, Written
<1>. QED BY <1>1, <1>2, <1>4, <1>5, <1>7 DEF JsonInv, Working

\* A process that stops, refused, killed or answered, leaves the files as they are.
LEMMA LeaveStep ==
    ASSUME JsonInv, NEW p \in Procs, step[p] # "idle", Release(p), TypeOK', Kept(acked.save)',
           UNCHANGED <<main, backup, pending, damage>>
    PROVE  JsonInv'
<1>. TypeOK /\ OneIsWhole /\ Plausible /\ KeptSaves
    BY DEF JsonInv
<1>1. \A q \in Procs : step'[q] = "idle"
    BY OneAtWork DEF TypeOK, Release
<1>2. OneIsWhole' /\ Plausible'
    BY <1>1 DEF OneIsWhole, Plausible, Parses, FinalBySaves
<1>3. _load_json_document_with_backup' = _load_json_document_with_backup
    BY DEF _load_json_document_with_backup, Parses
<1>4. KeptSaves'
    BY <1>1, <1>3 DEF KeptSaves, Kept, Parses, Written
<1>. QED BY <1>1, <1>2, <1>4 DEF JsonInv, Working

LEMMA StopStep ==
    ASSUME JsonInv, NEW p \in Procs, ReplaceRefused(p) \/ Crash(p)
    PROVE  JsonInv'
<1>. TypeOK /\ OneIsWhole /\ KeptSaves
    BY DEF JsonInv
<1>1. step[p] # "idle" /\ Release(p) /\ UNCHANGED <<main, backup, pending, acked, damage>>
    BY DEF TypeOK, ReplaceRefused, Crash
<1>2. lock = p /\ lock' = NOBODY /\ \A q \in Procs : step'[q] = "idle"
    BY <1>1, OneAtWork DEF TypeOK, Release
<1>3. TypeOK'
    <2>1. step' \in [Procs -> {"idle", "read", "copying", "replace", "first", "done"}]
        BY <1>1 DEF TypeOK, Release
    <2>2. recovered' \in [Procs -> BOOLEAN] /\ crashes' \in 0 .. MaxCrashes
        <3>1. CASE ReplaceRefused(p)
            BY <3>1 DEF TypeOK, ReplaceRefused
        <3>2. CASE Crash(p)
            BY <3>2, JsonAssumption DEF TypeOK, Crash
        <3>. QED BY <3>1, <3>2
    <2>. QED BY <1>1, <1>2, <2>1, <2>2, JsonAssumption DEF TypeOK
<1>4. Kept(acked.save)'
    BY <1>1 DEF KeptSaves, Kept, _load_json_document_with_backup, Parses
<1>. QED BY <1>1, <1>3, <1>4, LeaveStep

LEMMA AnswerStep ==
    ASSUME JsonInv, NEW p \in Procs, Answer(p)
    PROVE  JsonInv'
<1>. TypeOK /\ OneIsWhole /\ KeptSaves
    BY DEF JsonInv
<1>1. /\ step[p] = "done" /\ Release(p) /\ acked' = pending[p]
      /\ UNCHANGED <<main, backup, pending, recovered, damage, crashes>>
    BY DEF Answer
<1>2. lock = p /\ lock' = NOBODY /\ \A q \in Procs : step'[q] = "idle"
    BY <1>1, OneAtWork DEF TypeOK, Release
<1>3. TypeOK'
    BY <1>1, <1>2, JsonAssumption DEF TypeOK, Release
<1>4. Kept(pending[p].save)
    BY <1>1 DEF KeptSaves, Written
<1>5. Kept(acked.save)'
    BY <1>1, <1>4 DEF Kept, _load_json_document_with_backup, Parses
<1>. QED BY <1>1, <1>3, <1>5, LeaveStep

\* The medium damages the document while its backup is whole: what the backup
\* lacks is one save more than before, and one damage more allows for it.
LEMMA DamageStep ==
    ASSUME JsonInv, Damage
    PROVE  JsonInv'
<1>. TypeOK /\ OneIsWhole /\ Plausible /\ KeptSaves
    BY DEF JsonInv
<1>1. /\ Parses(main) /\ Parses(backup) /\ main' = DAMAGED /\ damage' = damage + 1
      /\ UNCHANGED <<backup, lock, step, pending, recovered, acked, crashes>>
    BY DEF Damage
<1>2. ~Parses(main)' /\ main' # ABSENT /\ backup # ABSENT /\ backup # DAMAGED
    BY <1>1, Files, JsonAssumption DEF Parses
<1>3. TypeOK'
    BY <1>1, JsonAssumption DEF TypeOK, Damage
<1>4. \A q \in Procs : step[q] \notin {"copying", "first"}
    BY <1>1, <1>2 DEF OneIsWhole
<1>5. OneIsWhole' /\ Plausible'
    BY <1>1, <1>2, <1>4 DEF OneIsWhole, Plausible, Parses, FinalBySaves
<1>6. _load_json_document_with_backup' = backup
    BY <1>1, <1>2 DEF _load_json_document_with_backup, Parses
<1>7. ASSUME NEW n \in Nat, Kept(n) PROVE Kept(n)'
    BY <1>1, <1>2, <1>6, <1>7, Files DEF Kept, Parses
<1>8. KeptSaves'
    BY <1>1, <1>2, <1>7, Files, JsonAssumption DEF KeptSaves, Written
<1>9. ASSUME NEW q \in Procs, step[q] \in Working PROVE Follows(q)'
    <2>1. Follows(q) /\ backup.save + damage + 1 >= main.save
        BY <1>1, <1>9 DEF JsonInv, KeptSaves, Kept
    <2>2. pending[q].save + damage + 1 >= acked.save
        BY <2>1, Files DEF Follows
    <2>3. backup.save + damage + 2 >= pending[q].save
        BY <1>1, <2>1, Files DEF Follows
    <2>. QED BY <1>1, <1>2, <2>2, <2>3, Files DEF Follows, Parses
<1>. QED BY <1>1, <1>3, <1>5, <1>8, <1>9 DEF JsonInv

LEMMA JsonInvNext == ASSUME JsonInv, [Next]_vars PROVE JsonInv'
<1>1. CASE Next
    BY <1>1, UpdateStep, SaveStep, CopyStep, RenameStep, FirstCopyStep, StopStep, AnswerStep, DamageStep
       DEF Next
<1>2. CASE UNCHANGED vars
    <2>. UNCHANGED <<main, backup, lock, step, pending, recovered, acked, damage, crashes>>
        BY <1>2 DEF vars
    <2>1. TypeOK' /\ OneIsWhole' /\ Plausible'
        BY DEF JsonInv, TypeOK, OneIsWhole, Plausible, FinalBySaves, Parses
    <2>2. _load_json_document_with_backup' = _load_json_document_with_backup
        BY DEF _load_json_document_with_backup, Parses
    <2>3. KeptSaves' /\ \A p \in Procs : step'[p] \in Working => Follows(p)'
        BY <2>2 DEF JsonInv, KeptSaves, Kept, Follows, Parses
    <2>. QED BY <2>1, <2>3 DEF JsonInv
<1>. QED BY <1>1, <1>2

LEMMA JsonInvariance == Spec => []JsonInv
BY JsonInvInit, JsonInvNext, PTL DEF Spec

-----------------------------------------------------------------------------
(* The theorems *)

\* Every file is a document, absent or damaged, and only the holder of the lock
\* is between the steps of an update.
THEOREM DocumentTypes == Spec => []TypeOK
<1>1. JsonInv => TypeOK
    BY DEF JsonInv
<1>. QED BY <1>1, JsonInvariance, PTL

\* However updates, kills, refused renames and damages follow one another, one
\* of the two files parses, or no document was ever written.
THEOREM OneFileIsReadable == Spec => []AlwaysLoadable
<1>1. JsonInv => AlwaysLoadable
    BY LoadedDocument DEF JsonInv, AlwaysLoadable
<1>. QED BY <1>1, JsonInvariance, PTL

\* An answered update is lost only to a damage of the file, at most one for each.
THEOREM DamageCostsOneSave == Spec => []LosesOneSaveAtMost
<1>1. JsonInv => LosesOneSaveAtMost
    BY DEF JsonInv, KeptSaves, Kept, LosesOneSaveAtMost
<1>. QED BY <1>1, JsonInvariance, PTL

\* Under the lock every rename puts the next save in place of the one it was
\* made from, and never one with fewer finalized blocks.
THEOREM SavesFollow == Spec => UpdatesFollow
<1>1. JsonInv /\ [Next]_vars => [UpdatesInTurn]_vars
    <2>. SUFFICES ASSUME JsonInv, [Next]_vars, main' # main, damage' = damage, Parses(main)
                  PROVE  main'.save = main.save + 1 /\ main'.final >= main.final
        BY DEF UpdatesInTurn
    <2>1. ~Damage
        BY Files DEF JsonInv, Damage, TypeOK
    <2>2. PICK p \in Procs : _atomic_write_json_document(p)
        BY <2>1 DEF Next, vars, atomic_update_blockchain_document, _save_blockchain_document_locked,
           CopyEnds, FirstCopyEnds, ReplaceRefused, Answer, Crash
    <2>3. Follows(p) /\ main' = pending[p]
        BY <2>2 DEF _atomic_write_json_document, JsonInv, Working
    <2>. QED BY <2>3 DEF Follows
<1>. QED BY <1>1, JsonInvariance, PTL DEF Spec, UpdatesFollow

-----------------------------------------------------------------------------
(* The certification store                                                 *)
\* A call whose certificate, operation and blocks exist.
CallOK(a) ==
    /\ a.kind \in {"idle", "certify", "select", "install"}
    /\ a.kind = "certify" => a.cert \in Certs /\ a.op \in Ops /\ a.variant \in Variants
    /\ a.kind = "select" => a.tip \in Cert!Blocks \cup {NoTip}

\* Callers and processes.
CallersOK ==
    /\ prepared \in [Stores -> SUBSET Certs]
    /\ DOMAIN call = Stores /\ \A p \in Stores : CallOK(call[p])
    /\ DOMAIN answer = Stores

\* One certificate for each operation, and no evidence under two of them.
Issued ==
    \A x, y \in certifications :
        /\ x.op = y.op => x = y
        /\ x.op # y.op => Cert!replay_keys(x.cert) \cap Cert!replay_keys(y.cert) = {}

\* The claims are those of the certificates issued.
Claimed == claims = UNION {Cert!replay_keys(x.cert) \X {x.op} : x \in certifications}

\* An acknowledged block is stored under the operation that was acknowledged.
AcknowledgedIsStored ==
    \A p \in Stores :
        answer[p].kind = "persisted" => <<answer[p].block, answer[p].op>> \in owner

IssueInv ==
    /\ Cert!TypeOK /\ CallersOK
    /\ Issued /\ Claimed
    /\ Cert!IssuanceFits
    /\ AcknowledgedIsStored

-----------------------------------------------------------------------------
(* Lemmas *)

\* What a certificate claims tells its evidence apart.
LEMMA DisjointClaims ==
    ASSUME NEW c, NEW d, Cert!replay_keys(c) \cap Cert!replay_keys(d) = {}
    PROVE  /\ Original[c] # Original[d]
           /\ Submission[c] # Submission[d]
           /\ Nonce[c] = Nonce[d] => /\ Creator[c] # Creator[d]
                                     /\ Cert!Reviewers(c) \cap Cert!Reviewers(d) = {}
<1>1. ASSUME Original[c] = Original[d] PROVE FALSE
    BY <1>1 DEF Cert!replay_keys
<1>2. ASSUME Submission[c] = Submission[d] PROVE FALSE
    BY <1>2 DEF Cert!replay_keys
<1>3. ASSUME Nonce[c] = Nonce[d], Creator[c] = Creator[d] PROVE FALSE
    BY <1>3 DEF Cert!replay_keys
<1>4. ASSUME Nonce[c] = Nonce[d], NEW w \in Cert!Reviewers(c) \cap Cert!Reviewers(d) PROVE FALSE
    BY <1>4 DEF Cert!replay_keys
<1>. QED BY <1>1, <1>2, <1>3, <1>4

\* Rows of candidates are never removed, so blocks stay known.
LEMMA BlocksGrow ==
    ASSUME owner \subseteq owner'
    PROVE  Cert!Blocks \subseteq Cert!Blocks' /\ \A op : Cert!Owned(op) \subseteq Cert!Owned(op)'
BY DEF Cert!Blocks, Cert!Owned

LEMMA IssueInvInit == ASSUME Cert!Init PROVE IssueInv
<1>1. Cert!TypeOK /\ CallersOK
    BY DEF Cert!Init, Cert!TypeOK, CallersOK, CallOK, Cert!Idle, Cert!Blocks
<1>2. Issued /\ Claimed /\ Cert!IssuanceFits
    BY DEF Cert!Init, Issued, Claimed, Cert!IssuanceFits
<1>3. AcknowledgedIsStored
    BY DEF Cert!Init, AcknowledgedIsStored, Cert!Silent
<1>. QED BY <1>1, <1>2, <1>3 DEF IssueInv

-----------------------------------------------------------------------------
(* A step that issues nothing *)

LEMMA NothingIssued ==
    ASSUME IssueInv, UNCHANGED <<certifications, claims, participation, owner>>,
           Cert!TypeOK', CallersOK',
           \A p \in Stores : answer'[p] = answer[p] \/ answer'[p].kind # "persisted"
    PROVE  IssueInv'
<1>1. Issued' /\ Claimed'
    BY DEF IssueInv, Issued, Claimed
<1>2. Cert!IssuanceFits'
    BY DEF IssueInv, Cert!IssuanceFits, Cert!Owned, Cert!Existing
<1>3. AcknowledgedIsStored'
    BY DEF IssueInv, AcknowledgedIsStored
<1>. QED BY <1>1, <1>2, <1>3 DEF IssueInv

\* The steps of callers and processes that leave the database alone.
LEMMA CallerStep ==
    ASSUME IssueInv, UNCHANGED Cert!db, CallersOK',
           \A p \in Stores : answer'[p] = answer[p] \/ answer'[p].kind # "persisted"
    PROVE  IssueInv'
<1>1. Cert!TypeOK'
    BY DEF IssueInv, Cert!TypeOK, CallersOK, Cert!db, Cert!Blocks
<1>. QED BY <1>1, NothingIssued DEF Cert!db

LEMMA BeginStep ==
    ASSUME IssueInv, NEW p \in Stores,
           \/ \E c \in Certs : \/ Cert!prepare(p, c)
                               \/ \E op \in Ops, v \in Variants : Cert!BeginCertify(p, c, op, v)
           \/ \E b \in Cert!Blocks \cup {NoTip} : Cert!BeginSelect(p, b)
           \/ Cert!BeginInstall(p) \/ Cert!Refuse(p) \/ Cert!Crash(p)
    PROVE  IssueInv'
<1>. CallersOK
    BY DEF IssueInv
<1>1. ASSUME NEW c \in Certs, Cert!prepare(p, c) PROVE IssueInv'
    <2>1. CallersOK'
        BY <1>1 DEF Cert!prepare, CallersOK, CallOK, Cert!Blocks, Cert!db
    <2>. QED BY <1>1, <2>1, CallerStep DEF Cert!prepare
<1>2. ASSUME NEW c \in Certs, NEW op \in Ops, NEW v \in Variants, Cert!BeginCertify(p, c, op, v)
      PROVE  IssueInv'
    <2>1. CallersOK'
        BY <1>2 DEF Cert!BeginCertify, CallersOK, CallOK, Cert!Blocks, Cert!db
    <2>. QED BY <1>2, <2>1, CallerStep DEF Cert!BeginCertify
<1>3. ASSUME NEW b \in Cert!Blocks \cup {NoTip}, Cert!BeginSelect(p, b) PROVE IssueInv'
    <2>1. CallersOK'
        BY <1>3 DEF Cert!BeginSelect, CallersOK, CallOK, Cert!Blocks, Cert!db
    <2>. QED BY <1>3, <2>1, CallerStep DEF Cert!BeginSelect
<1>4. CASE Cert!BeginInstall(p)
    <2>1. CallersOK'
        BY <1>4 DEF Cert!BeginInstall, CallersOK, CallOK, Cert!Blocks, Cert!db
    <2>. QED BY <1>4, <2>1, CallerStep DEF Cert!BeginInstall
<1>5. CASE Cert!Refuse(p)
    <2>1. PICK kind \in {"incomplete", "conflict", "invalid"} : Cert!Return(p, kind)
        BY <1>5 DEF Cert!Refuse
    <2>2. CallersOK'
        BY <2>1 DEF Cert!Return, CallersOK, CallOK, Cert!Blocks, Cert!db, Cert!Idle
    <2>3. \A q \in Stores : answer'[q] = answer[q] \/ answer'[q].kind # "persisted"
        BY <2>1 DEF Cert!Return, Cert!Answer, CallersOK
    <2>. QED BY <2>1, <2>2, <2>3, CallerStep DEF Cert!Return
<1>6. CASE Cert!Crash(p)
    <2>1. CallersOK'
        BY <1>6 DEF Cert!Crash, CallersOK, CallOK, Cert!Blocks, Cert!db, Cert!Idle
    <2>2. \A q \in Stores : answer'[q] = answer[q] \/ answer'[q].kind # "persisted"
        BY <1>6 DEF Cert!Crash, Cert!Silent, CallersOK
    <2>. QED BY <1>6, <2>1, <2>2, CallerStep DEF Cert!Crash
<1>. QED BY <1>1, <1>2, <1>3, <1>4, <1>5, <1>6

\* The transactions that select, finalize and install.
LEMMA SelectStep ==
    ASSUME IssueInv, NEW p \in Stores, Cert!select_chain(p) \/ Cert!install_snapshot(p)
    PROVE  IssueInv'
<1>. CallersOK /\ Cert!TypeOK
    BY DEF IssueInv
<1>1. CASE Cert!select_chain(p)
    <2>1. CallersOK'
        BY <1>1 DEF Cert!select_chain, CallersOK, CallOK, Cert!Blocks, Cert!Idle
    <2>2. call[p].tip \in Cert!Blocks \cup {NoTip}
        BY <1>1 DEF Cert!select_chain, CallersOK, CallOK
    <2>3. Cert!TypeOK'
        BY <1>1, <2>2 DEF Cert!select_chain, Cert!TypeOK, Cert!Blocks
    <2>. QED BY <1>1, <2>1, <2>3, NothingIssued DEF Cert!select_chain
<1>2. CASE Cert!install_snapshot(p)
    <2>1. CallersOK'
        BY <1>2 DEF Cert!install_snapshot, CallersOK, CallOK, Cert!Blocks, Cert!Idle
    <2>2. current' \in snapshots' /\ snapshots \subseteq snapshots'
        BY <1>2 DEF Cert!install_snapshot, Cert!TypeOK
    <2>3. Cert!TypeOK'
        BY <1>2, <2>2 DEF Cert!install_snapshot, Cert!TypeOK, Cert!Blocks
    <2>. QED BY <1>2, <2>1, <2>3, NothingIssued DEF Cert!install_snapshot
<1>. QED BY <1>1, <1>2

LEMMA FinalizeStep ==
    ASSUME IssueInv, NEW b \in Cert!Blocks, Cert!finalize(b)
    PROVE  IssueInv'
<1>1. CallersOK'
    BY DEF IssueInv, Cert!finalize, CallersOK, CallOK, Cert!Blocks
<1>2. Cert!TypeOK'
    BY DEF IssueInv, Cert!finalize, Cert!TypeOK, Cert!Blocks
<1>. QED BY <1>1, <1>2, NothingIssued DEF Cert!finalize

-----------------------------------------------------------------------------
(* Certification *)

\* The rows of a certification that commits.
NewRow(a) == [op |-> a.op, cert |-> a.cert, snapshot |-> current]

LEMMA CertifyStep ==
    ASSUME IssueInv, NEW p \in Stores, Cert!certify(p)
    PROVE  IssueInv'
<1>. Cert!TypeOK /\ CallersOK /\ Issued /\ Claimed /\ Cert!IssuanceFits /\ AcknowledgedIsStored
    BY DEF IssueInv
<1>a. PICK a : a = call[p]
    OBVIOUS
<1>. a = call[p]
    BY <1>a
<1>. DEFINE block == Cert!Block(a.cert, a.variant, a.parent)
<1>1. a.cert \in Certs /\ a.op \in Ops /\ a.variant \in Variants /\ a.cert \in current.reviews
    BY DEF Cert!certify, CallersOK, CallOK, Cert!Ready, Cert!StaleAuthority
<1>2. owner' = owner \cup {<<block, a.op>>}
    BY DEF Cert!certify, Cert!Commit
<1>3. UNCHANGED <<snapshots, current, tip, selectedClaims, finality>>
    BY DEF Cert!certify, Cert!Commit
<1>4. /\ \A x \in Cert!Existing(a.op) : x.cert = a.cert
      /\ Cert!Existing(a.op) = {} => \A r \in claims : r[1] \notin Cert!replay_keys(a.cert)
    BY DEF Cert!certify, Cert!Conflict
<1>5. Cert!Blocks \subseteq Cert!Blocks' /\ \A op : Cert!Owned(op) \subseteq Cert!Owned(op)'
    BY <1>2, BlocksGrow
<1>6. CallersOK'
    BY <1>5 DEF Cert!certify, CallersOK, CallOK, Cert!Idle
<1>7. block \in Cert!Owned(a.op)'
    <2>. HIDE DEF block
    <2>0. <<block, a.op>> \in owner' /\ <<block, a.op>>[1] = block /\ <<block, a.op>>[2] = a.op
        BY <1>2
    <2>1. PICK r \in owner' : r[1] = block /\ r[2] = a.op
        BY <2>0
    <2>2. r \in {x \in owner' : x[2] = a.op}
        BY <2>1
    <2>. QED BY <2>1, <2>2 DEF Cert!Owned
<1>8. AcknowledgedIsStored'
    <2>1. \A q \in Stores \ {p} : answer'[q] = answer[q]
        BY DEF Cert!certify, CallersOK
    <2>2. answer'[p].kind = "persisted" => answer'[p].block = block /\ answer'[p].op = a.op
        BY DEF Cert!certify, Cert!Answer, Cert!Silent, CallersOK
    <2>. QED BY <1>2, <2>1, <2>2 DEF AcknowledgedIsStored
<1>9. CASE Cert!Existing(a.op) # {}
    <2>1. UNCHANGED <<certifications, claims, participation>>
        BY <1>9 DEF Cert!certify, Cert!Commit
    <2>2. PICK row \in certifications : row.op = a.op /\ row.cert = a.cert
        BY <1>4, <1>9 DEF Cert!Existing
    <2>3. Cert!TypeOK'
        BY <1>1, <1>2, <1>3, <1>5, <1>6, <2>1, <2>2 DEF Cert!TypeOK, Cert!BlockShaped, Cert!Block, CallersOK
    <2>4. Issued' /\ Claimed'
        BY <2>1 DEF Issued, Claimed
    <2>5. Cert!IssuanceFits'
        <3>1. \A x \in certifications' : x.cert \in x.snapshot.reviews /\ Cert!Owned(x.op)' # {}
            BY <1>5, <2>1 DEF Cert!IssuanceFits
        <3>2. \A r \in owner' : \E x \in Cert!Existing(r[2])' : x.cert = r[1].cert
            BY <1>2, <2>1, <2>2 DEF Cert!IssuanceFits, Cert!Existing, Cert!Block
        <3>. QED BY <2>1, <3>1, <3>2 DEF Cert!IssuanceFits, Cert!Reservations
    <2>. QED BY <1>6, <1>8, <2>3, <2>4, <2>5 DEF IssueInv
<1>10. CASE Cert!Existing(a.op) = {}
    <2>1. /\ certifications' = certifications \cup {NewRow(a)}
          /\ claims' = claims \cup (Cert!replay_keys(a.cert) \X {a.op})
          /\ participation' = participation \cup Cert!Reservations(a.cert)
        BY <1>10 DEF Cert!certify, Cert!Commit, NewRow
    <2>2. NewRow(a).op = a.op /\ NewRow(a).cert = a.cert /\ NewRow(a).snapshot = current
        BY DEF NewRow
    <2>3. \A x \in certifications : x.op # a.op
        BY <1>10 DEF Cert!Existing
    <2>4. \A x \in certifications : Cert!replay_keys(x.cert) \cap Cert!replay_keys(a.cert) = {}
        <3>1. ASSUME NEW x \in certifications, NEW k \in Cert!replay_keys(x.cert) PROVE k \notin Cert!replay_keys(a.cert)
            <4>1. <<k, x.op>> \in claims
                BY <3>1 DEF Claimed
            <4>. QED BY <1>4, <1>10, <4>1
        <3>. QED BY <3>1
    <2>5. Cert!TypeOK'
        BY <1>1, <1>2, <1>3, <1>5, <1>6, <2>1, <2>2 DEF Cert!TypeOK, Cert!BlockShaped, Cert!Block, CallersOK
    <2>6. Issued'
        BY <2>1, <2>2, <2>3, <2>4 DEF Issued
    <2>7. Claimed'
        BY <2>1, <2>2 DEF Claimed
    <2>8. Cert!IssuanceFits'
        <3>1. ASSUME NEW x \in certifications'
              PROVE  x.cert \in x.snapshot.reviews /\ Cert!Owned(x.op)' # {}
            BY <1>1, <1>5, <1>7, <2>1, <2>2 DEF Cert!IssuanceFits
        <3>2. ASSUME NEW x \in certifications'
              PROVE  {r[1] : r \in {k \in claims' : k[2] = x.op}} = Cert!replay_keys(x.cert)
            <4>1. \A k : <<k, x.op>> \in claims' <=> k \in Cert!replay_keys(x.cert)
                BY <2>6, <2>7, <3>2 DEF Issued, Claimed
            <4>2. \A r \in claims' : r = <<r[1], r[2]>>
                BY <2>7 DEF Claimed
            <4>3. \A k : k \in {r[1] : r \in {q \in claims' : q[2] = x.op}} <=> <<k, x.op>> \in claims'
                BY <4>2
            <4>. QED BY <4>1, <4>3
        <3>3. participation' = UNION {Cert!Reservations(x.cert) : x \in certifications'}
            BY <2>1, <2>2 DEF Cert!IssuanceFits
        <3>4. ASSUME NEW r \in owner' PROVE \E x \in Cert!Existing(r[2])' : x.cert = r[1].cert
            BY <1>2, <2>1, <2>2, <3>4 DEF Cert!IssuanceFits, Cert!Existing, Cert!Block
        <3>. QED BY <3>1, <3>2, <3>3, <3>4 DEF Cert!IssuanceFits, Cert!Reservations
    <2>. QED BY <1>6, <1>8, <2>5, <2>6, <2>7, <2>8 DEF IssueInv
<1>. QED BY <1>9, <1>10

LEMMA IssueInvNext == ASSUME IssueInv, [Cert!Next]_(Cert!vars) PROVE IssueInv'
<1>1. CASE Cert!AdvanceSource
    <2>1. CallersOK'
        BY <1>1 DEF IssueInv, Cert!AdvanceSource, CallersOK, CallOK, Cert!Blocks, Cert!db
    <2>. QED BY <1>1, <2>1, CallerStep DEF Cert!AdvanceSource
<1>2. CASE UNCHANGED Cert!vars
    <2>1. CallersOK'
        BY <1>2 DEF IssueInv, Cert!vars, CallersOK, CallOK, Cert!Blocks, Cert!db
    <2>. QED BY <1>2, <2>1, CallerStep DEF Cert!vars
<1>. QED BY <1>1, <1>2, BeginStep, SelectStep, FinalizeStep, CertifyStep DEF Cert!Next

LEMMA IssueInvariance == Cert!Spec => []IssueInv
BY IssueInvInit, IssueInvNext, PTL DEF Cert!Spec

-----------------------------------------------------------------------------
(* The theorems *)

\* Every row refers to rows that exist.
THEOREM IssuedTypes == Cert!Spec => []Cert!TypeOK
<1>1. IssueInv => Cert!TypeOK
    BY DEF IssueInv
<1>. QED BY <1>1, IssueInvariance, PTL

\* Signed evidence is used for one issuance only, however processes race, retry
\* and die, and however the application's history changes under them.
THEOREM EvidenceIsUsedOnce == Cert!Spec => []EvidenceUsedOnce
<1>1. IssueInv => EvidenceUsedOnce
    BY DisjointClaims DEF IssueInv, Issued, EvidenceUsedOnce, Reviewers, Cert!Reviewers
<1>. QED BY <1>1, IssueInvariance, PTL

\* A certificate, its claims, its reservations and its candidates commit together:
\* the scan of recovery and backup finds no part of one without the others
\* (_certification_integrity, the rows of what was issued).
THEOREM IssuanceIsWhole == Cert!Spec => []Cert!IssuanceFits
<1>1. IssueInv => Cert!IssuanceFits
    BY DEF IssueInv
<1>. QED BY <1>1, IssueInvariance, PTL

\* A caller that was told of a persisted candidate has it in the store, under the
\* operation it named.
THEOREM AcknowledgedIsRetained == Cert!Spec => []AcknowledgedIsStored
<1>1. IssueInv => AcknowledgedIsStored
    BY DEF IssueInv
<1>. QED BY <1>1, IssueInvariance, PTL

\* Claims, certifications and owned candidates are permanent: no retry, death,
\* selection or installed snapshot gives evidence free again.
ClaimsStay == [][claims \subseteq claims' /\ certifications \subseteq certifications'
                 /\ owner \subseteq owner']_(Cert!vars)

THEOREM ClaimsArePermanent == Cert!Spec => ClaimsStay
<1>1. [Cert!Next]_(Cert!vars) => [claims \subseteq claims' /\ certifications \subseteq certifications'
                      /\ owner \subseteq owner']_(Cert!vars)
    BY DEF Cert!Next, Cert!vars, Cert!db, Cert!AdvanceSource, Cert!finalize, Cert!prepare, Cert!BeginCertify, Cert!BeginSelect, Cert!BeginInstall,
       Cert!Refuse, Cert!Return, Cert!certify, Cert!Commit, Cert!Crash, Cert!select_chain, Cert!install_snapshot
<1>. QED BY <1>1, PTL DEF Cert!Spec, ClaimsStay
-----------------------------------------------------------------------------
(* The media store                                                         *)

\* What a store under way knows: the file it writes is not there before its first
\* replacement, and holds its bytes after it.
StoreRecord == [h : Hashes, bytes : {"own"} \cup BlockBytes, evidence : {"own", None},
                saves : BOOLEAN, step : {"target", "sidecar"}]
StoreOK ==
    store # None =>
        /\ store \in StoreRecord
        /\ store.step = "target" => file[store.h] = None
        /\ store.step = "sidecar" => file[store.h] = store.bytes

MediaTypes ==
    /\ file \in [Hashes -> Media!Bytes \cup {None}]
    /\ sidecar \in [Hashes -> Media!Bytes \cup {None}]
    /\ memory \in [Hashes -> Media!Object \cup {None}]
    /\ stored \in [Hashes -> Media!Object \cup {None}]
    /\ served \in [Hashes -> Media!Bytes \cup {None}]

\* Whether storage may damage a file that a block filled with the text of another
\* hash.
TextsAreSafe == Texts = {} \/ BlockBytes \subseteq {"own"} \/ ~Damages

\* A record whose text is that of its hash is served as a text; one with another
\* text has no local file, or the file with that text, which stays.
TextOK(h, o) ==
    /\ o.text = "own" => h \in Texts /\ o.mime = "text"
    /\ TextsAreSafe /\ h \in Texts /\ o.local /\ o.text = "other" =>
          ~Damages /\ file[h] = "other"

\* Without damage a verified record has its bytes.
BytesOK(h, o) ==
    ~Damages /\ o.status = "verified" => file[h] = "own" \/ (Media!IsText(o) /\ o.text = "own")

RecordsOK(records) ==
    \A h \in Hashes : records[h] # None => TextOK(h, records[h]) /\ BytesOK(h, records[h])

SidecarsOK == ~Damages => \A h \in Hashes : sidecar[h] # None => sidecar[h] = file[h]

MediaInv ==
    /\ MediaTypes /\ StoreOK
    /\ RecordsOK(memory) /\ RecordsOK(stored)
    /\ SidecarsOK
    /\ TextsAreSafe => ServedMatches

LEMMA MediaInvInit ==
    ASSUME Media!ContentStoreAssumption, Media!Init PROVE MediaInv
<1>1. MediaTypes /\ StoreOK
    BY DEF Media!Init, MediaTypes, StoreOK
<1>2. RecordsOK(memory) /\ RecordsOK(stored) /\ SidecarsOK
    BY DEF Media!Init, RecordsOK, SidecarsOK
<1>3. ServedMatches
    BY DEF Media!Init, ServedMatches
<1>. QED BY <1>1, <1>2, <1>3 DEF MediaInv

\* A record whose file holds the bytes that were stored becomes, or stays, one
\* that is true of its file.
LEMMA RegisteredIsTrue ==
    ASSUME Media!ContentStoreAssumption, NEW h \in Hashes, NEW b \in {"own"} \cup BlockBytes,
           NEW evidence \in {"own", None}, file[h] = b,
           NEW o \in Media!Object \cup {None},
           o # None => TextOK(h, o) /\ BytesOK(h, o)
    PROVE  LET r == Media!Registered(o, h, b, evidence)
           IN  r \in Media!Object /\ TextOK(h, r) /\ BytesOK(h, r)
<1>. DEFINE r == Media!Registered(o, h, b, evidence)
<1>0. None \notin Media!Bytes /\ None \notin Media!Object /\ b # None /\ Media!Kind(h) \in {"text", "image"}
    BY DEF Media!ContentStoreAssumption, Media!Bytes, Media!Kind
<1>1. r \in Media!Object
    <2>1. b \in {"own", "other"} /\ evidence \in Media!Bytes \cup {None}
        BY DEF Media!ContentStoreAssumption, Media!Bytes
    <2>2. CASE o = None
        BY <1>0, <2>1, <2>2 DEF Media!Registered, Media!Object
    <2>3. CASE o # None
        BY <1>0, <2>1, <2>3 DEF Media!Registered, Media!Object
    <2>. QED BY <2>2, <2>3
<1>2. /\ r.status = "verified" => b = "own"
      /\ r.mime = Media!Kind(h)
      /\ h \in Texts => r.text = b
      /\ h \notin Texts /\ o # None => r.text = o.text
      /\ h \notin Texts /\ o = None => r.text = None
    BY <1>0 DEF Media!Registered, Media!Object
<1>3. TextOK(h, r)
    BY <1>0, <1>2 DEF TextOK, Media!Kind, Media!Bytes, Media!Object, TextsAreSafe
<1>4. BytesOK(h, r)
    BY <1>2 DEF BytesOK
<1>. QED BY <1>1, <1>3, <1>4

\* A step that gives one record of the memory a new value, true of its file, and
\* perhaps saves the memory.
LEMMA MemoryStep ==
    ASSUME MediaInv, UNCHANGED file, NEW h \in Hashes, NEW r \in Media!Object,
           memory' = [memory EXCEPT ![h] = r], TextOK(h, r), BytesOK(h, r),
           stored' \in {stored, memory'}
    PROVE  /\ memory' \in [Hashes -> Media!Object \cup {None}]
           /\ stored' \in [Hashes -> Media!Object \cup {None}]
           /\ RecordsOK(memory)' /\ RecordsOK(stored)'
<1>1. /\ memory' \in [Hashes -> Media!Object \cup {None}]
      /\ stored' \in [Hashes -> Media!Object \cup {None}]
      /\ \A g \in Hashes : memory'[g] = IF g = h THEN r ELSE memory[g]
    BY DEF MediaInv, MediaTypes
<1>2. RecordsOK(memory)'
    BY <1>1 DEF MediaInv, RecordsOK, TextOK, BytesOK
<1>3. RecordsOK(stored)'
    <2>1. CASE stored' = stored
        BY <2>1 DEF MediaInv, RecordsOK, TextOK, BytesOK, TextsAreSafe
    <2>2. CASE stored' = memory'
        BY <1>2, <2>2 DEF RecordsOK
    <2>. QED BY <2>1, <2>2
<1>. QED BY <1>1, <1>2, <1>3

LEMMA RegisterStep ==
    ASSUME Media!ContentStoreAssumption, MediaInv, UNCHANGED <<file, served>>,
           NEW s \in StoreRecord, Media!Register(s), file[s.h] = s.bytes,
           \A h \in Hashes : sidecar'[h] = sidecar[h] \/ sidecar'[h] = file[h],
           sidecar' \in [Hashes -> Media!Bytes \cup {None}]
    PROVE  MediaInv'
<1>. DEFINE r == Media!Registered(memory[s.h], s.h, s.bytes, s.evidence)
<1>0. s.h \in Hashes /\ s.bytes \in {"own"} \cup BlockBytes /\ s.evidence \in {"own", None}
    BY DEF StoreRecord
<1>1. memory[s.h] \in Media!Object \cup {None}
    BY <1>0 DEF MediaInv, MediaTypes
<1>2. r \in Media!Object /\ TextOK(s.h, r) /\ BytesOK(s.h, r)
    BY <1>0, <1>1, RegisteredIsTrue DEF MediaInv, RecordsOK
<1>3. memory' = [memory EXCEPT ![s.h] = r] /\ stored' \in {stored, memory'} /\ store' = None
    BY <1>0 DEF Media!Register, MediaInv, MediaTypes
<1>4. /\ memory' \in [Hashes -> Media!Object \cup {None}]
      /\ stored' \in [Hashes -> Media!Object \cup {None}]
      /\ RecordsOK(memory)' /\ RecordsOK(stored)'
    <2>. HIDE DEF r
    <2>. QED BY <1>0, <1>2, <1>3, MemoryStep
<1>5. MediaTypes' /\ StoreOK'
    BY <1>3, <1>4 DEF MediaInv, MediaTypes, StoreOK
<1>6. SidecarsOK' /\ (TextsAreSafe => ServedMatches')
    BY DEF MediaInv, SidecarsOK, ServedMatches
<1>. QED BY <1>4, <1>5, <1>6 DEF MediaInv, TextsAreSafe

LEMMA BeginStoreStep ==
    ASSUME Media!ContentStoreAssumption, MediaInv, NEW s \in StoreRecord, s.step = "target",
           Media!Begin(s)
    PROVE  MediaInv'
<1>1. CASE file[s.h] # None /\ Media!SameBytes(s.h, s.bytes)
    <2>1. Media!Register(s) /\ UNCHANGED <<file, sidecar, served>> /\ file[s.h] = s.bytes
        BY <1>1 DEF Media!Begin, Media!SameBytes
    <2>. QED BY <2>1, RegisterStep DEF MediaInv, MediaTypes
<1>2. CASE file[s.h] = None
    <2>1. store' = s /\ UNCHANGED <<file, sidecar, memory, stored, served>>
        BY <1>2 DEF Media!Begin
    <2>2. StoreOK'
        BY <1>2, <2>1 DEF StoreOK
    <2>. QED BY <2>1, <2>2 DEF MediaInv, MediaTypes, RecordsOK, TextOK, BytesOK, SidecarsOK,
                               ServedMatches, TextsAreSafe
<1>3. CASE file[s.h] # None /\ ~Media!SameBytes(s.h, s.bytes)
    <2>1. UNCHANGED <<store, file, sidecar, memory, stored, served>>
        BY <1>3 DEF Media!Begin
    <2>. QED BY <2>1 DEF MediaInv, MediaTypes, RecordsOK, TextOK, BytesOK, SidecarsOK,
                         ServedMatches, TextsAreSafe, StoreOK
<1>. QED BY <1>1, <1>2, <1>3

LEMMA StoreStep ==
    ASSUME Media!ContentStoreAssumption, MediaInv,
           \/ \E h \in Hashes : \/ Media!Upload(h) \/ Media!sync_missing(h)
                                \/ \E b \in BlockBytes : Media!cache_protocol_v1_block_content(h, b)
           \/ Media!ReplaceTarget \/ Media!ReplaceSidecar
    PROVE  MediaInv'
<1>1. ASSUME NEW h \in Hashes, NEW b \in {"own"} \cup BlockBytes, NEW e \in {"own", None},
             NEW v \in BOOLEAN, Media!Store(h, b, e, v)
      PROVE  MediaInv'
    <2>. DEFINE s == [h |-> h, bytes |-> b, evidence |-> e, saves |-> v, step |-> "target"]
    <2>1. s \in StoreRecord /\ s.step = "target"
        BY DEF StoreRecord
    <2>2. Media!Begin(s)
        BY <1>1 DEF Media!Store
    <2>. HIDE DEF s
    <2>. QED BY <2>1, <2>2, BeginStoreStep
<1>2. CASE Media!ReplaceTarget
    <2>1. /\ store \in StoreRecord /\ file[store.h] = None /\ store.bytes # None
          /\ store.h \in Hashes /\ store.bytes \in Media!Bytes
        BY <1>2 DEF Media!ReplaceTarget, MediaInv, StoreOK, StoreRecord, Media!ContentStoreAssumption,
                    Media!Bytes
    <2>2. /\ file' = [file EXCEPT ![store.h] = store.bytes]
          /\ store' = [store EXCEPT !.step = "sidecar"]
          /\ UNCHANGED <<sidecar, memory, stored, served>>
        BY <1>2 DEF Media!ReplaceTarget
    <2>3. MediaTypes'
        BY <2>1, <2>2 DEF MediaInv, MediaTypes
    <2>4. StoreOK'
        BY <2>1, <2>2 DEF StoreOK, StoreRecord, MediaInv, MediaTypes
    <2>5. \A h \in Hashes : file'[h] = file[h] \/ file[h] = None
        BY <2>1, <2>2 DEF MediaInv, MediaTypes
    <2>6. None # "own" /\ None # "other"
        BY DEF Media!ContentStoreAssumption, Media!Bytes
    <2>7. RecordsOK(memory)' /\ RecordsOK(stored)'
        BY <2>2, <2>5, <2>6 DEF MediaInv, RecordsOK, TextOK, BytesOK, Media!IsText, TextsAreSafe
    <2>8. SidecarsOK'
        BY <2>2, <2>5 DEF MediaInv, SidecarsOK
    <2>. QED BY <2>2, <2>3, <2>4, <2>7, <2>8 DEF MediaInv, ServedMatches, TextsAreSafe
<1>3. CASE Media!ReplaceSidecar
    <2>1. store \in StoreRecord /\ file[store.h] = store.bytes /\ Media!Register(store)
        BY <1>3 DEF Media!ReplaceSidecar, MediaInv, StoreOK
    <2>2. sidecar' = [sidecar EXCEPT ![store.h] = store.bytes] /\ UNCHANGED <<file, served>>
        BY <1>3 DEF Media!ReplaceSidecar
    <2>3. store.h \in Hashes /\ store.bytes \in Media!Bytes
        BY <2>1 DEF StoreRecord, Media!ContentStoreAssumption, Media!Bytes
    <2>4. /\ \A h \in Hashes : sidecar'[h] = sidecar[h] \/ sidecar'[h] = file[h]
          /\ sidecar' \in [Hashes -> Media!Bytes \cup {None}]
        BY <2>1, <2>2, <2>3 DEF MediaInv, MediaTypes
    <2>. QED BY <2>1, <2>2, <2>4, RegisterStep
<1>. QED BY <1>1, <1>2, <1>3 DEF Media!Upload, Media!sync_missing,
                                 Media!cache_protocol_v1_block_content

LEMMA RecordStep ==
    ASSUME Media!ContentStoreAssumption, MediaInv, NEW h \in Hashes,
           \/ Media!register_remote_content_reference(h)
           \/ \E text \in {"other", None} : Media!submit_existing_content(h, text)
           \/ Media!verify_content_download_operation(h)
    PROVE  MediaInv'
<1>. USE DEF MediaInv
<1>0. /\ None \notin Media!Bytes /\ None \notin Media!Object
      /\ memory[h] # None => memory[h] \in Media!Object /\ TextOK(h, memory[h]) /\ BytesOK(h, memory[h])
      /\ file[h] \in Media!Bytes \cup {None}
    BY DEF Media!ContentStoreAssumption, MediaTypes, RecordsOK
<1>1. ASSUME UNCHANGED <<file, sidecar, store>>, NEW r \in Media!Object,
             memory' = [memory EXCEPT ![h] = r], TextOK(h, r), BytesOK(h, r),
             stored' \in {stored, memory'}, UNCHANGED served
      PROVE  MediaInv'
    <2>1. /\ memory' \in [Hashes -> Media!Object \cup {None}]
          /\ stored' \in [Hashes -> Media!Object \cup {None}]
          /\ RecordsOK(memory)' /\ RecordsOK(stored)'
        BY <1>1, MemoryStep
    <2>. QED BY <1>1, <2>1 DEF MediaTypes, StoreOK, SidecarsOK, ServedMatches, TextsAreSafe
<1>2. CASE Media!register_remote_content_reference(h)
    <2>. DEFINE r == memory'[h]
    <2>1. r \in Media!Object /\ TextOK(h, r) /\ BytesOK(h, r)
        <3>1. CASE memory[h] = None
            <4>1. r = [status |-> "remote", local |-> FALSE, evidence |-> None,
                       mime |-> "unknown", type |-> "image", text |-> None]
                BY <1>2, <3>1 DEF Media!register_remote_content_reference, MediaTypes
            <4>. QED BY <1>0, <4>1 DEF Media!Object, TextOK, BytesOK, Media!Bytes
        <3>2. CASE memory[h] # None /\ memory[h].status = "verified"
            <4>1. r = memory[h]
                BY <1>2, <3>2 DEF Media!register_remote_content_reference, MediaTypes
            <4>. QED BY <1>0, <3>2, <4>1
        <3>3. CASE memory[h] # None /\ memory[h].status # "verified"
            <4>1. r = [memory[h] EXCEPT !.status = "remote", !.local = FALSE]
                BY <1>2, <3>3 DEF Media!register_remote_content_reference, MediaTypes
            <4>. QED BY <1>0, <3>3, <4>1 DEF Media!Object, TextOK, BytesOK
        <3>. QED BY <3>1, <3>2, <3>3
    <2>2. memory' = [memory EXCEPT ![h] = r] /\ UNCHANGED <<file, sidecar, store, stored, served>>
        BY <1>2 DEF Media!register_remote_content_reference, MediaTypes
    <2>. QED BY <1>1, <2>1, <2>2
<1>3. ASSUME NEW text \in {"other", None}, Media!submit_existing_content(h, text)
      PROVE  MediaInv'
    <2>. DEFINE r == memory'[h]
    <2>. DEFINE given == [status |-> "missing", local |-> FALSE, evidence |-> None,
                          mime |-> IF text = None THEN "unknown" ELSE "text",
                          type |-> IF text = None THEN "image" ELSE "text", text |-> text]
                o == IF memory[h] = None THEN given ELSE memory[h]
                bound == [o EXCEPT !.evidence = file[h]]
    <2>a. o \in Media!Object /\ TextOK(h, o) /\ BytesOK(h, o)
        <3>1. given \in Media!Object /\ TextOK(h, given) /\ BytesOK(h, given)
            BY <1>0 DEF Media!Object, TextOK, BytesOK, Media!Bytes
        <3>. QED BY <1>0, <3>1
    <2>b. \/ r = o
          \/ r = bound
          \/ r = [bound EXCEPT !.status = "verified"] /\ Media!verify_content_object_payload(o, h)
        BY <1>3 DEF Media!submit_existing_content, MediaTypes
    <2>. HIDE DEF o, r
    <2>1. r \in Media!Object /\ TextOK(h, r)
        BY <1>0, <2>a, <2>b DEF Media!Object, TextOK
    <2>2. BytesOK(h, r)
        BY <2>a, <2>b DEF Media!Object, BytesOK, Media!IsText, Media!verify_content_object_payload
    <2>. USE DEF r
    <2>3. /\ memory' = [memory EXCEPT ![h] = r] /\ UNCHANGED <<file, sidecar, store, served>>
          /\ stored' \in {stored, memory'}
        BY <1>3 DEF Media!submit_existing_content, MediaTypes
    <2>. QED BY <1>1, <2>1, <2>2, <2>3
<1>4. CASE Media!verify_content_download_operation(h)
    <2>. DEFINE r == memory'[h]
    <2>0. memory[h] \in Media!Object /\ Media!verify_content_object_payload(memory[h], h)
        BY <1>0, <1>4 DEF Media!verify_content_download_operation
    <2>1. r \in Media!Object /\ TextOK(h, r) /\ BytesOK(h, r)
        BY <1>0, <1>4, <2>0 DEF Media!verify_content_download_operation, MediaTypes, Media!Object,
              TextOK, BytesOK, Media!IsText, Media!verify_content_object_payload
    <2>2. memory' = [memory EXCEPT ![h] = r] /\ UNCHANGED <<file, sidecar, store, stored>>
        BY <1>4 DEF Media!verify_content_download_operation, MediaTypes
    <2>3. /\ memory' \in [Hashes -> Media!Object \cup {None}]
          /\ stored' \in [Hashes -> Media!Object \cup {None}]
          /\ RecordsOK(memory)' /\ RecordsOK(stored)'
        BY <2>1, <2>2, MemoryStep
    <2>4. PICK b \in Media!Bytes : served' = [served EXCEPT ![h] = b]
                                   /\ (TextsAreSafe => b = "own")
        <3>1. CASE memory[h].mime = "text" /\ memory[h].text # None
            <4>1. served' = [served EXCEPT ![h] = memory[h].text]
                BY <1>4, <3>1 DEF Media!verify_content_download_operation
            <4>2. memory[h].text \in Media!Bytes
                BY <2>0, <3>1 DEF Media!Object, Media!Bytes
            <4>3. TextsAreSafe => memory[h].text = "own"
                BY <1>0, <2>0, <3>1 DEF Media!verify_content_object_payload, Media!IsText, TextOK,
                                        Media!FileThere, Media!Object
            <4>. QED BY <4>1, <4>2, <4>3
        <3>2. CASE ~(memory[h].mime = "text" /\ memory[h].text # None)
            <4>1. served' = [served EXCEPT ![h] = file[h]] /\ file[h] \in Media!Bytes
                BY <1>0, <1>4, <3>2 DEF Media!verify_content_download_operation, Media!FileThere
            <4>2. file[h] = "own"
                BY <1>0, <2>0, <3>2 DEF Media!verify_content_object_payload, TextOK, Media!Bytes
            <4>. QED BY <4>1, <4>2
        <3>. QED BY <3>1, <3>2
    <2>5. MediaTypes' /\ (TextsAreSafe => ServedMatches')
        BY <2>2, <2>3, <2>4 DEF MediaTypes, ServedMatches
    <2>. QED BY <2>2, <2>3, <2>5 DEF StoreOK, SidecarsOK, TextsAreSafe
<1>. QED BY <1>2, <1>3, <1>4

LEMMA RestartStep ==
    ASSUME Media!ContentStoreAssumption, MediaInv, Media!Restart
    PROVE  MediaInv'
<1>. USE DEF MediaInv
<1>0. None \notin Media!Bytes /\ None \notin Media!Object
    BY DEF Media!ContentStoreAssumption
<1>1. /\ memory' = [h \in Hashes |-> Media!refresh_storage_statuses(stored[h], h)]
      /\ store' = None /\ UNCHANGED <<file, sidecar, stored, served>>
    BY DEF Media!Restart
<1>2. ASSUME NEW h \in Hashes
      PROVE  /\ memory'[h] \in Media!Object \cup {None}
             /\ memory'[h] # None => TextOK(h, memory'[h]) /\ BytesOK(h, memory'[h])
    <2>1. CASE stored[h] = None
        BY <1>1, <2>1 DEF Media!refresh_storage_statuses
    <2>2. CASE stored[h] # None
        <3>1. stored[h] \in Media!Object /\ TextOK(h, stored[h]) /\ BytesOK(h, stored[h])
            BY <2>2 DEF MediaTypes, RecordsOK
        <3>2. PICK status \in {"missing", "local", "remote", "verified"} :
                  /\ memory'[h] = [stored[h] EXCEPT !.status = status]
                  /\ status = "verified" => stored[h].status = "verified"
                                            \/ Media!verify_content_object_payload(stored[h], h)
            BY <1>1, <2>2, <3>1 DEF Media!refresh_storage_statuses, Media!Object
        <3>. QED BY <3>1, <3>2 DEF Media!Object, TextOK, BytesOK, Media!IsText,
                                   Media!verify_content_object_payload
    <2>. QED BY <2>1, <2>2
<1>3. RecordsOK(memory)' /\ RecordsOK(stored)'
    BY <1>1, <1>2 DEF RecordsOK, TextOK, BytesOK
<1>4. MediaTypes' /\ StoreOK'
    BY <1>1, <1>2 DEF MediaTypes, StoreOK
<1>. QED BY <1>1, <1>3, <1>4 DEF SidecarsOK, ServedMatches, TextsAreSafe

LEMMA FileDamageStep ==
    ASSUME Media!ContentStoreAssumption, MediaInv, NEW h \in Hashes, Media!Damage(h)
    PROVE  MediaInv'
<1>1. PICK b \in {"damaged", None} : file' = [file EXCEPT ![h] = b]
    BY DEF Media!Damage
<1>2. Damages /\ store = None /\ UNCHANGED <<sidecar, memory, stored, store, served>>
    BY DEF Media!Damage
<1>3. MediaTypes' /\ StoreOK'
    BY <1>1, <1>2 DEF MediaInv, MediaTypes, StoreOK, Media!Bytes
<1>4. RecordsOK(memory)' /\ RecordsOK(stored)'
    BY <1>2 DEF MediaInv, RecordsOK, TextOK, BytesOK, TextsAreSafe
<1>. QED BY <1>2, <1>3, <1>4 DEF MediaInv, SidecarsOK, ServedMatches, TextsAreSafe

LEMMA MediaInvNext ==
    ASSUME Media!ContentStoreAssumption, MediaInv, [Media!Next]_(Media!vars)
    PROVE  MediaInv'
<1>1. CASE UNCHANGED Media!vars
    BY <1>1 DEF Media!vars, MediaInv, MediaTypes, StoreOK, RecordsOK, TextOK, BytesOK, SidecarsOK,
                ServedMatches, TextsAreSafe
<1>. QED BY <1>1, StoreStep, RecordStep, RestartStep, FileDamageStep DEF Media!Next

LEMMA MediaInvariance == ASSUME Media!ContentStoreAssumption PROVE Media!Spec => []MediaInv
BY MediaInvInit, MediaInvNext, PTL DEF Media!Spec

\* No download serves bytes other than those of its hash, whatever storage did to
\* the files.  For a text this needs that no block filled its file with another
\* text before storage lost it (section 5 of the README).
THEOREM DownloadsMatch ==
    ASSUME Media!ContentStoreAssumption, TextsAreSafe
    PROVE  Media!Spec => []ServedMatches
<1>1. MediaInv => ServedMatches
    BY DEF MediaInv
<1>. QED BY <1>1, MediaInvariance, PTL

\* Without damage of the medium, a record marked verified has its bytes and a
\* sidecar describes the file beside it, through crashes and failed saves.
THEOREM VerifiedIsThere ==
    ASSUME Media!ContentStoreAssumption, ~Damages
    PROVE  Media!Spec => [](Media!VerifiedHasBytes /\ Media!SidecarDescribesFile)
<1>1. MediaInv => Media!VerifiedHasBytes /\ Media!SidecarDescribesFile
    BY DEF MediaInv, RecordsOK, BytesOK, SidecarsOK, Media!VerifiedHasBytes,
           Media!SidecarDescribesFile
<1>. QED BY <1>1, MediaInvariance, PTL

\* No store replaces a file that is there, whoever offers what.
THEOREM StoredFilesStay ==
    ASSUME Media!ContentStoreAssumption
    PROVE  Media!Spec => Media!FilesAreImmutable
<1>1. MediaInv /\ [Media!Next]_(Media!vars) => [Media!KeepsFiles]_(Media!vars)
    <2>. SUFFICES ASSUME MediaInv, Media!Next, NEW h \in Hashes, file[h] # None, store # None,
                         store.h = h
                  PROVE  file'[h] = file[h]
        BY DEF Media!KeepsFiles
    <2>1. CASE Media!ReplaceTarget
        BY <2>1 DEF Media!ReplaceTarget, MediaInv, StoreOK
    <2>2. CASE Media!ReplaceSidecar \/ Media!Restart
        BY <2>2 DEF Media!ReplaceSidecar, Media!Restart
    <2>3. ASSUME NEW g \in Hashes, Media!Upload(g) \/ Media!sync_missing(g) \/ Media!Damage(g)
                                   \/ \E b \in BlockBytes : Media!cache_protocol_v1_block_content(g, b)
          PROVE  FALSE
        BY <2>3 DEF Media!Upload, Media!sync_missing, Media!Store, Media!Begin, Media!Damage,
                    Media!cache_protocol_v1_block_content
    <2>4. ASSUME NEW g \in Hashes, Media!register_remote_content_reference(g)
                                   \/ Media!verify_content_download_operation(g)
                                   \/ \E text \in {"other", None} : Media!submit_existing_content(g, text)
          PROVE  UNCHANGED file
        BY <2>4 DEF Media!register_remote_content_reference, Media!submit_existing_content,
                    Media!verify_content_download_operation
    <2>. QED BY <2>1, <2>2, <2>3, <2>4 DEF Media!Next
<1>. QED BY <1>1, MediaInvariance, PTL DEF Media!Spec, Media!FilesAreImmutable
-----------------------------------------------------------------------------
(* The operators' tools                                                    *)

ChainBlocks == Blocks \cup {Genesis}
StoreRecords ==
    [chain : Seq(ChainBlocks), final : Nat, attested : SUBSET ChainBlocks,
     records : SUBSET Records, native : SUBSET Native, peers : SUBSET Peers,
     reviewers : Nat, penalties : SUBSET Penalties, access : SUBSET Accounts]

\* A store whose finalized prefix is in its chain.
Covered(s) == s \in StoreRecords /\ s.final <= Len(s.chain)

\* What a tool read so far of a state that nobody else changes while it runs.
Loaded ==
    /\ tool.step = "reviewers" =>
          tool.loaded = [Tools!Portable(store) EXCEPT !.reviewers = Tools!NoReviewer, !.penalties = {}]
    /\ tool.step = "file" => tool.loaded = Tools!Portable(store)
    /\ tool.step = "save" => Tools!Portable(store) \in files \cup {Tools!Empty}

ToolRecord ==
    [task : {"backup", "import", "reset", "migrate"},
     step : {"document", "reviewers", "file", "save", "peers", "clear", "states", "offenses",
             "check", "reset", "validate", "migrated", "failed", "restored"},
     input : StoreRecords, loaded : StoreRecords, before : StoreRecords]

\* The finality of a database that a failed migration gives back is that of the
\* database it works on.
Restorable ==
    /\ Covered(tool.before)
    /\ Tools!_has_persisted_data(tool.before) => bak = {tool.before}
    /\ tool.step \in {"save", "validate", "failed", "migrated"} =>
          /\ store.final = tool.before.final
          /\ SubSeq(store.chain, 1, store.final) = SubSeq(tool.before.chain, 1, store.final)

ToolInv ==
    /\ Covered(store)
    /\ \A s \in files \cup bak \cup reading : Covered(s)
    /\ Tools!OriginalRecoverable
    /\ tool # Tools!Idle =>
          /\ tool \in ToolRecord /\ Covered(tool.loaded)
          /\ tool.task = "import" => Covered(tool.input)
          /\ tool.task # "backup" => ~online
          /\ tool.task \in {"import", "reset"} => Loaded
          /\ tool.task = "migrate" => Restorable

LEMMA PrefixOfAppend ==
    ASSUME NEW S, NEW s \in Seq(S), NEW b \in S, NEW n \in Nat, n <= Len(s)
    PROVE  SubSeq(Append(s, b), 1, n) = SubSeq(s, 1, n)
OBVIOUS
\* The two ways in which a document replaces the stored one.
LEMMA SaveKeeps ==
    ASSUME Covered(store), NEW r \in StoreRecords, Tools!_save_sections(r),
           r.final <= Len(r.chain) \/ r.final = store.final
    PROVE  Covered(store)' /\ Tools!KeepsFinality
<1>. DEFINE top == IF r.final > store.final THEN r.final ELSE store.final
<1>1. /\ store' = [[r EXCEPT !.final = top, !.attested = @ \cup store.attested]
                      EXCEPT !.reviewers = store.reviewers, !.penalties = store.penalties]
      /\ Len(r.chain) >= store.final
      /\ SubSeq(r.chain, 1, store.final) = SubSeq(store.chain, 1, store.final)
    BY DEF Tools!_save_sections, Tools!Merged, Tools!_preserve_finality, Covered, StoreRecords
<1>2. top \in Nat /\ top >= store.final /\ top <= Len(r.chain)
    BY <1>1 DEF Covered, StoreRecords
<1>. HIDE DEF top
<1>3. store' \in StoreRecords /\ store'.chain = r.chain /\ store'.final = top
    BY <1>1, <1>2 DEF Covered, StoreRecords
<1>. QED BY <1>1, <1>2, <1>3 DEF Covered, Tools!KeepsFinality

\* A writer of other sections.
LEMMA SectionKeeps ==
    ASSUME Covered(store), store' \in StoreRecords, store'.chain = store.chain,
           store'.final = store.final
    PROVE  Covered(store)' /\ Tools!KeepsFinality
BY DEF Covered, Tools!KeepsFinality, StoreRecords

-----------------------------------------------------------------------------
(* The node *)

\* While the node runs there is no tool but a backup, of which nothing is known.
LEMMA OnlineStep ==
    ASSUME ToolInv, online, UNCHANGED <<files, bak, tool, replaced>>, Covered(store)',
           \A s \in reading' : Covered(s)
    PROVE  ToolInv'
BY DEF ToolInv, Tools!OriginalRecoverable, Loaded, Restorable, Tools!Idle

LEMMA NodeStep ==
    ASSUME Tools!ToolsAssumption, ToolInv,
           \/ \E b \in Blocks : Tools!mint(b)
           \/ Tools!submit_validator_finality_attestations
           \/ Tools!atomic_update_blockchain_document
           \/ Tools!transition_reviewer_state
           \/ Tools!register_peer \/ Tools!save_peers \/ Tools!PeerSaveRefused
           \/ Tools!StartNode \/ Tools!StopNode
    PROVE  ToolInv' /\ Tools!KeepsFinality
<1>0. store \in StoreRecords /\ store.final <= Len(store.chain) /\ \A s \in reading : Covered(s)
    BY DEF ToolInv, Covered
<1>a. ASSUME store' = store PROVE Covered(store)' /\ Tools!KeepsFinality
    BY <1>0, <1>a DEF Covered, Tools!KeepsFinality, StoreRecords
<1>1. ASSUME NEW b \in Blocks, Tools!mint(b) PROVE ToolInv' /\ Tools!KeepsFinality
    <2>1. store' = [store EXCEPT !.chain = Append(@, b)] /\ b \in ChainBlocks
        BY <1>1 DEF Tools!mint, ChainBlocks
    <2>2. Append(store.chain, b) \in Seq(ChainBlocks) /\ Len(Append(store.chain, b)) = Len(store.chain) + 1
        BY <1>0, <2>1 DEF StoreRecords
    <2>3. store' \in StoreRecords /\ store'.chain = Append(store.chain, b) /\ store'.final = store.final
        BY <1>0, <2>1, <2>2 DEF StoreRecords
    <2>4. SubSeq(store'.chain, 1, store.final) = SubSeq(store.chain, 1, store.final)
        <3>1. store.chain \in Seq(ChainBlocks) /\ store.final \in Nat
            BY <1>0 DEF StoreRecords
        <3>. QED BY <1>0, <2>1, <2>3, <3>1, PrefixOfAppend
    <2>5. Covered(store)' /\ Tools!KeepsFinality
        BY <1>0, <2>2, <2>3, <2>4 DEF Covered, Tools!KeepsFinality, StoreRecords
    <2>. QED BY <1>0, <1>1, <2>5, OnlineStep DEF Tools!mint, Tools!NodeUnchanged
<1>2. CASE Tools!submit_validator_finality_attestations
    <2>1. PICK f \in {store.final, Len(store.chain)} :
             store' = [store EXCEPT !.attested = @ \cup {store.chain[Len(store.chain)]}, !.final = f]
        BY <1>0, <1>2 DEF Tools!submit_validator_finality_attestations, StoreRecords
    <2>2. store.chain[Len(store.chain)] \in ChainBlocks /\ f \in Nat /\ f >= store.final
          /\ f <= Len(store.chain)
        BY <1>0, <1>2 DEF Tools!submit_validator_finality_attestations, StoreRecords
    <2>3. Covered(store)' /\ Tools!KeepsFinality
        BY <1>0, <2>1, <2>2 DEF Covered, Tools!KeepsFinality, StoreRecords
    <2>. QED BY <1>0, <1>2, <2>3, OnlineStep
             DEF Tools!submit_validator_finality_attestations, Tools!NodeUnchanged
<1>3. CASE Tools!atomic_update_blockchain_document \/ Tools!transition_reviewer_state
    <2>1. store' \in StoreRecords /\ store'.chain = store.chain /\ store'.final = store.final
        BY <1>0, <1>3 DEF Tools!atomic_update_blockchain_document, Tools!transition_reviewer_state,
                          StoreRecords
    <2>2. Covered(store)' /\ Tools!KeepsFinality
        BY <2>1, SectionKeeps DEF ToolInv
    <2>. QED BY <1>0, <1>3, <2>2, OnlineStep
             DEF Tools!atomic_update_blockchain_document, Tools!transition_reviewer_state,
                 Tools!NodeUnchanged
<1>4. CASE Tools!register_peer \/ Tools!PeerSaveRefused
    <2>1. store' = store /\ reading' \subseteq {store}
        BY <1>4 DEF Tools!register_peer, Tools!PeerSaveRefused
    <2>. QED BY <1>4, <1>a, <2>1, OnlineStep
             DEF Tools!register_peer, Tools!PeerSaveRefused, Tools!NodeUnchanged, ToolInv
<1>5. CASE Tools!save_peers
    <2>1. PICK s \in reading, p \in Peers : Tools!_save_sections([s EXCEPT !.peers = @ \cup {p}])
        BY <1>5 DEF Tools!save_peers
    <2>2. Covered([s EXCEPT !.peers = @ \cup {p}])
        BY <1>0 DEF Covered, StoreRecords
    <2>3. Covered(store)' /\ Tools!KeepsFinality
        BY <2>1, <2>2, SaveKeeps DEF ToolInv, Covered
    <2>. QED BY <1>5, <2>3, OnlineStep DEF Tools!save_peers, Tools!NodeUnchanged
<1>6. CASE Tools!StartNode
    <2>1. store' = store \/ (store.chain = <<>> /\ store' = [store EXCEPT !.chain = <<Genesis>>])
        BY <1>6 DEF Tools!StartNode
    <2>2. Covered(store)' /\ Tools!KeepsFinality
        <3>1. CASE store' = store
            BY <1>a, <3>1
        <3>2. CASE store.chain = <<>> /\ store' = [store EXCEPT !.chain = <<Genesis>>]
            <4>1. store.final = 0 /\ <<Genesis>> \in Seq(ChainBlocks) /\ Len(<<Genesis>>) = 1
                BY <1>0, <3>2 DEF StoreRecords, ChainBlocks
            <4>2. store' \in StoreRecords /\ store'.chain = <<Genesis>> /\ store'.final = 0
                BY <1>0, <3>2, <4>1 DEF StoreRecords
            <4>3. SubSeq(<<Genesis>>, 1, 0) = <<>> /\ SubSeq(store.chain, 1, 0) = <<>>
                BY <3>2
            <4>. QED BY <4>1, <4>2, <4>3 DEF Covered, Tools!KeepsFinality
        <3>. QED BY <2>1, <3>1, <3>2
    <2>3. tool = Tools!Idle /\ UNCHANGED <<reading, files, bak, tool, replaced>>
        BY <1>6 DEF Tools!StartNode
    <2>. QED BY <2>2, <2>3 DEF ToolInv, Tools!OriginalRecoverable, Tools!Idle
<1>7. CASE Tools!StopNode
    <2>1. store' = store /\ reading' = {} /\ UNCHANGED <<files, bak, tool, replaced>> /\ online
        BY <1>7 DEF Tools!StopNode
    <2>. QED BY <1>a, <2>1, OnlineStep
<1>. QED BY <1>1, <1>2, <1>3, <1>4, <1>5, <1>6, <1>7

-----------------------------------------------------------------------------
(* The tools *)

LEMMA EmptyIsCovered == Covered(Tools!Empty)
BY DEF Covered, StoreRecords, Tools!Empty, Tools!NoReviewer

LEMMA PortableIsCovered == ASSUME NEW s, Covered(s) PROVE Covered(Tools!Portable(s))
BY DEF Covered, StoreRecords, Tools!Portable

LEMMA BeginStepOfTool ==
    ASSUME Tools!ToolsAssumption, ToolInv,
           Tools!backup_storage \/ Tools!import_storage \/ Tools!reset_state
           \/ Tools!migrate_json_to_sqlite \/ Tools!Stop
    PROVE  ToolInv' /\ Tools!KeepsFinality
<1>0. Covered(store) /\ \A s \in files \cup bak \cup reading : Covered(s)
    BY DEF ToolInv
<1>1. store' = store /\ UNCHANGED <<files, replaced, online, reading>>
    BY DEF Tools!backup_storage, Tools!import_storage, Tools!reset_state, Tools!Begin,
           Tools!migrate_json_to_sqlite, Tools!Stop, Tools!ToolUnchanged
<1>2. Tools!KeepsFinality /\ Covered(store)' /\ Tools!OriginalRecoverable'
    BY <1>0, <1>1 DEF Tools!KeepsFinality, Covered, StoreRecords, ToolInv, Tools!OriginalRecoverable
<1>3. CASE Tools!Stop
    BY <1>0, <1>1, <1>2, <1>3 DEF Tools!Stop, ToolInv
<1>4. ASSUME NEW task \in {"backup", "import", "reset"}, NEW input, Covered(input),
             Tools!Begin(task, input), task # "backup" => ~online
      PROVE  ToolInv'
    <2>1. /\ tool' = [task |-> task, step |-> "document", input |-> input, loaded |-> Tools!Empty,
                      before |-> store]
          /\ bak' = bak
        BY <1>4 DEF Tools!Begin
    <2>2. tool' \in ToolRecord /\ tool'.step = "document" /\ tool'.task = task
          /\ tool'.input = input /\ tool'.loaded = Tools!Empty
        BY <1>0, <1>4, <2>1, EmptyIsCovered DEF ToolRecord, Covered
    <2>. QED BY <1>0, <1>1, <1>2, <1>4, <2>1, <2>2, EmptyIsCovered DEF ToolInv, Loaded
<1>5. CASE Tools!backup_storage
    BY <1>2, <1>4, <1>5, EmptyIsCovered DEF Tools!backup_storage
<1>6. CASE Tools!import_storage
    <2>1. PICK f \in files : Tools!Begin("import", f)
        BY <1>6 DEF Tools!import_storage
    <2>. QED BY <1>0, <1>2, <1>4, <1>6, <2>1 DEF Tools!import_storage
<1>7. CASE Tools!reset_state
    BY <1>2, <1>4, <1>7, EmptyIsCovered DEF Tools!reset_state
<1>8. CASE Tools!migrate_json_to_sqlite
    <2>1. /\ tool' = [task |-> "migrate", step |-> "save", input |-> Source, loaded |-> Tools!Empty,
                      before |-> store]
          /\ bak' = IF Tools!_has_persisted_data(store) THEN {store} ELSE bak
          /\ ~online
        BY <1>8 DEF Tools!migrate_json_to_sqlite, Tools!_backup_existing_database
    <2>2. tool' \in ToolRecord /\ tool'.step = "save" /\ tool'.task = "migrate"
          /\ tool'.before = store
        BY <1>0, <2>1, EmptyIsCovered DEF ToolRecord, Covered, Tools!ToolsAssumption, StoreRecords,
                                          ChainBlocks
    <2>3. Covered(tool'.loaded)
        BY <2>1, EmptyIsCovered
    <2>4. \A s \in bak' : Covered(s)
        BY <1>0, <2>1
    <2>5. Restorable'
        BY <1>0, <1>1, <2>1, <2>2 DEF Restorable, Covered, Tools!_has_persisted_data
    <2>. QED BY <1>0, <1>1, <1>2, <2>1, <2>2, <2>3, <2>4, <2>5 DEF ToolInv
<1>. QED BY <1>2, <1>3, <1>5, <1>6, <1>7, <1>8

\* A tool reads the document and the reviewer tables in two reads.
LEMMA ReadStep ==
    ASSUME ToolInv, tool # Tools!Idle, Tools!_load_state \/ Tools!write_snapshot
    PROVE  ToolInv' /\ Tools!KeepsFinality
<1>0. /\ Covered(store) /\ \A s \in files \cup bak \cup reading : Covered(s)
      /\ tool \in ToolRecord /\ Covered(tool.loaded)
      /\ tool.task = "import" => Covered(tool.input)
      /\ tool.task # "backup" => ~online
      /\ tool.task \in {"import", "reset"} => Loaded
    BY DEF ToolInv
<1>1. UNCHANGED <<store, bak, replaced, online, reading>> /\ tool.task \in {"backup", "import", "reset"}
    BY DEF Tools!_load_state, Tools!write_snapshot, Tools!ToolUnchanged, Tools!At, Tools!Readers
<1>2. Tools!KeepsFinality /\ Covered(store)'
    BY <1>0, <1>1 DEF Tools!KeepsFinality, Covered, StoreRecords
<1>3. Covered(Tools!Portable(store)) /\ store \in StoreRecords
    BY <1>0, PortableIsCovered DEF Covered
<1>4. ASSUME Tools!_load_state, tool.step = "document" PROVE ToolInv'
    <2>. DEFINE l == [Tools!Portable(store) EXCEPT !.reviewers = Tools!NoReviewer, !.penalties = {}]
    <2>1. tool' = [tool EXCEPT !.step = "reviewers", !.loaded = l] /\ files' = files
        BY <1>4 DEF Tools!_load_state, Tools!At
    <2>2. Covered(l)
        BY <1>3 DEF Covered, StoreRecords, Tools!NoReviewer
    <2>. HIDE DEF l
    <2>3. tool' \in ToolRecord /\ tool'.step = "reviewers" /\ tool'.loaded = l
          /\ tool'.task = tool.task /\ tool'.input = tool.input
        BY <1>0, <2>1, <2>2 DEF ToolRecord, Covered
    <2>4. Loaded'
        BY <1>1, <2>3 DEF Loaded, l, Tools!Portable
    <2>. QED BY <1>0, <1>1, <1>2, <2>1, <2>2, <2>3, <2>4 DEF ToolInv, Tools!OriginalRecoverable
<1>5. ASSUME Tools!_load_state, tool.step = "reviewers" PROVE ToolInv'
    <2>. DEFINE l == [tool.loaded EXCEPT !.reviewers = store.reviewers, !.penalties = store.penalties]
    <2>1. tool' = [tool EXCEPT !.step = "file", !.loaded = l] /\ files' = files
        BY <1>5 DEF Tools!_load_state, Tools!At
    <2>2. Covered(l)
        BY <1>0, <1>3 DEF Covered, StoreRecords
    <2>a. tool.task \in {"import", "reset"} => l = Tools!Portable(store)
        BY <1>0, <1>3, <1>5 DEF Loaded, Tools!Portable, StoreRecords
    <2>. HIDE DEF l
    <2>3. tool' \in ToolRecord /\ tool'.step = "file" /\ tool'.loaded = l
          /\ tool'.task = tool.task /\ tool'.input = tool.input
        BY <1>0, <2>1, <2>2 DEF ToolRecord, Covered
    <2>4. tool.task \in {"import", "reset"} => Loaded'
        BY <1>1, <2>3, <2>a DEF Loaded, Tools!Portable
    <2>. QED BY <1>0, <1>1, <1>2, <2>1, <2>2, <2>3, <2>4 DEF ToolInv, Tools!OriginalRecoverable
<1>6. ASSUME Tools!write_snapshot PROVE ToolInv'
    <2>1. /\ tool.step = "file"
          /\ files' = IF Tools!SkipsFile THEN files ELSE files \cup {tool.loaded}
          /\ tool' = Tools!Idle \/ (tool' = [tool EXCEPT !.step = "save"] /\ tool.task # "backup")
        BY <1>6 DEF Tools!write_snapshot, Tools!At, Tools!Step
    <2>2. \A s \in files' : Covered(s)
        BY <1>0, <2>1
    <2>3. Tools!OriginalRecoverable'
        BY <1>1, <2>1 DEF ToolInv, Tools!OriginalRecoverable
    <2>4. CASE tool' = Tools!Idle
        BY <1>0, <1>1, <1>2, <2>2, <2>3, <2>4 DEF ToolInv
    <2>5. CASE tool' = [tool EXCEPT !.step = "save"] /\ tool.task # "backup"
        <3>1. tool.loaded = Tools!Portable(store)
            BY <1>0, <1>1, <2>1, <2>5 DEF Loaded
        <3>2. Tools!SkipsFile => tool.loaded = Tools!Empty
            BY <1>3, <3>1 DEF Tools!SkipsFile, Tools!_has_persisted_data, Tools!Portable, StoreRecords
        <3>3. Tools!Portable(store) \in files' \cup {Tools!Empty}
            BY <2>1, <3>1, <3>2
        <3>4. tool' \in ToolRecord /\ tool'.step = "save" /\ tool'.loaded = tool.loaded
              /\ tool'.task = tool.task /\ tool'.input = tool.input
            BY <1>0, <2>5 DEF ToolRecord
        <3>5. Loaded'
            BY <1>1, <3>3, <3>4 DEF Loaded, Tools!Portable
        <3>. QED BY <1>0, <1>1, <1>2, <2>2, <2>3, <3>4, <3>5 DEF ToolInv
    <2>. QED BY <2>1, <2>4, <2>5
<1>7. Tools!_load_state => tool.step \in {"document", "reviewers"}
    BY DEF Tools!_load_state, Tools!At
<1>. QED BY <1>2, <1>4, <1>5, <1>6, <1>7

\* The transaction of an import or a reset that replaces the document.
LEMMA ReplaceStep ==
    ASSUME ToolInv, tool # Tools!Idle, Tools!ImportDocument \/ Tools!ResetDocument
    PROVE  ToolInv' /\ Tools!KeepsFinality
<1>0. /\ Covered(store) /\ \A s \in files \cup bak \cup reading : Covered(s)
      /\ tool \in ToolRecord /\ Covered(tool.loaded)
      /\ tool.task = "import" => Covered(tool.input)
      /\ store \in StoreRecords
    BY DEF ToolInv, Covered
<1>1. /\ UNCHANGED <<bak, files, online, reading>> /\ tool.step = "save"
      /\ tool.task \in {"import", "reset"} /\ ~online /\ Loaded
    BY DEF Tools!ImportDocument, Tools!ResetDocument, Tools!SaveDocument, Tools!ToolUnchanged,
           Tools!At, ToolInv
<1>2. PICK r \in StoreRecords, next \in {"peers", "reset"} :
         /\ Tools!SaveDocument(r, next)
         /\ r.final <= Len(r.chain) \/ r.final = store.final
    <2>1. CASE Tools!ImportDocument
        <3>. DEFINE r == [tool.input EXCEPT !.peers = store.peers, !.access = store.access]
        <3>1. tool.task = "import" /\ Tools!SaveDocument(r, "peers")
            BY <2>1 DEF Tools!ImportDocument, Tools!At
        <3>2. r \in StoreRecords /\ r.final <= Len(r.chain)
            BY <1>0, <3>1 DEF Covered, StoreRecords
        <3>. QED BY <3>1, <3>2
    <2>2. CASE Tools!ResetDocument
        <3>. DEFINE r == [store EXCEPT !.chain = <<>>, !.records = {}]
        <3>1. Tools!SaveDocument(r, "reset")
            BY <2>2 DEF Tools!ResetDocument
        <3>2. <<>> \in Seq(ChainBlocks) /\ {} \in SUBSET Records
            OBVIOUS
        <3>3. r \in StoreRecords /\ r.final = store.final
            BY <1>0, <3>2 DEF StoreRecords
        <3>. QED BY <3>1, <3>3
    <2>. QED BY <2>1, <2>2
<1>3. CASE Tools!_save_sections(r) /\ tool' = [tool EXCEPT !.step = next]
           /\ replaced' = replaced \cup {Tools!Portable(store)}
    <2>1. Covered(store)' /\ Tools!KeepsFinality
        BY <1>0, <1>2, <1>3, SaveKeeps
    <2>2. Tools!Portable(store) \in files \cup {Tools!Empty}
        BY <1>1 DEF Loaded
    <2>3. Tools!OriginalRecoverable'
        BY <1>1, <1>3, <2>2 DEF ToolInv, Tools!OriginalRecoverable
    <2>4. tool' \in ToolRecord /\ tool'.step = next /\ tool'.loaded = tool.loaded
          /\ tool'.task = tool.task /\ tool'.input = tool.input
        BY <1>0, <1>3 DEF ToolRecord
    <2>5. Loaded'
        BY <2>4 DEF Loaded
    <2>. QED BY <1>0, <1>1, <2>1, <2>3, <2>4, <2>5 DEF ToolInv
<1>4. CASE tool' = Tools!Idle /\ UNCHANGED <<store, replaced>>
    BY <1>0, <1>1, <1>4 DEF ToolInv, Tools!OriginalRecoverable, Tools!KeepsFinality, Covered, StoreRecords
<1>. QED BY <1>2, <1>3, <1>4 DEF Tools!SaveDocument, Tools!Step

\* The later transactions of an import and of a reset.
LEMMA ImportStep ==
    ASSUME ToolInv, tool # Tools!Idle,
           Tools!_write_state_to_backend \/ Tools!check_storage_integrity \/ Tools!ResetDone
    PROVE  ToolInv' /\ Tools!KeepsFinality
<1>0. /\ Covered(store) /\ \A s \in files \cup bak \cup reading : Covered(s)
      /\ tool \in ToolRecord /\ Covered(tool.loaded)
      /\ tool.task = "import" => Covered(tool.input)
      /\ store \in StoreRecords /\ tool.input \in StoreRecords
    BY DEF ToolInv, Covered, ToolRecord
<1>1. UNCHANGED <<bak, files, online, reading, replaced>> /\ tool.task \in {"import", "reset"}
    BY DEF Tools!_write_state_to_backend, Tools!check_storage_integrity, Tools!ResetDone,
           Tools!ClearRecords, Tools!ImportTables, Tools!ToolUnchanged, Tools!At
<1>2. /\ store' \in StoreRecords /\ store'.chain = store.chain /\ store'.final = store.final
      /\ tool' = Tools!Idle \/ \E next \in {"clear", "states", "offenses", "check"} :
                                  tool' = [tool EXCEPT !.step = next]
    <2>1. CASE Tools!check_storage_integrity \/ Tools!ResetDone
        BY <1>0, <2>1 DEF Tools!check_storage_integrity, Tools!ResetDone
    <2>2. CASE Tools!_write_state_to_backend
        <3>1. PICK next \in {"clear", "states", "offenses", "check"} : tool' = [tool EXCEPT !.step = next]
            BY <2>2 DEF Tools!_write_state_to_backend, Tools!ClearRecords, Tools!ImportTables, Tools!Step
        <3>2. \/ store' = [store EXCEPT !.peers = tool.input.peers]
              \/ store' = [store EXCEPT !.reviewers = Tools!NoReviewer, !.penalties = {}]
              \/ store' = [store EXCEPT !.reviewers = tool.input.reviewers]
              \/ store' = [store EXCEPT !.penalties = @ \cup tool.input.penalties]
            BY <2>2 DEF Tools!_write_state_to_backend, Tools!ClearRecords, Tools!ImportTables
        <3>3. store' \in StoreRecords /\ store'.chain = store.chain /\ store'.final = store.final
            <4>1. CASE store' = [store EXCEPT !.peers = tool.input.peers]
                BY <1>0, <4>1 DEF StoreRecords
            <4>2. CASE store' = [store EXCEPT !.reviewers = Tools!NoReviewer, !.penalties = {}]
                BY <1>0, <4>2 DEF StoreRecords, Tools!NoReviewer
            <4>3. CASE store' = [store EXCEPT !.reviewers = tool.input.reviewers]
                BY <1>0, <4>3 DEF StoreRecords
            <4>4. CASE store' = [store EXCEPT !.penalties = @ \cup tool.input.penalties]
                BY <1>0, <4>4 DEF StoreRecords
            <4>. QED BY <3>2, <4>1, <4>2, <4>3, <4>4
        <3>. QED BY <3>1, <3>3
    <2>. QED BY <2>1, <2>2
<1>3. Covered(store)' /\ Tools!KeepsFinality
    BY <1>0, <1>2, SectionKeeps
<1>4. CASE tool' = Tools!Idle
    BY <1>0, <1>1, <1>3, <1>4 DEF ToolInv, Tools!OriginalRecoverable
<1>5. ASSUME NEW next \in {"clear", "states", "offenses", "check"}, tool' = [tool EXCEPT !.step = next]
      PROVE  ToolInv'
    <2>1. tool' \in ToolRecord /\ tool'.step = next /\ tool'.loaded = tool.loaded
          /\ tool'.task = tool.task /\ tool'.input = tool.input
        BY <1>0, <1>5 DEF ToolRecord
    <2>2. Loaded'
        BY <2>1 DEF Loaded
    <2>. QED BY <1>0, <1>1, <1>3, <2>1, <2>2 DEF ToolInv, Tools!OriginalRecoverable
<1>. QED BY <1>2, <1>3, <1>4, <1>5

LEMMA MigrateStep ==
    ASSUME Tools!ToolsAssumption, ToolInv, tool # Tools!Idle,
           Tools!MigrateDocument \/ Tools!_validate_migration \/ Tools!RestoreFromBackup
           \/ Tools!MigrationEnds
    PROVE  ToolInv' /\ Tools!KeepsFinality
<1>0. /\ Covered(store) /\ \A s \in files \cup bak \cup reading : Covered(s)
      /\ tool \in ToolRecord /\ Covered(tool.loaded)
      /\ store \in StoreRecords
    BY DEF ToolInv, Covered
<1>1. /\ UNCHANGED <<bak, files, online, reading, replaced>> /\ tool.task = "migrate" /\ ~online
      /\ Restorable
    BY DEF Tools!MigrateDocument, Tools!_validate_migration, Tools!RestoreFromBackup,
           Tools!MigrationEnds, Tools!ToolUnchanged, Tools!At, ToolInv
<1>2. ASSUME NEW next \in {"validate", "failed", "migrated", "restored"},
             tool' = [tool EXCEPT !.step = next],
             Covered(store)', Restorable'
      PROVE  ToolInv'
    <2>1. tool' \in ToolRecord /\ tool'.loaded = tool.loaded /\ tool'.task = tool.task
        BY <1>0, <1>2 DEF ToolRecord
    <2>. QED BY <1>0, <1>1, <1>2, <2>1 DEF ToolInv, Tools!OriginalRecoverable
<1>a. ASSUME store' = store PROVE Covered(store)' /\ Tools!KeepsFinality
    BY <1>0, <1>a DEF Covered, Tools!KeepsFinality, StoreRecords
<1>3. CASE Tools!MigrateDocument /\ store' # store
    <2>. DEFINE r == Tools!_normalize_snapshot(Source)
    <2>1. Tools!_save_sections(r) /\ tool' = [tool EXCEPT !.step = "validate"] /\ tool.step = "save"
        BY <1>3 DEF Tools!MigrateDocument, Tools!Step, Tools!At
    <2>2. r \in StoreRecords /\ r.final = store.final
        BY <1>0 DEF Tools!_normalize_snapshot, StoreRecords, Tools!ToolsAssumption, ChainBlocks
    <2>3. Covered(store)' /\ Tools!KeepsFinality
        BY <1>0, <2>1, <2>2, SaveKeeps
    <2>4. store'.final = store.final
        BY <1>0, <2>1, <2>2 DEF Tools!_save_sections, Tools!Merged, StoreRecords
    <2>5. Restorable'
        BY <1>0, <1>1, <2>1, <2>3, <2>4 DEF Restorable, Tools!KeepsFinality, ToolRecord,
                                            Tools!_has_persisted_data
    <2>. QED BY <1>2, <2>1, <2>3, <2>5
<1>4. CASE (Tools!MigrateDocument \/ Tools!_validate_migration) /\ store' = store
    <2>1. PICK next \in {"validate", "failed", "migrated"} : tool' = [tool EXCEPT !.step = next]
        BY <1>4 DEF Tools!MigrateDocument, Tools!_validate_migration, Tools!Step
    <2>2. tool.step \in {"save", "validate"}
        BY <1>4 DEF Tools!MigrateDocument, Tools!_validate_migration, Tools!At
    <2>3. Restorable'
        BY <1>0, <1>1, <1>4, <2>1, <2>2 DEF Restorable, ToolRecord, Tools!_has_persisted_data
    <2>. QED BY <1>2, <1>4, <1>a, <2>1, <2>3
<1>5. CASE Tools!RestoreFromBackup
    <2>1. tool.step = "failed" /\ tool' = [tool EXCEPT !.step = "restored"]
        BY <1>5 DEF Tools!RestoreFromBackup, Tools!Step, Tools!At
    <2>2. CASE Tools!_has_persisted_data(tool.before)
        <3>1. store' = tool.before
            BY <1>1, <1>5, <2>2 DEF Tools!RestoreFromBackup, Restorable
        <3>2. Covered(store)' /\ Tools!KeepsFinality
            BY <1>0, <1>1, <2>1, <3>1 DEF Restorable, Tools!KeepsFinality, Covered, StoreRecords
        <3>3. Restorable'
            BY <1>0, <1>1, <2>1 DEF Restorable, ToolRecord, Tools!_has_persisted_data
        <3>. QED BY <1>2, <2>1, <3>2, <3>3
    <2>3. CASE ~Tools!_has_persisted_data(tool.before)
        <3>1. store' = Tools!Empty
            BY <1>5, <2>3 DEF Tools!RestoreFromBackup
        <3>2. tool.before \in StoreRecords /\ tool.before.final = 0
            BY <1>1, <2>3 DEF Restorable, Covered, StoreRecords, Tools!_has_persisted_data, Tools!Empty
        <3>3. store.final = 0
            BY <1>1, <2>1, <3>2 DEF Restorable
        <3>4. store.chain \in Seq(ChainBlocks)
            BY <1>0 DEF StoreRecords
        <3>5. SubSeq(store.chain, 1, 0) = <<>> /\ SubSeq(<<>>, 1, 0) = <<>>
            BY <3>4
        <3>6. Covered(store)' /\ Tools!KeepsFinality
            BY <3>1, <3>3, <3>5, EmptyIsCovered DEF Tools!KeepsFinality, Tools!Empty, Covered, StoreRecords
        <3>7. Restorable'
            BY <1>0, <1>1, <2>1 DEF Restorable, ToolRecord, Tools!_has_persisted_data
        <3>. QED BY <1>2, <2>1, <3>6, <3>7
    <2>. QED BY <2>2, <2>3
<1>6. CASE Tools!MigrationEnds
    <2>1. store' = store /\ tool' = Tools!Idle
        BY <1>6 DEF Tools!MigrationEnds
    <2>. QED BY <1>0, <1>1, <1>a, <2>1 DEF ToolInv, Tools!OriginalRecoverable
<1>7. Tools!_validate_migration => store' = store
    BY DEF Tools!_validate_migration
<1>. QED BY <1>3, <1>4, <1>5, <1>6, <1>7

LEMMA ToolInvInit == ASSUME Tools!Init PROVE ToolInv
<1>1. store = Tools!Empty /\ files = {} /\ bak = {} /\ reading = {} /\ replaced = {} /\ tool = Tools!Idle
    BY DEF Tools!Init
<1>. QED BY <1>1, EmptyIsCovered DEF ToolInv, Tools!OriginalRecoverable

LEMMA ToolInvNext ==
    ASSUME Tools!ToolsAssumption, ToolInv, [Tools!Next]_(Tools!vars)
    PROVE  ToolInv' /\ Tools!KeepsFinality
<1>1. CASE UNCHANGED Tools!vars
    <2>1. UNCHANGED <<store, online, reading, files, bak, tool, replaced>>
        BY <1>1 DEF Tools!vars
    <2>2. ToolInv'
        BY <2>1 DEF ToolInv, Tools!OriginalRecoverable, Loaded, Restorable
    <2>3. Tools!KeepsFinality
        BY <2>1 DEF ToolInv, Covered, StoreRecords, Tools!KeepsFinality
    <2>. QED BY <2>2, <2>3
<1>. QED BY <1>1, NodeStep, BeginStepOfTool, ReadStep, ReplaceStep, ImportStep, MigrateStep
         DEF Tools!Next

LEMMA ToolInvariance == ASSUME Tools!ToolsAssumption PROVE Tools!Spec => []ToolInv
BY ToolInvInit, ToolInvNext, PTL DEF Tools!Spec

\* Whatever an import or a reset replaced, finished or stopped at any step and
\* tried again, lies in a snapshot file, unless it was empty.
THEOREM ReplacedIsInAFile ==
    ASSUME Tools!ToolsAssumption
    PROVE  Tools!Spec => []OriginalRecoverable
<1>1. ToolInv => OriginalRecoverable
    BY DEF ToolInv, Tools!OriginalRecoverable, OriginalRecoverable, Tools!Empty, Empty,
           Tools!NoReviewer, NoReviewer
<1>. QED BY <1>1, ToolInvariance, PTL

\* No writer of the database, the peer registry with an old copy, the tools and
\* the restoring of a backup included, gives up a finalized block.
THEOREM ToolsKeepFinality ==
    ASSUME Tools!ToolsAssumption
    PROVE  Tools!Spec => Tools!FinalityKept
<1>1. ToolInv /\ [Tools!Next]_(Tools!vars) => [Tools!KeepsFinality]_(Tools!vars)
    BY ToolInvNext
<1>. QED BY <1>1, ToolInvariance, PTL DEF Tools!Spec, Tools!FinalityKept
=============================================================================
