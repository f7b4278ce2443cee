---------------------------- MODULE StorageTools ----------------------------
(***************************************************************************)
(* The operators' tools on a node's SQLite database: backup_storage,       *)
(* import_storage, migrate_json_to_sqlite and reset_state, beside the      *)
(* node's own writers.  A tool reads and writes the database in several    *)
(* transactions and may be stopped between any two of them; the peer       *)
(* registry of the node reads every section, and saves every section, in   *)
(* two transactions.                                                       *)
(*                                                                         *)
(* A store is a record: the chain, the length of its finalized prefix, the *)
(* attested blocks, the records of the other document sections, the native *)
(* transactions, the peers, the reviewer projection (the finalized height  *)
(* it refers to) with its penalties, and the node's own access accounts,   *)
(* which no snapshot carries.                                              *)
(***************************************************************************)
EXTENDS SnapshotFiles, Naturals, Sequences, FiniteSets, Functions

CONSTANTS Genesis, Blocks, Records, Native, Peers, Penalties, Accounts,
          Source,      \* the JSON document a migration reads
          Quiesced,    \* TRUE: a backup runs only while the node is stopped
          MaxRuns,     \* bound on the tool runs
          MaxReads     \* bound on the registrations

VARIABLES store, online, reading, reads, bak, tool, runs

\* What a JSON document may hold.
ToolsAssumption ==
    /\ Source \in [chain : Seq(Blocks \cup {Genesis}), final : Nat, attested : SUBSET Blocks,
                    records : SUBSET Records, native : SUBSET Native, peers : SUBSET Peers,
                    reviewers : Nat, penalties : SUBSET Penalties, access : SUBSET Accounts]
    /\ {MaxRuns, MaxReads} \subseteq Nat

vars == <<store, online, reading, reads, files, bak, tool, runs, replaced>>

Idle == [task |-> "idle"]

\* Only the portable sections count as data.
_has_persisted_data(s) == [s EXCEPT !.access = {}] # Empty

\* What a snapshot file carries of a store.
Portable(s) == [s EXCEPT !.access = {}]

-----------------------------------------------------------------------------
(* The guarded writers of the storage module.                              *)

\* A mutant: a stale replacement is taken as it is.
NoGuard(d, r) == TRUE

\* The finalized prefix stays, and no attested block leaves the chain.
_preserve_finality(d, r) ==
    /\ Len(r.chain) >= d.final
    /\ SubSeq(r.chain, 1, d.final) = SubSeq(d.chain, 1, d.final)
    /\ d.attested \cup r.attested \subseteq Range(r.chain)

\* The sections as they are stored: finality is the union of both.
Merged(d, r) == [r EXCEPT !.final = IF @ > d.final THEN @ ELSE d.final,
                          !.attested = @ \cup d.attested]

\* Every document section is replaced; the reviewer tables are not.
_save_sections(r) ==
    /\ _preserve_finality(store, r)
    /\ store' = [Merged(store, r) EXCEPT !.reviewers = store.reviewers,
                                         !.penalties = store.penalties]

-----------------------------------------------------------------------------
(* The running node.                                                       *)

NodeUnchanged == UNCHANGED <<online, files, bak, tool, runs, replaced>>

mint(b) == /\ online /\ b \notin Range(store.chain) /\ Len(store.chain) < 3
           /\ store' = [store EXCEPT !.chain = Append(@, b)]
           /\ UNCHANGED <<reading, reads>> /\ NodeUnchanged

submit_validator_finality_attestations ==
    /\ online /\ Len(store.chain) > 1
    /\ \/ store' = [store EXCEPT !.attested = @ \cup {store.chain[Len(store.chain)]}]
       \/ store' = [store EXCEPT !.attested = @ \cup {store.chain[Len(store.chain)]},
                                 !.final = Len(store.chain)]
    /\ UNCHANGED <<reading, reads>> /\ NodeUnchanged

\* Any other document section, through atomic_update_blockchain_document.
atomic_update_blockchain_document ==
    /\ online
    /\ \/ \E x \in Records : store' = [store EXCEPT !.records = @ \cup {x}]
       \/ \E x \in Native : store' = [store EXCEPT !.native = @ \cup {x}]
       \/ \E x \in Accounts : store' = [store EXCEPT !.access = @ \cup {x}]
    /\ UNCHANGED <<reading, reads>> /\ NodeUnchanged

\* The projection follows the finalized height; an offense adds a penalty.
transition_reviewer_state ==
    /\ online /\ store.final > 0
    /\ \/ store' = [store EXCEPT !.reviewers = store.final]
       \/ \E x \in Penalties : store' = [store EXCEPT !.penalties = @ \cup {x}]
    /\ UNCHANGED <<reading, reads>> /\ NodeUnchanged

\* save_peers reads all sections in one transaction ...
register_peer == /\ online /\ reading = {} /\ reads < MaxReads
                 /\ reading' = {store} /\ reads' = reads + 1
                 /\ UNCHANGED store /\ NodeUnchanged

\* ... and writes all of them back, the peers changed, in another.
save_peers ==
    /\ online
    /\ \E s \in reading, p \in Peers : _save_sections([s EXCEPT !.peers = @ \cup {p}])
    /\ reading' = {} /\ UNCHANGED reads /\ NodeUnchanged

\* A save that finds finality contradicted raises and changes nothing.
PeerSaveRefused ==
    /\ online
    /\ \E s \in reading : ~_preserve_finality(store, s)
    /\ reading' = {} /\ UNCHANGED <<store, reads>> /\ NodeUnchanged

\* A node that finds no chain writes genesis.
StartNode == /\ ~online /\ tool = Idle /\ online' = TRUE
             /\ store' = IF store.chain = <<>> THEN [store EXCEPT !.chain = <<Genesis>>] ELSE store
             /\ UNCHANGED <<reading, reads, files, bak, tool, runs, replaced>>
StopNode == /\ online /\ online' = FALSE /\ reading' = {}
            /\ UNCHANGED <<store, reads, files, bak, tool, runs, replaced>>

-----------------------------------------------------------------------------
(* Reading the state for a file: the document, the reviewer tables and the *)
(* peers are three reads.                                                  *)

ToolUnchanged == UNCHANGED <<online, reading, reads, runs>>

Begin(task, input) ==
    /\ tool = Idle /\ runs < MaxRuns /\ runs' = runs + 1
    /\ tool' = [task |-> task, step |-> "document", input |-> input,
                loaded |-> Empty, before |-> store]
    /\ UNCHANGED <<store, online, reading, reads, files, bak, replaced>>

At(task, step) == tool.task \in task /\ tool.step = step
Step(step) == tool' = [tool EXCEPT !.step = step]

Readers == {"backup", "import", "reset"}

_load_state ==
    \/ /\ At(Readers, "document")
       /\ tool' = [tool EXCEPT !.step = "reviewers",
                      !.loaded = [Portable(store) EXCEPT !.reviewers = NoReviewer,
                                                         !.penalties = {}]]
       /\ UNCHANGED <<store, files, bak, replaced>> /\ ToolUnchanged
    \/ /\ At(Readers, "reviewers")
       /\ tool' = [tool EXCEPT !.step = "file",
                      !.loaded = [@ EXCEPT !.reviewers = store.reviewers,
                                           !.penalties = store.penalties]]
       /\ UNCHANGED <<store, files, bak, replaced>> /\ ToolUnchanged

backup_storage == /\ ~online \/ ~Quiesced
                  /\ Begin("backup", Empty)

\* A mutant: an overwriting import does not write the file first.
NoBackup == At({"import"}, "file")

\* An import writes the file only of a target with data.
SkipsFile == At({"import"}, "file") /\ ~_has_persisted_data(tool.loaded)

\* The name has the second and the head of the chain: tools run, and are run
\* again after a stop, more than a second apart, so no file replaces another.
\* A stop while the file is written leaves one that does not parse, which
\* counts as none.
write_snapshot ==
    /\ At(Readers, "file")
    /\ files' = IF SkipsFile THEN files ELSE files \cup {tool.loaded}
    /\ IF tool.task = "backup" THEN tool' = Idle ELSE Step("save")
    /\ UNCHANGED <<store, bak, replaced>> /\ ToolUnchanged

-----------------------------------------------------------------------------
(* import_storage with --overwrite, and reset_state with --backup-first.   *)

\* Genesis of this network, and no state without a chain.
Importable(f) == f.chain # <<>> \/ f = Empty

import_storage == /\ ~online
                  /\ \E f \in files : Importable(f) /\ Begin("import", f)
reset_state == ~online /\ Begin("reset", Empty)

\* The document is one transaction; a conflict with finality ends the run.
SaveDocument(document, next) ==
    \/ /\ _save_sections(document)
       /\ Step(next) /\ replaced' = replaced \cup {Portable(store)}
       /\ UNCHANGED <<files, bak>> /\ ToolUnchanged
    \/ /\ ~_preserve_finality(store, document)
       /\ tool' = Idle
       /\ UNCHANGED <<store, files, bak, replaced>> /\ ToolUnchanged

ImportDocument ==
    /\ At({"import"}, "save")
    /\ SaveDocument([tool.input EXCEPT !.peers = store.peers, !.access = store.access], "peers")

ImportTables(step, s, next) ==
    /\ At({"import"}, step) /\ store' = s /\ Step(next)
    /\ UNCHANGED <<files, bak, replaced>> /\ ToolUnchanged

ClearRecords == ImportTables("clear", [store EXCEPT !.reviewers = NoReviewer, !.penalties = {}],
                             "states")

_write_state_to_backend ==
    \/ ImportTables("peers", [store EXCEPT !.peers = tool.input.peers], "clear")
    \/ ClearRecords
    \/ ImportTables("states", [store EXCEPT !.reviewers = tool.input.reviewers], "offenses")
    \/ ImportTables("offenses", [store EXCEPT !.penalties = @ \cup tool.input.penalties], "check")

check_storage_integrity ==
    /\ At({"import"}, "check") /\ tool' = Idle
    /\ UNCHANGED <<store, files, bak, replaced>> /\ ToolUnchanged

\* _empty_state names seven sections; every other section stays.
ResetDocument ==
    /\ At({"reset"}, "save")
    /\ SaveDocument([store EXCEPT !.chain = <<>>, !.records = {}], "reset")

ResetDone == /\ At({"reset"}, "reset") /\ tool' = Idle
             /\ UNCHANGED <<store, files, bak, replaced>> /\ ToolUnchanged

-----------------------------------------------------------------------------
(* migrate_json_to_sqlite with --overwrite.                                *)

_backup_existing_database == {store}

migrate_json_to_sqlite ==
    /\ ~online /\ tool = Idle /\ runs < MaxRuns /\ runs' = runs + 1
    /\ bak' = IF _has_persisted_data(store) THEN _backup_existing_database ELSE bak
    /\ tool' = [task |-> "migrate", step |-> "save", input |-> Source,
                loaded |-> Empty, before |-> store]
    /\ UNCHANGED <<store, online, reading, reads, files, replaced>>

\* The sections of _SECTION_DEFAULTS: no native transaction, no finality.
_normalize_snapshot(s) == [store EXCEPT !.chain = s.chain, !.records = s.records, !.peers = s.peers]

MigrateDocument ==
    /\ At({"migrate"}, "save")
    /\ \/ /\ _save_sections(_normalize_snapshot(Source)) /\ Step("validate")
       \/ /\ ~_preserve_finality(store, _normalize_snapshot(Source)) /\ Step("failed")
          /\ UNCHANGED store
    /\ UNCHANGED <<files, bak, replaced>> /\ ToolUnchanged

_validate_migration ==
    /\ At({"migrate"}, "validate")
    /\ Step("migrated") \/ Step("failed")
    /\ UNCHANGED <<store, files, bak, replaced>> /\ ToolUnchanged

\* The copy comes back, or the database that held nothing is removed.
RestoreFromBackup ==
    /\ At({"migrate"}, "failed") /\ Step("restored")
    /\ \/ /\ _has_persisted_data(tool.before) /\ \E s \in bak : store' = s
       \/ /\ ~_has_persisted_data(tool.before) /\ store' = Empty
    /\ UNCHANGED <<files, bak, replaced>> /\ ToolUnchanged

MigrationEnds ==
    /\ At({"migrate"}, "migrated") \/ At({"migrate"}, "restored")
    /\ tool' = Idle
    /\ UNCHANGED <<store, files, bak, replaced>> /\ ToolUnchanged

-----------------------------------------------------------------------------
\* The process of the tool ends before it is through.
Stop == /\ tool # Idle /\ tool' = Idle
        /\ UNCHANGED <<store, files, bak, replaced>> /\ ToolUnchanged

Init == /\ store = Empty /\ online = FALSE /\ reading = {} /\ reads = 0
        /\ files = {} /\ bak = {} /\ tool = Idle /\ runs = 0 /\ replaced = {}

Next == \/ \E b \in Blocks : mint(b)
        \/ submit_validator_finality_attestations
        \/ atomic_update_blockchain_document
        \/ transition_reviewer_state
        \/ register_peer \/ save_peers \/ PeerSaveRefused
        \/ StartNode \/ StopNode
        \/ backup_storage \/ import_storage \/ reset_state \/ migrate_json_to_sqlite
        \/ tool # Idle /\ ( _load_state \/ write_snapshot \/ ImportDocument
                           \/ _write_state_to_backend \/ check_storage_integrity
                           \/ ResetDocument \/ ResetDone \/ MigrateDocument
                           \/ _validate_migration \/ RestoreFromBackup \/ MigrationEnds )
        \/ Stop

Spec == Init /\ [][Next]_vars

-----------------------------------------------------------------------------
(* Properties *)

Stores == [chain : {<<>>} \cup UNION {[1..n -> Blocks \cup {Genesis}] : n \in 1..3},
           final : 0..3, attested : SUBSET Blocks, records : SUBSET Records,
           native : SUBSET Native, peers : SUBSET Peers, reviewers : 0..3,
           penalties : SUBSET Penalties, access : SUBSET Accounts]

\* Every store kept is one the guarded writers can leave: its finalized
\* prefix is in the chain and no attested block is missing.
WellFormed(s) == /\ s \in Stores /\ s.final <= Len(s.chain)
                 /\ s.attested \subseteq Range(s.chain)
TypeOK == /\ WellFormed(store) /\ \A s \in files \cup bak \cup reading : WellFormed(s)
          /\ runs \in 0..MaxRuns /\ online \in BOOLEAN

\* No writer of the database, the peer registry with an old copy and every
\* tool included, gives up a block that is final (_preserve_finality).
KeepsFinality ==
    /\ store'.final >= store.final
    /\ SubSeq(store'.chain, 1, store.final) = SubSeq(store.chain, 1, store.final)
FinalityKept == [][KeepsFinality]_vars

\* An import that gets to its integrity check left exactly what the file
\* holds, and the node's own accounts, whatever was there before and however
\* often it was stopped on the way.
ImportIsComplete ==
    tool # Idle /\ tool.task = "import" /\ tool.step = "check"
        => /\ \A part \in {"chain", "records", "native", "peers", "reviewers", "penalties"} :
                 store[part] = tool.input[part]
           /\ store.access = tool.before.access

\* A migration that fails gives the database back as it found it.
FailedMigrationRestores ==
    tool # Idle /\ tool.task = "migrate" /\ tool.step = "restored" => store = tool.before

\* The reviewer projection never refers to a height that is not final, in no
\* half-finished import either: the document goes first and finality stays.
ProjectionCovered == store.reviewers <= store.final

\* docs/storage-operations.md:171: a backup is a snapshot of the node's state.
\* The code does not keep this: README, section 5.
BackupIsOneState == \A f \in files : f.reviewers <= f.final

\* docs/storage-operations.md:333: the migration copies whole sections as they are.
\* The code does not keep this: README, section 5.
MigrationCopiesSections ==
    tool # Idle /\ tool.task = "migrate" /\ tool.step = "migrated"
        => Source.native \subseteq store.native

\* docs/clean-reset-runbook.md:128: the storage is recreated in an empty state.
\* The code does not keep this: README, section 5.
ResetLeavesEmptyState ==
    tool # Idle /\ tool.task = "reset" /\ tool.step = "reset"
        => [store EXCEPT !.peers = {}, !.access = {}] = Empty

\* docs/milestone-7-finality-durability-implementation.md:127: read and write
\* of every guarded writer are under one lock, so a registration loses nothing.
\* The code does not keep this: README, section 5.
RegistrationKeepsRecords ==
    [][ online /\ online' /\ reading # {} /\ reading' = {}
            => /\ store.records \subseteq store'.records
               /\ store.native \subseteq store'.native
               /\ Len(store.chain) <= Len(store'.chain) ]_vars
=============================================================================
