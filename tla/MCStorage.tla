----------------------------- MODULE MCStorage -----------------------------
(***************************************************************************)
(* Small instances of the storage components: the operators' tools on the  *)
(* SQLite database, the JSON document, the media store, and the isolated   *)
(* certification store. A behaviour explores one instance of one of them;  *)
(* the JSON document is the module extended, and stays as Init has it in   *)
(* the behaviours of the others, which issue no certificate, serve no      *)
(* bytes, and write and replace no state unless their component does.      *)
(***************************************************************************)
EXTENDS JsonDocument, IssuedEvidence, ServedContent, SnapshotFiles,
        Sequences, FiniteSets, TLC

CONSTANTS
    NoTip, anchor, mined

VARIABLES
    scenario,   \* the instance a behaviour explores
    \* StorageTools
    store, online, reading, reads, bak, tool, runs,
    \* ContentStore
    file, sidecar, memory, stored, result,
    \* AtomicCertification
    source, current, snapshots, claims, participation, owner,
    tip, selectedClaims, finality, prepared, call, answer

\* The JSON document a migration reads: a chain of the genesis block only.
JsonSource(records, native) ==
    [chain |-> <<"g">>, final |-> 0, attested |-> {}, records |-> records, native |-> native,
     peers |-> {}, reviewers |-> 0, penalties |-> {}, access |-> {}]

\* c1 and c2 certify one original under two submissions; c3 is another original
\* whose signatures reuse the nonce of c1; c4 and c5 are independent of all
\* others.  One reviewer votes on all of them: at one reference height for
\* c1..c4, at an earlier height of the same epoch for c5.
Certificates == {"c1", "c2", "c3", "c4", "c5"}
Originals == [c1 |-> "o1", c2 |-> "o1", c3 |-> "o3", c4 |-> "o4", c5 |-> "o5"]
CreatorOf == [c \in Certificates |-> "creator"]
SubmissionOf == [c1 |-> "s1", c2 |-> "s2", c3 |-> "s3", c4 |-> "s4", c5 |-> "s5"]
NonceOf == [c1 |-> 1, c2 |-> 2, c3 |-> 1, c4 |-> 4, c5 |-> 5]
ReviewedAt == [c \in Certificates |-> [reviewer |-> IF c = "c5" THEN 41 ELSE 43]]

\* Values of the constants that all scenarios share.
Genesis == "g"
Native == {"t1"}
Peers == {"p1"}
Penalties == {"o1"}
Quiesced == TRUE
BlockBytes == {"own", "other"}
Crashes == TRUE
Development == TRUE
VariantNonces == [v1 |-> <<>>, v2 |-> <<1>>, v3 |-> <<2>>]
Epoch == [h \in 40..44 |-> h \div 5]
Anchor == anchor

\* Imports and resets, stopped and repeated, of a node with accounts of its own.
Import == INSTANCE StorageTools WITH
    Blocks <- {"b1"}, Records <- {}, Accounts <- {"a1"},
    Source <- JsonSource({}, {"t1"}), MaxRuns <- 2, MaxReads <- 1
\* A running node with two blocks, its registry with an old copy, and one tool.
Node == INSTANCE StorageTools WITH
    Blocks <- {"b1", "b2"}, Records <- {"r1"}, Accounts <- {},
    Source <- JsonSource({"r1"}, {"t1"}), MaxRuns <- 1, MaxReads <- 1
\* Two migrations, the first perhaps stopped or refused.
Migrate == INSTANCE StorageTools WITH
    Blocks <- {"b1"}, Records <- {"r1"}, Accounts <- {},
    Source <- JsonSource({"r1"}, {"t1"}), MaxRuns <- 2, MaxReads <- 0
\* A picture and a text, with crashes between the two files of a store.
Media == INSTANCE ContentStore WITH
    Hashes <- {"picture", "essay"}, Texts <- {"essay"}, Damages <- FALSE
\* A picture whose file storage damages.
Damaged == INSTANCE ContentStore WITH
    Hashes <- {"picture"}, Texts <- {}, Damages <- TRUE
\* Two processes certify certificates that share a signed nonce.
Race == INSTANCE AtomicCertification WITH
    Stores <- {"p1", "p2"}, Certs <- {"c1", "c3"}, Ops <- {"op1", "op2"},
    Variants <- {"v1"}, EpochLimit <- 2, SourceHashes <- {mined},
    MaxRevision <- 0
\* Two processes certify one original under two submissions.
Twins == INSTANCE AtomicCertification WITH
    Stores <- {"p1", "p2"}, Certs <- {"c1", "c2"}, Ops <- {"op1", "op2"},
    Variants <- {"v1"}, EpochLimit <- 2, SourceHashes <- {mined},
    MaxRevision <- 0
\* Two processes certify with the last vote of one reviewer.
Quota == INSTANCE AtomicCertification WITH
    Stores <- {"p1", "p2"}, Certs <- {"c1", "c4"}, Ops <- {"op1", "op2"},
    Variants <- {"v1"}, EpochLimit <- 1, SourceHashes <- {mined},
    MaxRevision <- 0
\* Blocks are selected and finalized in any order.
Select == INSTANCE AtomicCertification WITH
    Stores <- {"p"}, Certs <- {"c1", "c4"}, Ops <- {"op1", "op4"},
    Variants <- {"v1"}, EpochLimit <- 2, SourceHashes <- {}, MaxRevision <- 1
\* The application mints beside the store, the store installs its snapshots.
History == INSTANCE AtomicCertification WITH
    Stores <- {"p"}, Certs <- {"c1"}, Ops <- {"op1"},
    Variants <- {"v1", "v2", "v3"}, EpochLimit <- 2, SourceHashes <- {mined},
    MaxRevision <- 2

ASSUME MediaAssumption == Media!ContentStoreAssumption
ASSUME DamagedAssumption == Damaged!ContentStoreAssumption
ASSUME ToolsAssumption ==
    Import!ToolsAssumption /\ Node!ToolsAssumption /\ Migrate!ToolsAssumption

\* The state of the components a scenario leaves out; no certificate is issued.
Off == "off"
OnlyStorageTools ==
    /\ Init
    /\ file = Off /\ sidecar = Off /\ memory = Off /\ stored = Off
    /\ result = Off /\ served = <<>> /\ source = Off /\ current = Off
    /\ snapshots = Off /\ certifications = {} /\ claims = Off
    /\ participation = Off /\ owner = Off /\ tip = Off /\ selectedClaims = Off
    /\ finality = Off /\ prepared = Off /\ call = Off /\ answer = Off
OnlyJsonDocument ==
    /\ store = Off /\ online = Off /\ reading = Off /\ reads = Off /\ files = {}
    /\ bak = Off /\ tool = Off /\ runs = Off /\ replaced = {} /\ file = Off
    /\ sidecar = Off /\ memory = Off /\ stored = Off /\ result = Off
    /\ served = <<>> /\ source = Off /\ current = Off /\ snapshots = Off
    /\ certifications = {} /\ claims = Off /\ participation = Off /\ owner = Off
    /\ tip = Off /\ selectedClaims = Off /\ finality = Off /\ prepared = Off
    /\ call = Off /\ answer = Off
OnlyContentStore ==
    /\ Init
    /\ online = Off /\ reading = Off /\ reads = Off /\ files = {} /\ bak = Off
    /\ tool = Off /\ runs = Off /\ replaced = {} /\ source = Off
    /\ current = Off /\ snapshots = Off /\ certifications = {} /\ claims = Off
    /\ participation = Off /\ owner = Off /\ tip = Off /\ selectedClaims = Off
    /\ finality = Off /\ prepared = Off /\ call = Off /\ answer = Off
OnlyAtomicCertification ==
    /\ Init
    /\ store = Off /\ online = Off /\ reading = Off /\ reads = Off /\ files = {}
    /\ bak = Off /\ tool = Off /\ runs = Off /\ replaced = {}
    /\ file = Off /\ sidecar = Off /\ memory = Off /\ stored = Off
    /\ result = Off /\ served = <<>>
othersStorageTools ==
    <<scenario, vars, file, sidecar, memory, stored, result, served, source, current, snapshots,
      certifications, claims, participation, owner, tip, selectedClaims,
      finality, prepared, call, answer>>
othersJsonDocument ==
    <<scenario, store, online, reading, reads, files, bak, tool, runs, replaced, file,
      sidecar, memory, stored, result, served, source, current, snapshots,
      certifications, claims, participation, owner, tip, selectedClaims,
      finality, prepared, call, answer>>
othersContentStore ==
    <<scenario, vars, online, reading, reads, files, bak, tool, runs, replaced, source, current,
      snapshots, certifications, claims, participation, owner, tip,
      selectedClaims, finality, prepared, call, answer>>
othersAtomicCertification ==
    <<scenario, vars, store, online, reading, reads, files, bak, tool, runs, replaced, file,
      sidecar, memory, stored, result, served>>

allVars ==
    <<scenario, vars, store, online, reading, reads, files, bak, tool, runs, replaced, file,
      sidecar, memory, stored, result, served, source, current, snapshots,
      certifications, claims, participation, owner, tip, selectedClaims,
      finality, prepared, call, answer>>

MCInit ==
    \/ scenario = "import" /\ Import!Init /\ OnlyStorageTools
    \/ scenario = "node" /\ Node!Init /\ OnlyStorageTools
    \/ scenario = "migrate" /\ Migrate!Init /\ OnlyStorageTools
    \/ scenario = "document" /\ Init /\ OnlyJsonDocument
    \/ scenario = "media" /\ Media!Init /\ OnlyContentStore
    \/ scenario = "damage" /\ Damaged!Init /\ OnlyContentStore
    \/ scenario = "race" /\ Race!Init /\ OnlyAtomicCertification
    \/ scenario = "twins" /\ Twins!Init /\ OnlyAtomicCertification
    \/ scenario = "quota" /\ Quota!Init /\ OnlyAtomicCertification
    \/ scenario = "select" /\ Select!Init /\ OnlyAtomicCertification
    \/ scenario = "history" /\ History!Init /\ OnlyAtomicCertification

MCNext ==
    \/ scenario = "import" /\ Import!Next /\ UNCHANGED othersStorageTools
    \/ scenario = "node" /\ Node!Next /\ UNCHANGED othersStorageTools
    \/ scenario = "migrate" /\ Migrate!Next /\ UNCHANGED othersStorageTools
    \/ scenario = "document" /\ Next /\ UNCHANGED othersJsonDocument
    \/ scenario = "media" /\ Media!Next /\ UNCHANGED othersContentStore
    \/ scenario = "damage" /\ Damaged!Next /\ UNCHANGED othersContentStore
    \/ scenario = "race" /\ Race!Next /\ UNCHANGED othersAtomicCertification
    \/ scenario = "twins" /\ Twins!Next /\ UNCHANGED othersAtomicCertification
    \/ scenario = "quota" /\ Quota!Next /\ UNCHANGED othersAtomicCertification
    \/ scenario = "select" /\ Select!Next /\ UNCHANGED othersAtomicCertification
    \/ scenario = "history" /\ History!Next /\ UNCHANGED othersAtomicCertification

MCSpec == MCInit /\ [][MCNext]_allVars

-----------------------------------------------------------------------------
(* Properties *)

\* Every store a writer or a tool leaves is well formed, only the holder of the
\* lock writes the document, media records keep their form, no certification row
\* lacks what it refers to.
AllTyped ==
    /\ scenario = "import" => Import!TypeOK
    /\ scenario = "node" => Node!TypeOK
    /\ scenario = "migrate" => Migrate!TypeOK
    /\ TypeOK
    /\ scenario = "media" => Media!TypeOK
    /\ scenario = "damage" => Damaged!TypeOK
    /\ scenario = "race" => Race!TypeOK
    /\ scenario = "twins" => Twins!TypeOK
    /\ scenario = "history" => History!TypeOK

\* No writer of the database, the registry with an old copy and every tool
\* included, gives up a block that is final.
FinalityKept ==
    [][ /\ scenario = "import" => Import!KeepsFinality
        /\ scenario = "node" => Node!KeepsFinality ]_allVars

\* An import that reaches its integrity check left exactly what the file holds
\* and the node's own accounts, however often it was stopped before.
ImportIsComplete == scenario = "import" => Import!ImportIsComplete

\* The reviewer projection never refers to a height that is not final, in no
\* half-finished import either.
ProjectionCovered == scenario = "import" => Import!ProjectionCovered

\* A migration that fails gives the database back as it found it.
FailedMigrationRestores ==
    scenario = "migrate" => Migrate!FailedMigrationRestores

\* A media record marked verified, in memory or stored, has its bytes: no crash,
\* failed save or legacy block makes it claim what is not there.
VerifiedHasBytes == scenario = "media" => Media!VerifiedHasBytes

\* A sidecar always describes the file beside it: a crash leaves a file without
\* sidecar, never the reverse.
SidecarDescribesFile == scenario = "media" => Media!SidecarDescribesFile

\* No store replaces a media file that is there.
FilesAreImmutable ==
    [][scenario = "media" => Media!KeepsFiles]_allVars

\* The full scan that recovery and backup run over the certification store
\* passes, whatever interleaved transactions and process deaths left.
Recoverable ==
    /\ scenario = "race" => Race!Recoverable
    /\ scenario = "twins" => Twins!Recoverable
    /\ scenario = "history" => History!Recoverable

\* A reviewer's reserved votes of one epoch never exceed the limit, although
\* certifications race for the last one.
EpochQuota == scenario = "quota" => Quota!EpochQuota

\* A retry of an operation that committed is never told that the evidence is in
\* conflict.
RetryIsNoConflict == scenario = "quota" => Quota!RetryIsNoConflict

\* A block below a retained finality proof stays selected, whatever tip a caller
\* with an old view selects.
FinalizedStaysSelected ==
    [][scenario = "select" => Select!KeepsFinalizedSelected]_allVars

=============================================================================
