---------------------------- MODULE JsonDocument ----------------------------
(***************************************************************************)
(* The chain document of the JSON backend: one file, its backup, and the   *)
(* processes that update it.                                               *)
(*                                                                         *)
(* An update takes the lock of the operating system, reads the document    *)
(* (from the backup when the file does not parse), and replaces it: a      *)
(* readable file is first copied over the backup, the new document is      *)
(* written to a temporary file, and a rename puts it in place.  A process  *)
(* may be killed between any two of these steps, the rename may be         *)
(* refused, and the medium may damage the file while its backup is whole.  *)
(***************************************************************************)
EXTENDS Integers

CONSTANTS
    Procs,
    ABSENT, DAMAGED, NOBODY,    \* no file; a file that does not parse
    MaxSaves, MaxDamage, MaxCrashes     \* bounds

\* A document: which save it is, and how many blocks it has as finalized.
Documents == [save : 0 .. MaxSaves, final : 0 .. MaxSaves]
NoDocument == [save |-> 0, final |-> 0]

ASSUME JsonAssumption ==
    /\ {MaxSaves, MaxDamage, MaxCrashes} \subseteq Nat
    /\ ABSENT \notin Documents /\ DAMAGED \notin Documents /\ ABSENT # DAMAGED
    /\ NOBODY \notin Procs

VARIABLES
    main, backup,   \* the two files
    lock,           \* the process that holds the commit lock
    step,           \* process -> where its update stands
    pending,        \* process -> the document it will write
    recovered,      \* process -> whether it last read the backup
    acked,          \* the newest document whose update was answered
    damage, crashes

vars == <<main, backup, lock, step, pending, recovered, acked, damage, crashes>>

Init ==
    /\ main = ABSENT /\ backup = ABSENT
    /\ lock = NOBODY
    /\ step = [p \in Procs |-> "idle"]
    /\ pending = [p \in Procs |-> NoDocument]
    /\ recovered = [p \in Procs |-> FALSE]
    /\ acked = NoDocument
    /\ damage = 0 /\ crashes = 0

-----------------------------------------------------------------------------

Parses(file) == file \in Documents

\* What reading the document gives; a file that is not there is a new node's.
_load_json_document_with_backup ==
    IF main = ABSENT THEN NoDocument
    ELSE IF Parses(main) THEN main ELSE backup

Loadable == main = ABSENT \/ Parses(_load_json_document_with_backup)

Lock(p) == lock = NOBODY /\ lock' = p

\* The changes of an update: one more save, perhaps a block finalized.
atomic_update_blockchain_document(p) ==
    /\ step[p] = "idle" /\ Lock(p)
    /\ Loadable
    /\ LET durable == _load_json_document_with_backup
       IN /\ durable.save < MaxSaves
          /\ \E final \in {durable.final, durable.final + 1} :
                pending' = [pending EXCEPT ![p] = [save |-> durable.save + 1, final |-> final]]
    /\ recovered' = [recovered EXCEPT ![p] = main # ABSENT /\ ~Parses(main)]
    /\ step' = [step EXCEPT ![p] = "read"]
    /\ UNCHANGED <<main, backup, acked, damage, crashes>>

\* Bug: whatever the file holds becomes the backup.
BackUpAnything(p) == main # ABSENT

\* Bug: a backup that is there is never renewed.
BackUpOnce(p) == backup = ABSENT /\ main # ABSENT /\ ~recovered[p] /\ Parses(main)

\* The file is copied only when it was read, and parses once more.
BacksUp(p) == main # ABSENT /\ ~recovered[p] /\ Parses(main)

\* The copy is not atomic: a kill in its course leaves half a file.
_save_blockchain_document_locked(p) ==
    /\ step[p] = "read"
    /\ IF BacksUp(p)
       THEN backup' = DAMAGED /\ step' = [step EXCEPT ![p] = "copying"]
       ELSE step' = [step EXCEPT ![p] = "replace"] /\ UNCHANGED backup
    /\ UNCHANGED <<main, lock, pending, recovered, acked, damage, crashes>>

CopyEnds(p) ==
    /\ step[p] = "copying"
    /\ backup' = main
    /\ step' = [step EXCEPT ![p] = "replace"]
    /\ UNCHANGED <<main, lock, pending, recovered, acked, damage, crashes>>

Release(p) ==
    /\ lock' = IF lock = p THEN NOBODY ELSE lock
    /\ step' = [step EXCEPT ![p] = "idle"]

\* The rename; the first document is then copied to the backup.
_atomic_write_json_document(p) ==
    /\ step[p] = "replace"
    /\ main' = pending[p]
    /\ backup' = IF backup = ABSENT THEN DAMAGED ELSE backup
    /\ step' = [step EXCEPT ![p] = IF backup = ABSENT THEN "first" ELSE "done"]
    /\ recovered' = [recovered EXCEPT ![p] = FALSE]
    /\ UNCHANGED <<lock, pending, acked, damage, crashes>>

FirstCopyEnds(p) ==
    /\ step[p] = "first"
    /\ backup' = main
    /\ step' = [step EXCEPT ![p] = "done"]
    /\ UNCHANGED <<main, lock, pending, recovered, acked, damage, crashes>>

\* Three renames were refused: the temporary file is removed, the update raises.
ReplaceRefused(p) ==
    /\ step[p] = "replace"
    /\ Release(p)
    /\ UNCHANGED <<main, backup, pending, recovered, acked, damage, crashes>>

Answer(p) ==
    /\ step[p] = "done"
    /\ acked' = pending[p]
    /\ Release(p)
    /\ UNCHANGED <<main, backup, pending, recovered, damage, crashes>>

\* A kill: the operating system drops the lock, the new process knows nothing.
Crash(p) ==
    /\ step[p] # "idle" /\ crashes < MaxCrashes
    /\ Release(p)
    /\ recovered' = [recovered EXCEPT ![p] = FALSE]
    /\ crashes' = crashes + 1
    /\ UNCHANGED <<main, backup, pending, acked, damage>>

Damage ==
    /\ Parses(main) /\ Parses(backup) /\ damage < MaxDamage
    /\ main' = DAMAGED
    /\ damage' = damage + 1
    /\ UNCHANGED <<backup, lock, step, pending, recovered, acked, crashes>>

Next ==
    \/ \E p \in Procs :
          \/ atomic_update_blockchain_document(p)
          \/ _save_blockchain_document_locked(p)
          \/ CopyEnds(p) \/ _atomic_write_json_document(p) \/ FirstCopyEnds(p)
          \/ ReplaceRefused(p) \/ Answer(p) \/ Crash(p)
    \/ Damage

Spec == Init /\ [][Next]_vars

-----------------------------------------------------------------------------
(* Properties *)

\* Every variable has its type, and only the holder of the lock is at work.
TypeOK ==
    /\ {main, backup} \subseteq Documents \cup {ABSENT, DAMAGED}
    /\ lock \in Procs \cup {NOBODY}
    /\ step \in [Procs -> {"idle", "read", "copying", "replace", "first", "done"}]
    /\ pending \in [Procs -> Documents] /\ acked \in Documents
    /\ recovered \in [Procs -> BOOLEAN]
    /\ \A p \in Procs : step[p] # "idle" <=> lock = p
    /\ damage \in 0 .. MaxDamage /\ crashes \in 0 .. MaxCrashes

\* Kills at any step and damages of the file, one after the other and each
\* while the backup is whole, never leave both files unreadable.
AlwaysLoadable == Loadable

\* Each damage of the file costs one answered update at most, however kills and
\* recoveries mix, and without damage none is lost.
LosesOneSaveAtMost ==
    Loadable => _load_json_document_with_backup.save + damage >= acked.save

\* Without damage every change of the file is the next save on top of the last
\* one, so no process overwrites the update of another.
UpdatesInTurn ==
    main' # main /\ damage' = damage /\ Parses(main) =>
       main'.save = main.save + 1 /\ main'.final >= main.final
UpdatesFollow == [][UpdatesInTurn]_vars

\* JSON compatibility must also reject rollback
\* (docs/milestone-7-finality-safety-and-remediation-decision.md): no process
\* writes a document with fewer finalized blocks than an answered one had.
\* The code does not keep this: README, section 5.
FinalityNeverRollsBack == [][acked'.final >= acked.final]_vars
=============================================================================
