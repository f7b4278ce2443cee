--------------------------- MODULE SnapshotFiles ---------------------------
(***************************************************************************)
(* What the operators' tools promise about the state they replace.  A      *)
(* state is a record of the sections of the database.                      *)
(***************************************************************************)

VARIABLES
    files,      \* snapshot files written so far
    replaced    \* states that an import or a reset has replaced

\* A database without rows.
NoReviewer == 0
Empty == [chain |-> <<>>, final |-> 0, attested |-> {}, records |-> {}, native |-> {},
          peers |-> {}, reviewers |-> NoReviewer, penalties |-> {}, access |-> {}]

\* Whatever an import or a reset has replaced, finished or stopped half way and
\* tried again, lies in a snapshot file (the backups that import_storage and
\* reset_state write first).
OriginalRecoverable == \A s \in replaced : s = Empty \/ s \in files
=============================================================================
