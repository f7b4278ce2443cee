--------------------------- MODULE ServedContent ---------------------------
(***************************************************************************)
(* What a node promises to those who download media from it.               *)
(***************************************************************************)
CONSTANT None       \* no bytes

VARIABLE served     \* hash -> the bytes last served for it, or None

\* No download serves bytes other than those of the hash, whatever storage did
\* to the file and whatever the records say (verify_content_download_operation,
\* download_content).
ServedMatches == \A h \in DOMAIN served : served[h] \in {"own", None}
=============================================================================
