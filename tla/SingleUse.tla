----------------------------- MODULE SingleUse ------------------------------
(***************************************************************************)
(* What a signed challenge is worth to the wallet that signed it.          *)
(***************************************************************************)
EXTENDS Naturals

VARIABLE accepted   \* challenge id -> how often its signature was accepted

\* A challenge authorises one operation, whatever a worker's rebinding puts
\* back into the dictionaries: the mark is on the object, not in the dictionary
\* (verify_signature and the other verify_* operations).
ChallengeUsedOnce == \A i \in DOMAIN accepted : accepted[i] <= 1
=============================================================================
