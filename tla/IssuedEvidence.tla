--------------------------- MODULE IssuedEvidence ---------------------------
(***************************************************************************)
(* What the certification store of AtomicCertification promises to those   *)
(* who sign: the binding of a certificate, and the certificates issued.    *)
(***************************************************************************)
CONSTANTS
    Original, Submission, Creator, Nonce,  \* certificate -> its binding
    VoteHeight     \* certificate -> (reviewer -> finalized reference height)

VARIABLE certifications  \* rows of certifications: operation, certificate, snapshot

Reviewers(c) == DOMAIN VoteHeight[c]

\* Signed evidence is used for one issuance only, in whatever order several
\* processes certify, retry and die, and whether or not the issued candidate was
\* ever selected: no two operations share an original, a submission, or a nonce
\* that the same wallet signed.
EvidenceUsedOnce ==
    \A x, y \in certifications : x.op # y.op =>
        /\ Original[x.cert] # Original[y.cert]
        /\ Submission[x.cert] # Submission[y.cert]
        /\ Nonce[x.cert] = Nonce[y.cert] =>
              /\ Creator[x.cert] # Creator[y.cert]
              /\ Reviewers(x.cert) \cap Reviewers(y.cert) = {}
=============================================================================
