---------------------------- MODULE MintEvidence ----------------------------
(***************************************************************************)
(* What the stored document promises to reporters and creators, whichever  *)
(* process writes it and whatever copy it writes from.  The operations are *)
(* those of AdmissionMint; here is only what can be seen in the document.  *)
(***************************************************************************)
EXTENDS Naturals, Sequences, SequencesExt, FiniteSets

CONSTANTS
    Submissions,
    Established,       \* reviewers with established status
    MinReports,        \* reports that quarantine (3 in the policy)
    MinEstablished     \* of them by established reviewers (1)

VARIABLE durable       \* the stored document

report_tally(reports) ==
    /\ Cardinality(reports) >= MinReports
    /\ Cardinality(reports \cap Established) >= MinEstablished

\* The submissions whose stored reports reach the threshold.
Withdrawn(d) == {s \in DOMAIN d.sub : report_tally(d.sub[s].reports)}

\* No save, commit or restart removes a stored report or a stored dispute.
KeepsEvidence ==
    /\ \A s \in DOMAIN durable.sub :
          durable.sub[s].reports \subseteq durable'.sub[s].reports
    /\ durable.disputes \subseteq durable'.disputes
EvidenceNeverErased == [][KeepsEvidence]_durable

MintPromise == INSTANCE MintLedger WITH
    chain <- durable.chain,
    final <- durable.final,
    withdrawn <- Withdrawn(durable)

\* The stored document implements the promise of MintLedger: at most one
\* block per submission whatever is retried or replayed, no block for a
\* withdrawn submission, no change of the finalized prefix.
MintIsPromised == MintPromise!Spec
=============================================================================
