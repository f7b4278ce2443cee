--------------------------- MODULE AdmissionMint ---------------------------
(***************************************************************************)
(* A submission's way from review to a block, on one durable document      *)
(* shared by several facades (Blockchain objects of separate processes).   *)
(*                                                                         *)
(* A facade works on its in-memory copy and writes it back whole, so any   *)
(* operation may start from a stale copy; reports, disputes and certified  *)
(* commits instead reread the document inside a storage transaction.  The  *)
(* module has every operation that moves a submission between pending,     *)
(* approved, queued, minted, rejected and quarantined, the mint queue, the *)
(* certified commit with its replay and its retry coordinator, community   *)
(* reports before and disputes after the mint, and restart.                *)
(*                                                                         *)
(* Votes are abstracted to what they decide (module ReviewVotes has the    *)
(* votes themselves); `bytes` says whether the stored media still verifies *)
(* against the frozen evidence.                                            *)
(***************************************************************************)
EXTENDS MintEvidence

CONSTANTS
    Facades,
    Reporters,         \* wallets of eligible reviewers
    Legacy,            \* submissions recorded before attestations existed
    ActivationHeight,  \* first block that needs frozen admission evidence
    Rank,              \* canonical_mint_order_key of each submission
    Creator,           \* the wallet that submitted each submission
    MaxRetries,        \* bound: attempts of one coordinator call
    Disturbances       \* bound: times the media of the store is disturbed

PolicyAssumption ==
    /\ Established \subseteq Reporters /\ Legacy \subseteq Submissions
    /\ IsFiniteSet(Reporters)
    /\ MinReports \in Nat \ {0} /\ MinEstablished \in Nat
    /\ ActivationHeight \in Nat \ {0}
    /\ MaxRetries \in Nat /\ Disturbances \in Nat
    /\ \A s, t \in Submissions : Rank[s] = Rank[t] => s = t

VARIABLES
    mem,       \* each facade's in-memory document
    retry,     \* each facade's coordinator call between selection and commit
    bytes,     \* whether the stored media of a submission verifies
    disturbed  \* how often it was disturbed

vars == <<durable, mem, retry, bytes, disturbed>>

-----------------------------------------------------------------------------
(* Documents *)

Statuses == {"absent", "pending", "approved", "queued", "minted",
             "rejected", "quarantined"}

Record == [status  : Statuses,
           current : BOOLEAN,   \* attestation_requirement is "required"
           cert    : BOOLEAN,   \* it has a certificate
           review  : {"open", "qualified", "rejected"},
           reports : SUBSET Reporters,
           reason  : {"none", "reports", "invalid", "review"},
           blocked : BOOLEAN]

Document == [sub : [Submissions -> Record], queue : SUBSET Submissions,
             chain : Seq(Submissions), final : Nat,
             disputes : SUBSET (Reporters \X Submissions)]

NewRecord(s, status) ==
    [status |-> status, current |-> s \notin Legacy, cert |-> FALSE,
     review |-> "open", reports |-> {}, reason |-> "none", blocked |-> FALSE]

InitialDocument ==
    [sub |-> [s \in Submissions |->
                 NewRecord(s, IF s \in Legacy THEN "pending" ELSE "absent")],
     queue |-> {}, chain |-> <<>>, final |-> 0, disputes |-> {}]

VALID_STATUS_TRANSITIONS ==
    [pending  |-> {"approved", "rejected", "quarantined"},
     approved |-> {"queued", "quarantined"},
     queued   |-> {"minted", "quarantined"}]

Open(status) == status \in DOMAIN VALID_STATUS_TRANSITIONS

Minted(d, s) == s \in ToSet(d.chain)

\* The next block needs frozen admission evidence.
Activated(d) == Len(d.chain) + 1 >= ActivationHeight

require_valid_certificate_for_submission(d, s) ==
    /\ d.sub[s].cert /\ bytes[s]
    /\ d.sub[s].current \/ ~Activated(d)

_quarantine_current_submission(d, s, why) ==
    [d EXCEPT !.sub[s].status = "quarantined", !.sub[s].reason = why,
              !.queue = @ \ {s}]

\* The mint queue's verdict on one queued submission.
mintable(d, s) ==
    /\ s \in d.queue
    /\ d.sub[s].status = "queued" /\ ~d.sub[s].blocked
    /\ require_valid_certificate_for_submission(d, s)

first_mintable(d) ==
    {s \in Submissions : mintable(d, s)
        /\ \A t \in Submissions : mintable(d, t) => Rank[s] <= Rank[t]}

add(d, s) == [d EXCEPT !.sub[s].status = "queued", !.queue = @ \cup {s}]

addable(d, s) ==
    /\ d.sub[s].status = "approved" /\ ~d.sub[s].blocked
    /\ require_valid_certificate_for_submission(d, s)
    /\ s \notin d.queue

\* On every load: the chain decides which submissions are minted.
reconcile_submission_canonical_state(d) ==
    [d EXCEPT
        !.sub = [s \in Submissions |->
            [d.sub[s] EXCEPT !.status =
                IF Minted(d, s) THEN "minted"
                ELSE IF @ = "minted" /\ d.sub[s].cert /\ ~d.sub[s].current
                     THEN IF s \in d.queue THEN "queued" ELSE "approved"
                     ELSE @]],
        !.queue = {s \in @ : ~Minted(d, s)}]

\* On a process's first load: queue entries without valid evidence go.
ReconcileQueue(d) ==
    LET stale   == {s \in d.queue : d.sub[s].current
                        /\ ~require_valid_certificate_for_submission(d, s)}
        demoted == {s \in d.queue : ~d.sub[s].current /\ Activated(d)}
    IN [d EXCEPT
           !.sub = [s \in Submissions |->
               IF s \in stale
               THEN [d.sub[s] EXCEPT !.status = "quarantined", !.reason = "invalid"]
               ELSE IF s \in demoted /\ d.sub[s].status = "queued"
                    THEN [d.sub[s] EXCEPT !.status = "approved"]
                    ELSE d.sub[s]],
           !.queue = @ \ (stale \cup demoted)]

-----------------------------------------------------------------------------
(* Whole-state saves *)

Finalized(d) == SubSeq(d.chain, 1, d.final)

\* Mutant: a snapshot is laid over the document unseen.
AnySnapshot(local, d) == IsPrefix(Finalized(d), local.chain)

\* A snapshot is refused when it would change report state or finality.
reject_stale_reports(local, d) ==
    /\ \A s \in Submissions :
        LET mine == local.sub[s]  committed == d.sub[s] IN
        \/ /\ mine.reports = {} /\ committed.reports = {}
           /\ mine.reason # "reports" /\ committed.reason # "reports"
        \/ /\ mine.reports = committed.reports
           /\ committed.reason = "reports" =>
                /\ mine.status = committed.status
                /\ mine.reason = committed.reason
                /\ s \notin local.queue
    /\ IsPrefix(Finalized(d), local.chain)

\* What the store holds after the snapshot: disputes and finality it keeps.
Overlay(local, d) == [local EXCEPT !.final = d.final, !.disputes = d.disputes]

\* Facade f has local in memory and saves it; a refusal leaves it there.
Save(f, local) ==
    /\ durable' = IF reject_stale_reports(local, durable)
                  THEN Overlay(local, durable) ELSE durable
    /\ mem' = [mem EXCEPT ![f] =
                 [local EXCEPT !.final = IF reject_stale_reports(local, durable)
                                         THEN durable.final ELSE @]]

Idle(f) == retry[f] = {}

Quiet == UNCHANGED <<retry, bytes, disturbed>>

-----------------------------------------------------------------------------
(* Operations on the in-memory copy *)

load_blockchain(f) ==
    /\ Idle(f)
    /\ mem' = [mem EXCEPT ![f] = reconcile_submission_canonical_state(durable)]
    /\ UNCHANGED durable /\ Quiet

\* A process stops, whatever it was doing, and starts again.
Restart(f) ==
    LET fresh == ReconcileQueue(reconcile_submission_canonical_state(durable)) IN
    /\ mem' = [mem EXCEPT ![f] = fresh]
    /\ durable' = IF fresh.queue # durable.queue
                  THEN Overlay(fresh, durable) ELSE durable
    /\ retry' = [retry EXCEPT ![f] = {}]
    /\ UNCHANGED <<bytes, disturbed>>

submit_signed_content_operation(f, s) ==
    LET d == reconcile_submission_canonical_state(durable) IN
    /\ Idle(f) /\ d.sub[s].status = "absent" /\ bytes[s]
    /\ Save(f, [d EXCEPT !.sub[s] = NewRecord(s, "pending")])
    /\ Quiet

\* A legacy record enters current review.
attach_current_admission_attestation_operation(f, s) ==
    LET d == reconcile_submission_canonical_state(durable) IN
    /\ Idle(f) /\ Open(d.sub[s].status) /\ ~d.sub[s].current /\ bytes[s]
    /\ Save(f, [d EXCEPT !.sub[s].status = "pending", !.sub[s].cert = FALSE,
                         !.sub[s].current = TRUE, !.sub[s].reason = "none",
                         !.sub[s].review = "open", !.queue = @ \ {s}])
    /\ Quiet

\* The vote that decides the review of s, as facade f sees it.
cast_submission_vote(f, s, outcome) ==
    LET d == mem[f] IN
    /\ Idle(f) /\ d.sub[s].status = "pending" /\ ~d.sub[s].cert
    /\ d.sub[s].review = "open" /\ (d.sub[s].current => bytes[s])
    /\ Save(f, [d EXCEPT !.sub[s].review = outcome])
    /\ Quiet

\* evaluate_submission_operation: freeze the certificate, approve, queue.
evaluate_submission_operation(f, s, passed) ==
    LET d == mem[f]  r == d.sub[s]
        approved == [d EXCEPT !.sub[s].status = "approved", !.sub[s].cert = TRUE]
        rejected == [d EXCEPT !.sub[s].status = "rejected"]
    IN
    /\ Idle(f) /\ r.status = "pending"
    /\ \/ /\ r.current
          /\ \/ ~bytes[s] /\ Save(f, _quarantine_current_submission(d, s, "invalid"))
             \/ /\ bytes[s] /\ r.review = "rejected"
                /\ Save(f, _quarantine_current_submission(d, s, "review"))
             \/ bytes[s] /\ r.review = "open" /\ Save(f, d)
             \/ /\ bytes[s] /\ r.review = "qualified"
                /\ IF addable(approved, s) THEN Save(f, add(approved, s))
                   ELSE mem' = [mem EXCEPT ![f] = approved] /\ UNCHANGED durable
       \/ /\ ~r.current
          /\ \/ ~passed /\ Save(f, rejected)
             \/ passed /\ r.review = "open" /\ Save(f, d)
             \/ passed /\ r.review = "rejected" /\ Save(f, rejected)
             \/ /\ passed /\ r.review = "qualified" /\ bytes[s]
                /\ IF reject_stale_reports(approved, durable)
                   THEN Save(f, IF addable(approved, s) THEN add(approved, s)
                                ELSE approved)
                   ELSE UNCHANGED <<durable, mem>>   \* rolled back in memory
    /\ Quiet

\* Reading the queue admits every approved submission; a blocked one among
\* them makes the call fail after those before it were admitted.
get_mint_queue_operation(f) ==
    LET d    == mem[f]
        able == {s \in Submissions : addable(d, s)}
        held == {s \in Submissions : d.sub[s].status = "approved"
                                        /\ d.sub[s].blocked /\ s \notin d.queue}
    IN /\ Idle(f) /\ able # {}
       /\ \E T \in (SUBSET able) \ {{}} :
            /\ held = {} => T = able
            /\ Save(f, [d EXCEPT
                   !.sub = [s \in Submissions |->
                       IF s \in T THEN [d.sub[s] EXCEPT !.status = "queued"]
                       ELSE d.sub[s]],
                   !.queue = @ \cup T])
       /\ Quiet

block_submission_minting_operation(f, s) ==
    /\ Idle(f) /\ mem[f].sub[s].status \notin {"absent", "minted"}
    /\ Save(f, [mem[f] EXCEPT !.sub[s].blocked = TRUE])
    /\ Quiet

unblock_submission_minting_operation(f, s) ==
    /\ Idle(f) /\ mem[f].sub[s].blocked
    /\ Save(f, [mem[f] EXCEPT !.sub[s].blocked = FALSE])
    /\ Quiet

\* Block every approved or queued submission that could not be minted now.
cleanup_bad_mint_queue_items(f) ==
    LET d   == mem[f]
        bad == {s \in Submissions : d.sub[s].status \in {"approved", "queued"}
                                        /\ ~mintable(d, s)}
    IN /\ Idle(f) /\ bad # {}
       /\ Save(f, [d EXCEPT !.sub = [s \in Submissions |->
                      [d.sub[s] EXCEPT !.blocked = @ \/ s \in bad]]])
       /\ Quiet

-----------------------------------------------------------------------------
(* Transactions on the durable document *)

\* A signed report of wallet w; the threshold quarantines.
record_community_report_operation(f, s, w) ==
    LET r == durable.sub[s]
        reported == [durable EXCEPT !.sub[s].reports = @ \cup {w}]
        result == IF report_tally(reported.sub[s].reports)
                  THEN _quarantine_current_submission(reported, s, "reports")
                  ELSE reported
    IN /\ Idle(f) /\ r.current /\ ~Minted(durable, s)
       /\ Open(r.status) \/ (r.status = "quarantined" /\ r.reason = "reports")
       /\ w \notin r.reports /\ w # Creator[s]
       /\ durable' = result
       /\ mem' = [mem EXCEPT ![f] = result]
       /\ Quiet

record_post_mint_dispute_operation(f, s, w) ==
    LET result == [durable EXCEPT !.disputes = @ \cup {<<w, s>>}] IN
    /\ Idle(f) /\ w # Creator[s] /\ <<w, s>> \notin durable.disputes
    /\ s \in ToSet(Finalized(durable))
    /\ durable' = result
    /\ mem' = [mem EXCEPT ![f] = result]
    /\ Quiet

\* The validators finalize the chain (module CanonicalFinality).
Finalize(f) ==
    /\ Idle(f) /\ durable.final < Len(durable.chain)
    /\ mem[f].chain = durable.chain
    /\ durable' = [durable EXCEPT !.final = Len(durable.chain)]
    /\ mem' = [mem EXCEPT ![f].final = Len(durable.chain)]
    /\ Quiet

\* Removal of a queue record whose evidence failed, in its own transaction.
_quarantine_stale_current_queue_record(d, s) ==
    IF d.sub[s].current /\ d.sub[s].status \notin {"absent", "minted"}
    THEN _quarantine_current_submission(d, s, "invalid") ELSE d

\* The evidence check of a commit, on the document it is given.
_prepare_certified_commit_request(d, s) ==
    /\ d.sub[s].status # "absent"
    /\ d.sub[s].current => ~report_tally(d.sub[s].reports)
    /\ require_valid_certificate_for_submission(d, s)

\* Append the block, settle, mark the submission minted, leave the queue.
_apply_certified_candidate_in_commit(d, s) ==
    [d EXCEPT !.chain = Append(@, s), !.sub[s].status = "minted", !.queue = @ \ {s}]

\* The result of a commit for its caller, the document and the memory after it.
Outcome(result, d, m) == [result |-> result, doc |-> d, memory |-> m]

\* Mutant: a retried commit is not looked up in the chain.
CommitWithoutReplay(d, m, s, head) ==
    IF ~_prepare_certified_commit_request(m, s) THEN Outcome("refused", d, m)
    ELSE LET e == _apply_certified_candidate_in_commit(d, s)
         IN Outcome("committed", e, e)

\* Commit s on stored document d, called with memory m and expected head.
commit_certified_submission(d, m, s, head) ==
    LET gone == _quarantine_stale_current_queue_record(d, s) IN
    IF ~_prepare_certified_commit_request(m, s)
    THEN IF m.sub[s].current /\ m.sub[s].status = "queued"
         THEN Outcome("refused", gone, gone)
         ELSE Outcome("refused", d, m)
    ELSE IF Minted(d, s) THEN Outcome("replayed", d, d)
    ELSE IF d.chain # head THEN Outcome("stale", d, m)
    ELSE IF ~_prepare_certified_commit_request(d, s)
    THEN IF d.sub[s].current THEN Outcome("refused", gone, gone)
         ELSE Outcome("refused", d, m)
    ELSE IF ~mintable(d, s) THEN Outcome("refused", d, m)
    ELSE LET e == _apply_certified_candidate_in_commit(d, s)
         IN Outcome("committed", e, e)

\* Queue an approved submission and save, commit the queued one, and save the
\* document just committed once more; a refused save ends the call with the queue
\* entry left in memory. One step: a process that comes between the first save and
\* the commit is one between get_mint_queue_operation and the commit of a queued
\* submission, one before the last save is one before any later save of f.
mint_submission_operation(f, s) ==
    LET approved == addable(mem[f], s)
        m == IF approved THEN add(mem[f], s) ELSE mem[f]
        d == IF approved THEN Overlay(m, durable) ELSE durable
        o == IF approved /\ ~reject_stale_reports(m, durable)
             THEN Outcome("refused", durable, m)
             ELSE commit_certified_submission(d, m, s, m.chain)
    IN /\ Idle(f) /\ mintable(m, s)
       /\ durable' = o.doc
       /\ mem' = [mem EXCEPT ![f] = o.memory]
       /\ Quiet

\* The coordinator rereads the store and selects the canonical first entry.
RetrySelect(f) ==
    \E s \in first_mintable(durable) :
        /\ \/ Idle(f) /\ retry' = [retry EXCEPT ![f] =
                  {[sub |-> s, head |-> durable.chain, left |-> MaxRetries, ready |-> TRUE]}]
           \/ \E call \in retry[f] : ~call.ready /\ retry' = [retry EXCEPT ![f] =
                  {[sub |-> s, head |-> durable.chain, left |-> call.left, ready |-> TRUE]}]
        /\ mem' = [mem EXCEPT ![f] = durable]
        /\ UNCHANGED <<durable, bytes, disturbed>>

\* Nothing is ready any more: the call returns.
RetryNone(f) ==
    /\ ~Idle(f) /\ \A call \in retry[f] : ~call.ready
    /\ first_mintable(durable) = {}
    /\ retry' = [retry EXCEPT ![f] = {}]
    /\ mem' = [mem EXCEPT ![f] = durable]
    /\ UNCHANGED <<durable, bytes, disturbed>>

\* Mutant: the attempts are not counted down to an end.
RetryForever(f) ==
    \E call \in retry[f] :
        /\ call.ready
        /\ retry' = [retry EXCEPT ![f] = {[call EXCEPT !.left = @ - 1, !.ready = FALSE]}]
        /\ UNCHANGED <<durable, mem, bytes, disturbed>>

\* One attempt meets a busy database: tried again while attempts are left.
RetryBusy(f) ==
    \E call \in retry[f] :
        /\ call.ready
        /\ retry' = [retry EXCEPT ![f] =
              IF call.left > 0 THEN {[call EXCEPT !.left = @ - 1, !.ready = FALSE]}
              ELSE {}]
        /\ UNCHANGED <<durable, mem, bytes, disturbed>>

\* One attempt.  A stale head is retried from a fresh selection, any other
\* failure ends the call; so does a commit whose answer is lost.
RetryCommit(f) ==
    \E call \in retry[f] :
        LET o == commit_certified_submission(durable, mem[f], call.sub, call.head)
            again == o.result = "stale" /\ call.left > 0
        IN /\ call.ready
           /\ durable' = o.doc
           /\ mem' = [mem EXCEPT ![f] = o.memory]
           /\ retry' = [retry EXCEPT ![f] =
                  IF again THEN {[call EXCEPT !.left = @ - 1, !.ready = FALSE]} ELSE {}]
           /\ UNCHANGED <<bytes, disturbed>>

\* The media of a submission stops verifying (a lost or altered file, an
\* evidence reference that is no longer canonical), or verifies again.
Disturb(s) ==
    /\ disturbed < Disturbances
    /\ disturbed' = disturbed + 1
    /\ bytes' = [bytes EXCEPT ![s] = ~@]
    /\ UNCHANGED <<durable, mem, retry>>

-----------------------------------------------------------------------------
Init ==
    /\ durable = InitialDocument
    /\ mem = [f \in Facades |-> InitialDocument]
    /\ retry = [f \in Facades |-> {}]
    /\ bytes = [s \in Submissions |-> TRUE]
    /\ disturbed = 0

Next ==
    \/ \E f \in Facades :
        \/ load_blockchain(f) \/ Restart(f) \/ Finalize(f)
        \/ get_mint_queue_operation(f) \/ cleanup_bad_mint_queue_items(f)
        \/ RetrySelect(f) \/ RetryNone(f)
        \/ RetryBusy(f) \/ RetryCommit(f)
        \/ \E s \in Submissions :
            \/ submit_signed_content_operation(f, s)
            \/ attach_current_admission_attestation_operation(f, s)
            \/ \E o \in {"qualified", "rejected"} : cast_submission_vote(f, s, o)
            \/ \E passed \in BOOLEAN : evaluate_submission_operation(f, s, passed)
            \/ block_submission_minting_operation(f, s)
            \/ unblock_submission_minting_operation(f, s)
            \/ mint_submission_operation(f, s)
            \/ \E w \in Reporters :
                \/ record_community_report_operation(f, s, w)
                \/ record_post_mint_dispute_operation(f, s, w)
    \/ \E s \in Submissions : Disturb(s)

Spec == Init /\ [][Next]_vars

-----------------------------------------------------------------------------
(* Properties *)

TypeOK ==
    /\ durable \in Document /\ mem \in [Facades -> Document]
    /\ bytes \in [Submissions -> BOOLEAN] /\ disturbed \in 0 .. Disturbances
    /\ \A f \in Facades : \A call \in retry[f] :
          call.sub \in Submissions /\ call.left \in 0 .. MaxRetries

\* Once the stored reports of a submission reach the threshold it stays
\* quarantined, out of the queue and out of the chain, whatever snapshot a
\* facade that has not seen the reports saves or tries to mint.
ReportedStaysOut ==
    \A s \in Submissions : report_tally(durable.sub[s].reports) =>
        /\ durable.sub[s].status = "quarantined"
        /\ s \notin durable.queue /\ ~Minted(durable, s)

\* Every block of the stored chain is backed by the stored record of its
\* submission: a qualified review, a certificate, and from the activation
\* height on the admission evidence of an attested submission.
BlocksAreEvidenced ==
    \A i \in DOMAIN durable.chain :
        LET r == durable.sub[durable.chain[i]] IN
        /\ r.status = "minted" /\ r.cert /\ r.review = "qualified"
        /\ i >= ActivationHeight => r.current

\* What report_status asserts of every stored submission: reports that meet
\* the threshold go with a quarantine for that reason.
\* The code does not keep this: README, section 5.
QuarantineNamesReports ==
    \A s \in Submissions : report_tally(durable.sub[s].reports) =>
        durable.sub[s].reason = "reports"

\* A submission with a qualified review, whose media was never disturbed and
\* whose reports are below the threshold, is not quarantined.
\* The code does not keep this: README, section 5.
QuarantineHasCause ==
    \A s \in Submissions :
        /\ durable.sub[s].status = "quarantined"
        /\ ~report_tally(durable.sub[s].reports)
        /\ disturbed = 0
        => durable.sub[s].review = "rejected"

\* The coordinator mints the canonical first entry of the queue.
\* The code does not keep this: README, section 5.
CoordinatorKeepsOrder ==
    [][\A f \in Facades : \A call \in retry[f] :
          call.ready /\ retry'[f] = {} /\ durable'.chain = Append(durable.chain, call.sub)
            => call.sub \in first_mintable(durable)]_vars
=============================================================================
