------------------------- MODULE AdmissionMintProofs -------------------------
(***************************************************************************)
(* Proofs about AdmissionMint and the pages of LifecyclePage, for any      *)
(* facades, submissions, reporters and thresholds of the policy.           *)
(*                                                                         *)
(* Every document, the stored one and the one of each facade, is           *)
(* consistent in itself, however old it is.  A save may therefore replace  *)
(* the stored document by any of them; what keeps the promise to reporters *)
(* and the finalized prefix is the comparison reject_stale_reports makes.  *)
(*                                                                         *)
(* The pages are computed from a facade's own copy.  That copy is never    *)
(* ahead of the store in what is final or disputed, and never falls back,  *)
(* so a page may be late but shows nothing as final that is not.           *)
(*                                                                         *)
(* The last parts are about what admission waits for, each a component of  *)
(* its own taken as an instance: the page that tells a wallet whether it   *)
(* can vote (EligibilityPage) and the votes themselves (ReviewVotes).      *)
(***************************************************************************)
EXTENDS LifecyclePage, FiniteSetTheorems, SequenceTheorems, TLAPS

-----------------------------------------------------------------------------
(* The inductive invariant *)

\* A document is consistent: the chain has a submission once and the records
\* say so, what has a certificate was reviewed, what was reported often enough
\* is quarantined.
Consistent(d) ==
    /\ d \in Document
    /\ \A i, j \in DOMAIN d.chain : d.chain[i] = d.chain[j] => i = j
    /\ \A s \in Submissions :
        /\ Minted(d, s) <=> d.sub[s].status = "minted"
        /\ s \in d.queue => d.sub[s].status # "minted"
        /\ report_tally(d.sub[s].reports) => d.sub[s].status = "quarantined" /\ s \notin d.queue
        /\ d.sub[s].status \in {"approved", "queued", "minted"} =>
              d.sub[s].cert /\ d.sub[s].review = "qualified"
    /\ \A i \in DOMAIN d.chain : i >= ActivationHeight => d.sub[d.chain[i]].current

\* A stored document is consistent and final within its chain.
Stored(d) == Consistent(d) /\ d.final <= Len(d.chain)

Calls == [sub : Submissions, head : Seq(Submissions), left : 0 .. MaxRetries, ready : BOOLEAN]

MintInv ==
    /\ Stored(durable)
    /\ mem \in [Facades -> Document] /\ \A f \in Facades : Consistent(mem[f])
    /\ retry \in [Facades -> SUBSET Calls]
    /\ bytes \in [Submissions -> BOOLEAN] /\ disturbed \in 0 .. Disturbances

-----------------------------------------------------------------------------
(* Documents *)

\* A change of the records that keeps the chain keeps a document consistent, if
\* it mints and unmints nothing and stays within the rules for one record.
LEMMA RecordsChange ==
    ASSUME NEW d, Consistent(d), NEW e \in Document, e.chain = d.chain,
           \A s \in Submissions :
              /\ e.sub[s].status = "minted" <=> d.sub[s].status = "minted"
              /\ s \in e.queue => e.sub[s].status # "minted"
              /\ report_tally(e.sub[s].reports) =>
                    e.sub[s].status = "quarantined" /\ s \notin e.queue
              /\ e.sub[s].status \in {"approved", "queued", "minted"} =>
                    e.sub[s].cert /\ e.sub[s].review = "qualified"
              /\ d.sub[s].status = "minted" /\ d.sub[s].current => e.sub[s].current
    PROVE  Consistent(e)
<1>1. \A i \in DOMAIN d.chain : d.chain[i] \in Submissions /\ Minted(d, d.chain[i])
    BY ElementOfSeq, LenProperties DEF Consistent, Document, Minted, ToSet
<1>2. \A s \in Submissions : Minted(e, s) <=> Minted(d, s)
    BY DEF Minted
<1>3. \A i \in DOMAIN e.chain : i >= ActivationHeight => e.sub[e.chain[i]].current
    BY <1>1 DEF Consistent
<1>. QED BY <1>2, <1>3 DEF Consistent

LEMMA OneRecordReplaced ==
    ASSUME NEW g \in [Submissions -> Record], NEW s \in Submissions, NEW r \in Record
    PROVE  [g EXCEPT ![s] = r] \in [Submissions -> Record]
OBVIOUS

\* The same for a change of one record and its place in the queue.
LEMMA OneRecordChanges ==
    ASSUME NEW d, Consistent(d), NEW s \in Submissions, NEW r \in Record,
           NEW e \in Document, e.chain = d.chain, e.sub = [d.sub EXCEPT ![s] = r],
           e.queue \subseteq d.queue \cup {s},
           r.status = "minted" <=> d.sub[s].status = "minted",
           s \in e.queue => r.status # "minted",
           report_tally(r.reports) => r.status = "quarantined" /\ s \notin e.queue,
           r.status \in {"approved", "queued", "minted"} => r.cert /\ r.review = "qualified",
           d.sub[s].status = "minted" /\ d.sub[s].current => r.current
    PROVE  Consistent(e)
<1>1. \A t \in Submissions : e.sub[t] = IF t = s THEN r ELSE d.sub[t]
    BY DEF Consistent, Document
<1>2. ASSUME NEW t \in Submissions
      PROVE  /\ e.sub[t].status = "minted" <=> d.sub[t].status = "minted"
             /\ t \in e.queue => e.sub[t].status # "minted"
             /\ report_tally(e.sub[t].reports) =>
                   e.sub[t].status = "quarantined" /\ t \notin e.queue
             /\ e.sub[t].status \in {"approved", "queued", "minted"} =>
                   e.sub[t].cert /\ e.sub[t].review = "qualified"
             /\ d.sub[t].status = "minted" /\ d.sub[t].current => e.sub[t].current
    <2>1. CASE t = s
        BY <2>1, <1>1
    <2>2. CASE t # s
        <3>1. e.sub[t] = d.sub[t] /\ (t \in e.queue => t \in d.queue)
            BY <2>2, <1>1
        <3>. QED BY <3>1 DEF Consistent
    <2>. QED BY <2>1, <2>2
<1>. QED BY <1>2, RecordsChange

\* A consistent document is what the chain says: loading changes nothing in it.
LEMMA ReconcileIsIdentity ==
    ASSUME NEW d, Consistent(d)
    PROVE  reconcile_submission_canonical_state(d) = d
<1>. DEFINE subs == [s \in Submissions |->
                        [d.sub[s] EXCEPT !.status =
                            IF Minted(d, s) THEN "minted"
                            ELSE IF @ = "minted" /\ d.sub[s].cert /\ ~d.sub[s].current
                                 THEN IF s \in d.queue THEN "queued" ELSE "approved"
                                 ELSE @]]
            rest == {s \in d.queue : ~Minted(d, s)}
<1>1. reconcile_submission_canonical_state(d) = [d EXCEPT !.sub = subs, !.queue = rest]
    BY DEF reconcile_submission_canonical_state
<1>2. d \in Document /\ d.sub \in [Submissions -> Record] /\ d.queue \subseteq Submissions
    BY DEF Consistent, Document
<1>3. \A s \in Submissions : subs[s] = d.sub[s]
    <2>. SUFFICES ASSUME NEW s \in Submissions PROVE subs[s] = d.sub[s]
        OBVIOUS
    <2>1. subs[s] = [d.sub[s] EXCEPT !.status = d.sub[s].status]
        BY DEF Consistent
    <2>2. d.sub[s] \in Record
        BY <1>2
    <2>. QED BY <2>1, <2>2 DEF Record
<1>4. subs = d.sub
    BY <1>2, <1>3
<1>5. rest = d.queue
    BY <1>2 DEF Consistent
<1>. HIDE DEF subs, rest
<1>. QED BY <1>1, <1>2, <1>4, <1>5 DEF Document

\* What quarantines a submission that is not minted.
LEMMA QuarantineKeeps ==
    ASSUME NEW d, Consistent(d), NEW s \in Submissions, d.sub[s].status # "minted",
           NEW why \in {"none", "reports", "invalid", "review"}
    PROVE  /\ Consistent(_quarantine_current_submission(d, s, why))
           /\ _quarantine_current_submission(d, s, why).chain = d.chain
           /\ _quarantine_current_submission(d, s, why).final = d.final
           /\ _quarantine_current_submission(d, s, why).disputes = d.disputes
           /\ \A t \in Submissions :
                 _quarantine_current_submission(d, s, why).sub[t].reports = d.sub[t].reports
<1>. DEFINE e == _quarantine_current_submission(d, s, why)
            r == [d.sub[s] EXCEPT !.status = "quarantined", !.reason = why]
<1>1. d \in Document /\ d.sub \in [Submissions -> Record] /\ d.sub[s] \in Record
    BY DEF Consistent, Document
<1>2. /\ r \in Record /\ r.status = "quarantined" /\ r.reports = d.sub[s].reports
      /\ r.current = d.sub[s].current
    BY <1>1 DEF Record, Statuses
<1>3. e.sub = [d.sub EXCEPT ![s] = r]
    BY <1>1 DEF _quarantine_current_submission, Document
<1>4. /\ e.chain = d.chain /\ e.queue = d.queue \ {s} /\ e.final = d.final
      /\ e.disputes = d.disputes /\ e.sub \in [Submissions -> Record]
    BY <1>1, <1>2, <1>3 DEF _quarantine_current_submission, Document
<1>5. e \in Document
    BY <1>1, <1>4 DEF _quarantine_current_submission, Document
<1>. HIDE DEF e, r
<1>6. Consistent(e)
    BY <1>2, <1>3, <1>4, <1>5, OneRecordChanges
<1>7. \A t \in Submissions : e.sub[t].reports = d.sub[t].reports
    BY <1>1, <1>2, <1>3
<1>. QED BY <1>4, <1>6, <1>7 DEF e

\* A minted submission: the record, the queue and the chain change together.
LEMMA MintKeeps ==
    ASSUME NEW d, Consistent(d), NEW s \in Submissions, mintable(d, s), ~Minted(d, s)
    PROVE  /\ Consistent(_apply_certified_candidate_in_commit(d, s))
           /\ _apply_certified_candidate_in_commit(d, s).chain = Append(d.chain, s)
           /\ _apply_certified_candidate_in_commit(d, s).final = d.final
           /\ _apply_certified_candidate_in_commit(d, s).disputes = d.disputes
           /\ \A t \in Submissions :
                 _apply_certified_candidate_in_commit(d, s).sub[t].reports = d.sub[t].reports
<1>. DEFINE e == _apply_certified_candidate_in_commit(d, s)
            r == [d.sub[s] EXCEPT !.status = "minted"]
<1>1. d \in Document /\ d.sub \in [Submissions -> Record] /\ d.sub[s] \in Record
    BY DEF Consistent, Document
<1>2. d.chain \in Seq(Submissions) /\ Append(d.chain, s) \in Seq(Submissions)
    BY <1>1, AppendProperties DEF Document
<1>3. /\ r \in Record /\ r.status = "minted" /\ r.reports = d.sub[s].reports
      /\ r.current = d.sub[s].current /\ r.cert = d.sub[s].cert /\ r.review = d.sub[s].review
    BY <1>1 DEF Record, Statuses
<1>4. /\ e.sub = [d.sub EXCEPT ![s] = r] /\ e.chain = Append(d.chain, s)
      /\ e.queue = d.queue \ {s} /\ e.final = d.final /\ e.disputes = d.disputes
    BY <1>1 DEF _apply_certified_candidate_in_commit, Document
<1>5. e \in Document
    <2>1. e.sub \in [Submissions -> Record]
        BY <1>1, <1>3, <1>4
    <2>. QED BY <1>1, <1>2, <1>4, <2>1 DEF _apply_certified_candidate_in_commit, Document
<1>6. d.sub[s].status = "queued" /\ d.sub[s].cert /\ d.sub[s].review = "qualified"
      /\ (d.sub[s].current \/ ~Activated(d)) /\ ~report_tally(d.sub[s].reports)
    BY DEF mintable, Consistent, require_valid_certificate_for_submission
<1>. HIDE DEF e, r
<1>7. /\ Len(d.chain) \in Nat /\ DOMAIN d.chain = 1 .. Len(d.chain)
      /\ DOMAIN e.chain = 1 .. Len(d.chain) + 1
      /\ \A i \in DOMAIN d.chain : e.chain[i] = d.chain[i] /\ d.chain[i] \in Submissions
      /\ e.chain[Len(d.chain) + 1] = s
    <2>1. /\ Len(Append(d.chain, s)) = Len(d.chain) + 1
          /\ \A i \in 1 .. Len(d.chain) : Append(d.chain, s)[i] = d.chain[i]
          /\ Append(d.chain, s)[Len(d.chain) + 1] = s
        BY <1>2, AppendProperties
    <2>2. /\ Len(d.chain) \in Nat /\ DOMAIN d.chain = 1 .. Len(d.chain)
          /\ DOMAIN Append(d.chain, s) = 1 .. Len(Append(d.chain, s))
        BY <1>2, LenProperties
    <2>. QED BY <1>2, <1>4, <2>1, <2>2, ElementOfSeq
<1>8. \A t \in Submissions : Minted(e, t) <=> Minted(d, t) \/ t = s
    <2>1. \A t : t \in ToSet(e.chain) <=> t \in ToSet(d.chain) \/ t = s
        BY <1>7 DEF ToSet
    <2>. QED BY <2>1 DEF Minted
<1>9. \A t \in Submissions : e.sub[t] = IF t = s THEN r ELSE d.sub[t]
    BY <1>1, <1>4
<1>10. \A i, j \in DOMAIN e.chain : e.chain[i] = e.chain[j] => i = j
    <2>1. \A i \in DOMAIN d.chain : d.chain[i] # s
        BY DEF Minted, ToSet
    <2>. QED BY <1>7, <2>1 DEF Consistent
<1>11. ASSUME NEW t \in Submissions
       PROVE  /\ Minted(e, t) <=> e.sub[t].status = "minted"
              /\ t \in e.queue => e.sub[t].status # "minted"
              /\ report_tally(e.sub[t].reports) => e.sub[t].status = "quarantined" /\ t \notin e.queue
              /\ e.sub[t].status \in {"approved", "queued", "minted"} =>
                    e.sub[t].cert /\ e.sub[t].review = "qualified"
    <2>1. CASE t = s
        BY <2>1, <1>3, <1>4, <1>6, <1>8, <1>9
    <2>2. CASE t # s
        BY <2>2, <1>4, <1>8, <1>9 DEF Consistent
    <2>. QED BY <2>1, <2>2
<1>12. ASSUME NEW i \in DOMAIN e.chain, i >= ActivationHeight
       PROVE  e.sub[e.chain[i]].current
    <2>1. CASE i \in DOMAIN d.chain
        <3>1. e.chain[i] = d.chain[i] /\ d.chain[i] # s /\ d.chain[i] \in Submissions
            BY <2>1, <1>7 DEF Minted, ToSet
        <3>. QED BY <2>1, <3>1, <1>9, <1>12 DEF Consistent
    <2>2. CASE i = Len(d.chain) + 1
        <3>1. d.sub[s].current
            BY <2>2, <1>6, <1>12 DEF Activated
        <3>. QED BY <2>2, <3>1, <1>3, <1>7, <1>9
    <2>. QED BY <2>1, <2>2, <1>7
<1>13. \A t \in Submissions : e.sub[t].reports = d.sub[t].reports
    BY <1>3, <1>9
<1>14. Consistent(e)
    BY <1>5, <1>10, <1>11, <1>12 DEF Consistent
<1>. QED BY <1>4, <1>13, <1>14 DEF e

-----------------------------------------------------------------------------
(* The finalized prefix *)

\* What two sequences begin with is the same if they agree that far.
LEMMA FirstElements ==
    ASSUME NEW c \in Seq(Submissions), NEW e \in Seq(Submissions), NEW n \in Nat,
           n <= Len(c), n <= Len(e), \A i \in 1 .. n : e[i] = c[i]
    PROVE  SubSeq(e, 1, n) = SubSeq(c, 1, n)
<1>1. \A i \in 1 .. n : c[i] \in Submissions /\ e[i] \in Submissions
    BY ElementOfSeq, LenProperties
<1>2. /\ SubSeq(c, 1, n) \in Seq(Submissions) /\ Len(SubSeq(c, 1, n)) = n
      /\ \A i \in 1 .. n : SubSeq(c, 1, n)[i] = c[i]
    BY <1>1, SubSeqProperties
<1>3. /\ SubSeq(e, 1, n) \in Seq(Submissions) /\ Len(SubSeq(e, 1, n)) = n
      /\ \A i \in 1 .. n : SubSeq(e, 1, n)[i] = e[i]
    BY <1>1, SubSeqProperties
<1>. QED BY <1>2, <1>3, SeqEqual

LEMMA FinalizedPrefix ==
    ASSUME NEW d \in Document, d.final <= Len(d.chain)
    PROVE  /\ Len(Finalized(d)) = d.final
           /\ IsPrefix(Finalized(d), d.chain)
           /\ \A s \in Submissions, c \in Seq(Submissions) :
                 IsPrefix(Finalized(d), c) =>
                     d.final <= Len(c) /\ IsPrefix(Finalized(d), Append(c, s))
<1>. DEFINE F == Finalized(d)
<1>1. d.chain \in Seq(Submissions) /\ d.final \in Nat
    BY DEF Document
<1>2. \A i \in 1 .. d.final : d.chain[i] \in Submissions
    BY <1>1, ElementOfSeq, LenProperties
<1>3. F \in Seq(Submissions) /\ Len(F) = d.final
    BY <1>1, <1>2, SubSeqProperties DEF Finalized
<1>4. SubSeq(F, 1, Len(F)) = F
    BY <1>3, SubSeqFull
<1>5. IsPrefix(F, d.chain)
    BY <1>1, <1>3, <1>4 DEF IsPrefix, Finalized
<1>. HIDE DEF F
<1>6. ASSUME NEW s \in Submissions, NEW c \in Seq(Submissions), IsPrefix(F, c)
      PROVE  d.final <= Len(c) /\ IsPrefix(F, Append(c, s))
    <2>1. d.final <= Len(c) /\ SubSeq(c, 1, d.final) = F
        BY <1>3, <1>4, <1>6 DEF IsPrefix
    <2>2. /\ Append(c, s) \in Seq(Submissions) /\ Len(Append(c, s)) = Len(c) + 1
          /\ \A i \in 1 .. Len(c) : Append(c, s)[i] = c[i]
          /\ Len(c) \in Nat
        BY AppendProperties, LenProperties
    <2>3. SubSeq(Append(c, s), 1, d.final) = SubSeq(c, 1, d.final)
        <3>. DEFINE e == Append(c, s)
        <3>1. /\ e \in Seq(Submissions) /\ d.final \in Nat /\ d.final <= Len(e)
              /\ \A i \in 1 .. d.final : e[i] = c[i]
            BY <2>1, <2>2, <1>1
        <3>. HIDE DEF e
        <3>. QED BY <3>1, <2>1, FirstElements DEF e
    <2>. QED BY <2>1, <2>2, <2>3, <1>1, <1>3, <1>4 DEF IsPrefix
<1>. QED BY <1>3, <1>5, <1>6 DEF F

-----------------------------------------------------------------------------
(* What may replace the stored document *)

\* Document e takes the place of d: consistent, with the reports, the disputes
\* and the finalized prefix of d.
Replaces(d, e) ==
    /\ Consistent(e) /\ e.final = d.final /\ e.disputes = d.disputes
    /\ \A s \in Submissions : e.sub[s].reports = d.sub[s].reports
    /\ IsPrefix(Finalized(d), e.chain)

LEMMA ReplacedIsStored ==
    ASSUME NEW d, NEW e, Stored(d), Replaces(d, e)
    PROVE  Stored(e) /\ Finalized(e) = Finalized(d)
<1>1. d \in Document /\ e \in Document /\ e.chain \in Seq(Submissions) /\ d.final \in Nat
    BY DEF Stored, Replaces, Consistent, Document
<1>2. Len(Finalized(d)) = d.final /\ SubSeq(Finalized(d), 1, d.final) = Finalized(d)
    <2>1. Len(Finalized(d)) = d.final /\ IsPrefix(Finalized(d), d.chain)
        BY <1>1, FinalizedPrefix DEF Stored
    <2>. QED BY <2>1 DEF IsPrefix, Finalized
<1>3. d.final <= Len(e.chain) /\ Finalized(d) = SubSeq(e.chain, 1, d.final)
    BY <1>2 DEF Replaces, IsPrefix
<1>. QED BY <1>3 DEF Stored, Replaces, Finalized

LEMMA ReplacesIsTransitive ==
    ASSUME NEW d, NEW e, NEW g, Stored(d), Replaces(d, e), Replaces(e, g)
    PROVE  Replaces(d, g)
<1>1. Finalized(e) = Finalized(d)
    BY ReplacedIsStored
<1>. QED BY <1>1 DEF Replaces

\* Consistency says nothing of finality and of disputes.
LEMMA FinalityIsFree ==
    ASSUME NEW d, Consistent(d), NEW n \in Nat, NEW x \in SUBSET (Reporters \X Submissions)
    PROVE  /\ Consistent([d EXCEPT !.final = n])
           /\ Consistent([d EXCEPT !.disputes = x])
           /\ Consistent([d EXCEPT !.final = n, !.disputes = x])
<1>. DEFINE e1 == [d EXCEPT !.final = n]
            e2 == [d EXCEPT !.disputes = x]
            e3 == [d EXCEPT !.final = n, !.disputes = x]
<1>1. d \in Document
    BY DEF Consistent
<1>2. e1 \in Document /\ e2 \in Document /\ e3 \in Document
    BY <1>1 DEF Document
<1>3. /\ e1.chain = d.chain /\ e1.sub = d.sub /\ e1.queue = d.queue
      /\ e2.chain = d.chain /\ e2.sub = d.sub /\ e2.queue = d.queue
      /\ e3.chain = d.chain /\ e3.sub = d.sub /\ e3.queue = d.queue
    BY <1>1 DEF Document
<1>. HIDE DEF e1, e2, e3
<1>4. \A e \in {e1, e2, e3} : Consistent(e)
    BY <1>2, <1>3 DEF Consistent, Minted
<1>. QED BY <1>4 DEF e1, e2, e3

\* A save that is accepted replaces the document; one that is not changes nothing.
LEMMA AcceptedReplaces ==
    ASSUME NEW d, Stored(d), NEW local, Consistent(local), reject_stale_reports(local, d)
    PROVE  Replaces(d, Overlay(local, d))
<1>. DEFINE e == Overlay(local, d)
<1>1. /\ d \in Document /\ local \in Document
      /\ d.final \in Nat /\ d.disputes \in SUBSET (Reporters \X Submissions)
    BY DEF Stored, Consistent, Document
<1>2. Consistent(e)
    BY <1>1, FinalityIsFree DEF Overlay
<1>3. /\ e.final = d.final /\ e.disputes = d.disputes /\ e.sub = local.sub
      /\ e.chain = local.chain
    BY <1>1 DEF Overlay, Document
<1>4. \A s \in Submissions : local.sub[s].reports = d.sub[s].reports
    BY DEF reject_stale_reports
<1>5. IsPrefix(Finalized(d), local.chain)
    BY DEF reject_stale_reports
<1>. HIDE DEF e
<1>. QED BY <1>2, <1>3, <1>4, <1>5 DEF Replaces, e

LEMMA NothingReplaces ==
    ASSUME NEW d, Stored(d)
    PROVE  Replaces(d, d)
<1>1. IsPrefix(Finalized(d), d.chain)
    BY FinalizedPrefix DEF Stored, Consistent
<1>. QED BY <1>1 DEF Replaces, Stored

\* Whatever a certified commit answers, with an old memory and any expected head.
LEMMA CommitReplaces ==
    ASSUME NEW d, Stored(d), NEW m, Consistent(m), NEW s \in Submissions, NEW head
    PROVE  /\ Replaces(d, commit_certified_submission(d, m, s, head).doc)
           /\ Consistent(commit_certified_submission(d, m, s, head).memory)
<1>. DEFINE gone == _quarantine_stale_current_queue_record(d, s)
            e == _apply_certified_candidate_in_commit(d, s)
            o == commit_certified_submission(d, m, s, head)
<1>1. d \in Document /\ d.chain \in Seq(Submissions) /\ Replaces(d, d) /\ Consistent(d)
    BY NothingReplaces DEF Stored, Consistent, Document
<1>2. \A c \in Seq(Submissions) : c = d.chain => IsPrefix(Finalized(d), c)
    BY <1>1, FinalizedPrefix DEF Stored
<1>3. Replaces(d, gone) /\ Consistent(gone)
    <2>1. CASE d.sub[s].current /\ d.sub[s].status \notin {"absent", "minted"}
        <3>. DEFINE q == _quarantine_current_submission(d, s, "invalid")
        <3>1. gone = q
            BY <2>1 DEF _quarantine_stale_current_queue_record
        <3>2. /\ Consistent(q) /\ q.chain = d.chain /\ q.final = d.final
              /\ q.disputes = d.disputes
              /\ \A t \in Submissions : q.sub[t].reports = d.sub[t].reports
            BY <1>1, <2>1, QuarantineKeeps
        <3>. HIDE DEF q
        <3>. QED BY <1>1, <1>2, <3>1, <3>2 DEF Replaces
    <2>2. CASE ~(d.sub[s].current /\ d.sub[s].status \notin {"absent", "minted"})
        BY <1>1, <2>2 DEF _quarantine_stale_current_queue_record
    <2>. QED BY <2>1, <2>2
<1>4. ASSUME mintable(d, s), ~Minted(d, s)
      PROVE  Replaces(d, e) /\ Consistent(e)
    <2>1. /\ Consistent(e) /\ e.chain = Append(d.chain, s) /\ e.final = d.final
          /\ e.disputes = d.disputes
          /\ \A t \in Submissions : e.sub[t].reports = d.sub[t].reports
        BY <1>1, <1>4, MintKeeps
    <2>2. IsPrefix(Finalized(d), d.chain) /\ IsPrefix(Finalized(d), Append(d.chain, s))
        BY <1>1, FinalizedPrefix DEF Stored
    <2>. HIDE DEF e
    <2>. QED BY <2>1, <2>2 DEF Replaces
<1>. HIDE DEF gone, e
<1>5. \/ o.doc = d /\ o.memory = m
      \/ o.doc = d /\ o.memory = d
      \/ o.doc = gone /\ o.memory = gone
      \/ o.doc = e /\ o.memory = e /\ mintable(d, s) /\ ~Minted(d, s)
    BY DEF commit_certified_submission, Outcome, gone, e
<1>. QED BY <1>1, <1>3, <1>4, <1>5 DEF o

-----------------------------------------------------------------------------
(* The steps *)

\* What a step leaves is invariant if the new document and the memory of the
\* facade that took the step are.
LEMMA StepKeeps ==
    ASSUME MintInv, NEW f \in Facades, NEW m, Consistent(m), mem' = [mem EXCEPT ![f] = m],
           Stored(durable'), retry' \in [Facades -> SUBSET Calls], UNCHANGED <<bytes, disturbed>>
    PROVE  MintInv'
<1>1. m \in Document
    BY DEF Consistent
<1>2. mem' \in [Facades -> Document] /\ \A g \in Facades : Consistent(mem'[g])
    BY <1>1 DEF MintInv
<1>. QED BY <1>2 DEF MintInv

\* A facade with a consistent document in memory saves it.
LEMMA SaveKeeps ==
    ASSUME MintInv, NEW f \in Facades, NEW local, Consistent(local), Save(f, local), Quiet
    PROVE  MintInv' /\ Replaces(durable, durable')
<1>. DEFINE ok == reject_stale_reports(local, durable)
            m == [local EXCEPT !.final = IF ok THEN durable.final ELSE @]
<1>1. Stored(durable) /\ durable.final \in Nat /\ local.final \in Nat
    BY DEF MintInv, Stored, Consistent, Document
<1>2. Replaces(durable, durable')
    <2>1. CASE ok
        BY <1>1, <2>1, AcceptedReplaces DEF Save
    <2>2. CASE ~ok
        BY <1>1, <2>2, NothingReplaces DEF Save
    <2>. QED BY <2>1, <2>2
<1>3. Consistent(m)
    <2>1. m = [local EXCEPT !.final = IF ok THEN durable.final ELSE local.final]
        OBVIOUS
    <2>. HIDE DEF ok
    <2>2. (IF ok THEN durable.final ELSE local.final) \in Nat
        BY <1>1
    <2>. QED BY <2>1, <2>2, FinalityIsFree
<1>4. mem' = [mem EXCEPT ![f] = m]
    BY DEF Save
<1>5. retry' \in [Facades -> SUBSET Calls] /\ UNCHANGED <<bytes, disturbed>>
    BY DEF MintInv, Quiet
<1>. HIDE DEF m
<1>6. Stored(durable')
    BY <1>1, <1>2, ReplacedIsStored
<1>. QED BY <1>2, <1>3, <1>4, <1>5, <1>6, StepKeeps

LEMMA NoReportsNoTally ==
    ASSUME PolicyAssumption
    PROVE  ~report_tally({})
<1>1. Cardinality({}) = 0
    BY FS_EmptySet
<1>. QED BY <1>1 DEF PolicyAssumption, report_tally

\* What an invariant state has of a facade's memory and of a loaded document.
LEMMA DocumentsAreConsistent ==
    ASSUME MintInv
    PROVE  /\ Stored(durable) /\ Consistent(durable) /\ Replaces(durable, durable)
           /\ reconcile_submission_canonical_state(durable) = durable
           /\ \A f \in Facades : Consistent(mem[f])
<1>1. Stored(durable) /\ Consistent(durable) /\ \A f \in Facades : Consistent(mem[f])
    BY DEF MintInv, Stored
<1>. QED BY <1>1, NothingReplaces, ReconcileIsIdentity

LEMMA LoadStep ==
    ASSUME MintInv, NEW f \in Facades, load_blockchain(f)
    PROVE  MintInv' /\ Replaces(durable, durable')
<1>1. /\ mem' = [mem EXCEPT ![f] = durable] /\ durable' = durable
      /\ retry' \in [Facades -> SUBSET Calls] /\ UNCHANGED <<bytes, disturbed>>
    BY DocumentsAreConsistent DEF load_blockchain, Quiet, MintInv
<1>. QED BY <1>1, DocumentsAreConsistent, StepKeeps

\* The check of a first load leaves what is reported, disputed, final or minted.
LEMMA ReconcileQueueKeeps ==
    ASSUME NEW d, Stored(d)
    PROVE  Replaces(d, ReconcileQueue(d))
<1>. DEFINE stale   == {s \in d.queue : d.sub[s].current
                            /\ ~require_valid_certificate_for_submission(d, s)}
            demoted == {s \in d.queue : ~d.sub[s].current /\ Activated(d)}
            subs == [s \in Submissions |->
                        IF s \in stale
                        THEN [d.sub[s] EXCEPT !.status = "quarantined", !.reason = "invalid"]
                        ELSE IF s \in demoted /\ d.sub[s].status = "queued"
                             THEN [d.sub[s] EXCEPT !.status = "approved"]
                             ELSE d.sub[s]]
            e == ReconcileQueue(d)
<1>1. /\ Consistent(d) /\ d \in Document /\ d.sub \in [Submissions -> Record]
      /\ d.queue \subseteq Submissions
    BY DEF Stored, Consistent, Document
<1>2. stale \subseteq d.queue /\ demoted \subseteq d.queue
    OBVIOUS
<1>3. e = [d EXCEPT !.sub = subs, !.queue = d.queue \ (stale \cup demoted)]
    BY DEF ReconcileQueue
<1>. HIDE DEF stale, demoted, e
<1>4. ASSUME NEW s \in Submissions
      PROVE  /\ subs[s] \in Record
             /\ subs[s].reports = d.sub[s].reports /\ subs[s].cert = d.sub[s].cert
             /\ subs[s].review = d.sub[s].review /\ subs[s].current = d.sub[s].current
             /\ \/ subs[s].status = d.sub[s].status
                \/ s \in d.queue /\ subs[s].status = "quarantined"
                \/ subs[s].status = "approved" /\ d.sub[s].status = "queued"
    <2>1. d.sub[s] \in Record
        BY <1>1
    <2>2. CASE s \in stale
        BY <2>1, <2>2, <1>2 DEF Record, Statuses
    <2>3. CASE s \notin stale /\ s \in demoted /\ d.sub[s].status = "queued"
        BY <2>1, <2>3 DEF Record, Statuses
    <2>4. CASE s \notin stale /\ ~(s \in demoted /\ d.sub[s].status = "queued")
        BY <2>1, <2>4
    <2>. QED BY <2>2, <2>3, <2>4
<1>5. subs \in [Submissions -> Record]
    BY <1>4
<1>. HIDE DEF subs
<1>6. /\ e.sub = subs /\ e.queue = d.queue \ (stale \cup demoted) /\ e.chain = d.chain
      /\ e.final = d.final /\ e.disputes = d.disputes /\ e \in Document
    BY <1>1, <1>3, <1>5 DEF Document
<1>7. ASSUME NEW s \in Submissions
      PROVE  /\ e.sub[s].status = "minted" <=> d.sub[s].status = "minted"
             /\ s \in e.queue => e.sub[s].status # "minted"
             /\ report_tally(e.sub[s].reports) =>
                   e.sub[s].status = "quarantined" /\ s \notin e.queue
             /\ e.sub[s].status \in {"approved", "queued", "minted"} =>
                   e.sub[s].cert /\ e.sub[s].review = "qualified"
             /\ d.sub[s].status = "minted" /\ d.sub[s].current => e.sub[s].current
    BY <1>1, <1>4, <1>6 DEF Consistent
<1>8. Consistent(e)
    BY <1>1, <1>6, <1>7, RecordsChange
<1>9. IsPrefix(Finalized(d), e.chain) /\ \A s \in Submissions : e.sub[s].reports = d.sub[s].reports
    BY <1>1, <1>4, <1>6, FinalizedPrefix DEF Stored
<1>. QED BY <1>6, <1>8, <1>9 DEF Replaces, e

LEMMA RestartStep ==
    ASSUME MintInv, NEW f \in Facades, Restart(f)
    PROVE  MintInv' /\ Replaces(durable, durable')
<1>. DEFINE fresh == ReconcileQueue(durable)
<1>1. /\ mem' = [mem EXCEPT ![f] = fresh]
      /\ durable' = IF fresh.queue # durable.queue THEN Overlay(fresh, durable) ELSE durable
      /\ retry' = [retry EXCEPT ![f] = {}]
      /\ UNCHANGED <<bytes, disturbed>>
    BY DocumentsAreConsistent DEF Restart
<1>2. Stored(durable) /\ Replaces(durable, durable) /\ Replaces(durable, fresh)
    BY DocumentsAreConsistent, ReconcileQueueKeeps
<1>. HIDE DEF fresh
<1>3. Consistent(fresh) /\ fresh \in Document
    BY <1>2 DEF Replaces, Consistent
<1>4. Overlay(fresh, durable) = fresh
    BY <1>2, <1>3 DEF Overlay, Document, Replaces
<1>5. Replaces(durable, durable')
    BY <1>1, <1>2, <1>4
<1>6. Stored(durable') /\ retry' \in [Facades -> SUBSET Calls]
    BY <1>1, <1>2, <1>5, ReplacedIsStored DEF MintInv
<1>. QED BY <1>1, <1>3, <1>5, <1>6, StepKeeps

LEMMA SubmitStep ==
    ASSUME PolicyAssumption, MintInv, NEW f \in Facades, NEW s \in Submissions,
           submit_signed_content_operation(f, s)
    PROVE  MintInv' /\ Replaces(durable, durable')
<1>. DEFINE d == durable
            r == NewRecord(s, "pending")
            e == [d EXCEPT !.sub[s] = r]
<1>1. /\ Consistent(d) /\ d \in Document /\ reconcile_submission_canonical_state(durable) = d
      /\ d.sub \in [Submissions -> Record]
    BY DocumentsAreConsistent DEF Consistent, Document
<1>2. d.sub[s].status = "absent" /\ Save(f, e) /\ Quiet
    BY <1>1 DEF submit_signed_content_operation
<1>3. r \in Record /\ r.status = "pending" /\ ~report_tally(r.reports)
    BY NoReportsNoTally DEF NewRecord, Record, Statuses
<1>. HIDE DEF r
<1>4. /\ e.sub = [d.sub EXCEPT ![s] = r] /\ e.chain = d.chain /\ e.queue = d.queue
      /\ e \in Document
    BY <1>1, <1>3 DEF Document
<1>5. s \notin d.queue \/ r.status # "minted"
    BY <1>3
<1>. HIDE DEF d, e
<1>6. Consistent(e)
    BY <1>1, <1>2, <1>3, <1>4, <1>5, OneRecordChanges
<1>. QED BY <1>2, <1>6, SaveKeeps

LEMMA AttachStep ==
    ASSUME MintInv, NEW f \in Facades, NEW s \in Submissions,
           attach_current_admission_attestation_operation(f, s)
    PROVE  MintInv' /\ Replaces(durable, durable')
<1>. DEFINE d == durable
            r == [d.sub[s] EXCEPT !.status = "pending", !.cert = FALSE, !.current = TRUE,
                                  !.reason = "none", !.review = "open"]
            e == [d EXCEPT !.sub[s].status = "pending", !.sub[s].cert = FALSE,
                           !.sub[s].current = TRUE, !.sub[s].reason = "none",
                           !.sub[s].review = "open", !.queue = @ \ {s}]
<1>1. /\ Consistent(d) /\ d \in Document /\ reconcile_submission_canonical_state(durable) = d
      /\ d.sub \in [Submissions -> Record] /\ d.sub[s] \in Record
    BY DocumentsAreConsistent DEF Consistent, Document
<1>2. Open(d.sub[s].status) /\ Save(f, e) /\ Quiet
    BY <1>1 DEF attach_current_admission_attestation_operation
<1>3. r \in Record /\ r.status = "pending" /\ r.reports = d.sub[s].reports
    BY <1>1 DEF Record, Statuses
<1>4. d.sub[s].status \notin {"minted", "quarantined"} /\ ~report_tally(d.sub[s].reports)
    BY <1>1, <1>2 DEF Open, VALID_STATUS_TRANSITIONS, Consistent
<1>5. /\ e.sub = [d.sub EXCEPT ![s] = r] /\ e.chain = d.chain /\ e.queue = d.queue \ {s}
      /\ e.final = d.final /\ e.disputes = d.disputes
    BY <1>1 DEF Document
<1>. HIDE DEF d, e, r
<1>6. e \in Document
    <2>1. e.sub \in [Submissions -> Record]
        BY <1>1, <1>3, <1>5, OneRecordReplaced
    <2>. QED BY <1>1, <1>5, <2>1 DEF e, Document
<1>7. Consistent(e)
    BY <1>1, <1>3, <1>4, <1>5, <1>6, OneRecordChanges
<1>. QED BY <1>2, <1>7, SaveKeeps

LEMMA VoteStep ==
    ASSUME MintInv, NEW f \in Facades, NEW s \in Submissions,
           NEW outcome \in {"qualified", "rejected"}, cast_submission_vote(f, s, outcome)
    PROVE  MintInv' /\ Replaces(durable, durable')
<1>. DEFINE d == mem[f]
            r == [d.sub[s] EXCEPT !.review = outcome]
            e == [d EXCEPT !.sub[s].review = outcome]
<1>1. /\ Consistent(d) /\ d \in Document
      /\ d.sub \in [Submissions -> Record] /\ d.sub[s] \in Record
    BY DocumentsAreConsistent DEF Consistent, Document
<1>2. d.sub[s].status = "pending" /\ Save(f, e) /\ Quiet
    BY DEF cast_submission_vote
<1>3. r \in Record /\ r.status = "pending" /\ r.reports = d.sub[s].reports
    BY <1>1, <1>2 DEF Record
<1>4. ~report_tally(d.sub[s].reports)
    BY <1>1, <1>2 DEF Consistent
<1>5. e.sub = [d.sub EXCEPT ![s] = r] /\ e.chain = d.chain /\ e.queue = d.queue
    BY <1>1 DEF Document
<1>. HIDE DEF d, e, r
<1>6. e \in Document
    <2>1. e.sub \in [Submissions -> Record]
        BY <1>1, <1>3, <1>5, OneRecordReplaced
    <2>. QED BY <1>1, <1>5, <2>1 DEF e, Document
<1>7. Consistent(e)
    BY <1>1, <1>2, <1>3, <1>4, <1>5, <1>6, OneRecordChanges
<1>. QED BY <1>2, <1>7, SaveKeeps

\* The statuses a review gives, and the place in the queue that goes with one.
LEMMA ReviewedKeeps ==
    ASSUME NEW d, Consistent(d), NEW s \in Submissions, d.sub[s].status = "pending"
    PROVE  /\ Consistent([d EXCEPT !.sub[s].status = "rejected"])
           /\ d.sub[s].review = "qualified" =>
                 Consistent([d EXCEPT !.sub[s].status = "approved", !.sub[s].cert = TRUE])
<1>. DEFINE r1 == [d.sub[s] EXCEPT !.status = "rejected"]
            e1 == [d EXCEPT !.sub[s].status = "rejected"]
            r2 == [d.sub[s] EXCEPT !.status = "approved", !.cert = TRUE]
            e2 == [d EXCEPT !.sub[s].status = "approved", !.sub[s].cert = TRUE]
<1>1. d \in Document /\ d.sub \in [Submissions -> Record] /\ d.sub[s] \in Record
    BY DEF Consistent, Document
<1>2. /\ r1 \in Record /\ r1.status = "rejected" /\ r1.reports = d.sub[s].reports
      /\ r2 \in Record /\ r2.status = "approved" /\ r2.reports = d.sub[s].reports
      /\ r2.cert /\ r2.review = d.sub[s].review
    BY <1>1 DEF Record, Statuses
<1>3. ~report_tally(d.sub[s].reports)
    BY DEF Consistent
<1>4. /\ e1.sub = [d.sub EXCEPT ![s] = r1] /\ e1.chain = d.chain /\ e1.queue = d.queue
      /\ e2.sub = [d.sub EXCEPT ![s] = r2] /\ e2.chain = d.chain /\ e2.queue = d.queue
    BY <1>1 DEF Document
<1>. HIDE DEF e1, e2, r1, r2
<1>5. e1 \in Document /\ e2 \in Document
    <2>1. e1.sub \in [Submissions -> Record] /\ e2.sub \in [Submissions -> Record]
        BY <1>1, <1>2, <1>4, OneRecordReplaced
    <2>. QED BY <1>1, <1>4, <2>1 DEF e1, e2, Document
<1>6. Consistent(e1)
    BY <1>2, <1>3, <1>4, <1>5, OneRecordChanges
<1>7. d.sub[s].review = "qualified" => Consistent(e2)
    BY <1>2, <1>3, <1>4, <1>5, OneRecordChanges
<1>. QED BY <1>6, <1>7 DEF e1, e2

LEMMA QueueKeeps ==
    ASSUME NEW d, Consistent(d), NEW s \in Submissions, addable(d, s)
    PROVE  Consistent(add(d, s))
<1>. DEFINE r == [d.sub[s] EXCEPT !.status = "queued"]
            e == add(d, s)
<1>1. /\ d \in Document /\ d.sub \in [Submissions -> Record] /\ d.sub[s] \in Record
      /\ d.sub[s].status = "approved"
    BY DEF Consistent, Document, addable
<1>2. /\ r \in Record /\ r.status = "queued" /\ r.reports = d.sub[s].reports
      /\ r.cert = d.sub[s].cert /\ r.review = d.sub[s].review
    BY <1>1 DEF Record, Statuses
<1>3. r.cert /\ r.review = "qualified" /\ ~report_tally(r.reports)
    BY <1>1, <1>2 DEF Consistent
<1>4. e.sub = [d.sub EXCEPT ![s] = r] /\ e.chain = d.chain /\ e.queue = d.queue \cup {s}
    BY <1>1 DEF Document, add
<1>5. e \in Document
    <2>1. e.sub \in [Submissions -> Record]
        BY <1>1, <1>2, <1>4
    <2>. QED BY <1>1, <1>4, <2>1 DEF Document, add
<1>. HIDE DEF e, r
<1>6. Consistent(e)
    BY <1>1, <1>2, <1>3, <1>4, <1>5, OneRecordChanges
<1>. QED BY <1>6 DEF e

LEMMA EvaluateStep ==
    ASSUME MintInv, NEW f \in Facades, NEW s \in Submissions, NEW passed \in BOOLEAN,
           evaluate_submission_operation(f, s, passed)
    PROVE  MintInv' /\ Replaces(durable, durable')
<1>. DEFINE d == mem[f]
            approved == [d EXCEPT !.sub[s].status = "approved", !.sub[s].cert = TRUE]
            rejected == [d EXCEPT !.sub[s].status = "rejected"]
            invalid == _quarantine_current_submission(d, s, "invalid")
            refused == _quarantine_current_submission(d, s, "review")
<1>1. Consistent(d) /\ d.sub[s].status = "pending" /\ Quiet
    BY DocumentsAreConsistent DEF evaluate_submission_operation
<1>2. Consistent(rejected) /\ Consistent(invalid) /\ Consistent(refused)
    BY <1>1, ReviewedKeeps, QuarantineKeeps
<1>3. d.sub[s].review = "qualified" => Consistent(approved)
    BY <1>1, ReviewedKeeps
<1>4. d.sub[s].review = "qualified" /\ addable(approved, s) => Consistent(add(approved, s))
    BY <1>3, QueueKeeps
<1>5. \/ Save(f, d) \/ Save(f, rejected) \/ Save(f, invalid) \/ Save(f, refused)
      \/ d.sub[s].review = "qualified" /\ Save(f, approved)
      \/ d.sub[s].review = "qualified" /\ addable(approved, s) /\ Save(f, add(approved, s))
      \/ /\ d.sub[s].review = "qualified"
         /\ mem' = [mem EXCEPT ![f] = approved] /\ UNCHANGED durable
      \/ UNCHANGED <<durable, mem>>
    BY DEF evaluate_submission_operation
<1>. HIDE DEF d, approved, rejected, invalid, refused
<1>6. ASSUME NEW local, Consistent(local), Save(f, local)
      PROVE  MintInv' /\ Replaces(durable, durable')
    BY <1>1, <1>6, SaveKeeps
<1>7. ASSUME d.sub[s].review = "qualified", mem' = [mem EXCEPT ![f] = approved], durable' = durable
      PROVE  MintInv' /\ Replaces(durable, durable')
    <2>1. retry' \in [Facades -> SUBSET Calls] /\ UNCHANGED <<bytes, disturbed>>
        BY <1>1 DEF Quiet, MintInv
    <2>2. Stored(durable') /\ Replaces(durable, durable')
        BY <1>7, DocumentsAreConsistent
    <2>. QED BY <1>3, <1>7, <2>1, <2>2, StepKeeps
<1>8. ASSUME UNCHANGED <<durable, mem>>
      PROVE  MintInv' /\ Replaces(durable, durable')
    <2>1. MintInv'
        BY <1>1, <1>8 DEF Quiet, MintInv
    <2>. QED BY <2>1, <1>8, DocumentsAreConsistent
<1>. QED BY <1>1, <1>2, <1>3, <1>4, <1>5, <1>6, <1>7, <1>8

LEMMA QueueStep ==
    ASSUME MintInv, NEW f \in Facades, get_mint_queue_operation(f)
    PROVE  MintInv' /\ Replaces(durable, durable')
<1>. DEFINE d == mem[f]
            able == {s \in Submissions : addable(d, s)}
            subs(T) == [s \in Submissions |->
                           IF s \in T THEN [d.sub[s] EXCEPT !.status = "queued"] ELSE d.sub[s]]
            doc(T) == [d EXCEPT !.sub = subs(T), !.queue = @ \cup T]
<1>1. PICK T \in SUBSET able : Save(f, doc(T)) /\ Quiet
    BY DEF get_mint_queue_operation
<1>. DEFINE g == subs(T)
            e == doc(T)
<1>2. /\ Consistent(d) /\ d \in Document /\ d.sub \in [Submissions -> Record]
      /\ d.queue \subseteq Submissions /\ T \subseteq Submissions
      /\ \A s \in T : d.sub[s].status = "approved"
    BY DocumentsAreConsistent DEF Consistent, Document, addable
<1>3. ASSUME NEW s \in Submissions
      PROVE  /\ g[s] \in Record /\ g[s].reports = d.sub[s].reports
             /\ g[s].cert = d.sub[s].cert /\ g[s].review = d.sub[s].review
             /\ g[s].current = d.sub[s].current
             /\ g[s].status = IF s \in T THEN "queued" ELSE d.sub[s].status
    <2>1. d.sub[s] \in Record
        BY <1>2
    <2>2. CASE s \in T
        BY <2>1, <2>2 DEF Record, Statuses
    <2>3. CASE s \notin T
        BY <2>1, <2>3
    <2>. QED BY <2>2, <2>3
<1>4. g \in [Submissions -> Record]
    BY <1>3
<1>. HIDE DEF subs, g
<1>5. e.sub = g /\ e.queue = d.queue \cup T /\ e.chain = d.chain /\ e \in Document
    BY <1>2, <1>4 DEF Document, g
<1>. HIDE DEF d, e
<1>6. ASSUME NEW s \in Submissions
      PROVE  /\ e.sub[s].status = "minted" <=> d.sub[s].status = "minted"
             /\ s \in e.queue => e.sub[s].status # "minted"
             /\ report_tally(e.sub[s].reports) =>
                   e.sub[s].status = "quarantined" /\ s \notin e.queue
             /\ e.sub[s].status \in {"approved", "queued", "minted"} =>
                   e.sub[s].cert /\ e.sub[s].review = "qualified"
             /\ d.sub[s].status = "minted" /\ d.sub[s].current => e.sub[s].current
    <2>1. CASE s \in T
        BY <2>1, <1>2, <1>3, <1>5 DEF Consistent
    <2>2. CASE s \notin T
        BY <2>2, <1>2, <1>3, <1>5 DEF Consistent
    <2>. QED BY <2>1, <2>2
<1>7. Consistent(e)
    BY <1>2, <1>5, <1>6, RecordsChange
<1>. QED BY <1>1, <1>7, SaveKeeps DEF e

\* An operator's block on minting touches nothing else.
LEMMA BlockedKeeps ==
    ASSUME NEW d, Consistent(d), NEW g \in [Submissions -> Record],
           \A s \in Submissions : \E b \in BOOLEAN : g[s] = [d.sub[s] EXCEPT !.blocked = b]
    PROVE  Consistent([d EXCEPT !.sub = g])
<1>. DEFINE e == [d EXCEPT !.sub = g]
<1>1. /\ d \in Document /\ d.sub \in [Submissions -> Record]
    BY DEF Consistent, Document
<1>2. e.sub = g /\ e.queue = d.queue /\ e.chain = d.chain /\ e \in Document
    BY <1>1 DEF Document
<1>3. ASSUME NEW s \in Submissions
      PROVE  /\ g[s].status = d.sub[s].status /\ g[s].reports = d.sub[s].reports
             /\ g[s].cert = d.sub[s].cert /\ g[s].review = d.sub[s].review
             /\ g[s].current = d.sub[s].current
    <2>1. d.sub[s] \in Record
        BY <1>1
    <2>. QED BY <2>1 DEF Record
<1>. HIDE DEF e
<1>4. ASSUME NEW s \in Submissions
      PROVE  /\ e.sub[s].status = "minted" <=> d.sub[s].status = "minted"
             /\ s \in e.queue => e.sub[s].status # "minted"
             /\ report_tally(e.sub[s].reports) =>
                   e.sub[s].status = "quarantined" /\ s \notin e.queue
             /\ e.sub[s].status \in {"approved", "queued", "minted"} =>
                   e.sub[s].cert /\ e.sub[s].review = "qualified"
             /\ d.sub[s].status = "minted" /\ d.sub[s].current => e.sub[s].current
    BY <1>2, <1>3 DEF Consistent
<1>5. Consistent(e)
    BY <1>2, <1>4, RecordsChange
<1>. QED BY <1>5 DEF e

LEMMA BlockStep ==
    ASSUME MintInv, NEW f \in Facades, NEW s \in Submissions,
           \/ block_submission_minting_operation(f, s)
           \/ unblock_submission_minting_operation(f, s)
    PROVE  MintInv' /\ Replaces(durable, durable')
<1>. DEFINE d == mem[f]
<1>1. PICK b \in BOOLEAN : Save(f, [d EXCEPT !.sub[s].blocked = b]) /\ Quiet
    BY DEF block_submission_minting_operation, unblock_submission_minting_operation
<1>. DEFINE r == [d.sub[s] EXCEPT !.blocked = b]
            g == [d.sub EXCEPT ![s] = r]
<1>2. /\ Consistent(d) /\ d \in Document
      /\ d.sub \in [Submissions -> Record] /\ d.sub[s] \in Record
    BY DocumentsAreConsistent DEF Consistent, Document
<1>3. r \in Record
    BY <1>2 DEF Record
<1>4. \A t \in Submissions : \E c \in BOOLEAN : g[t] = [d.sub[t] EXCEPT !.blocked = c]
    <2>1. \A t \in Submissions : d.sub[t] = [d.sub[t] EXCEPT !.blocked = d.sub[t].blocked]
                                 /\ d.sub[t].blocked \in BOOLEAN
        BY <1>2 DEF Record
    <2>. QED BY <1>2, <2>1
<1>5. [d EXCEPT !.sub[s].blocked = b] = [d EXCEPT !.sub = g]
    BY <1>2 DEF Document
<1>6. g \in [Submissions -> Record]
    BY <1>2, <1>3, OneRecordReplaced
<1>. HIDE DEF d, g
<1>7. Consistent([d EXCEPT !.sub = g])
    BY <1>2, <1>4, <1>6, BlockedKeeps
<1>. QED BY <1>1, <1>5, <1>7, SaveKeeps

LEMMA CleanupStep ==
    ASSUME MintInv, NEW f \in Facades, cleanup_bad_mint_queue_items(f)
    PROVE  MintInv' /\ Replaces(durable, durable')
<1>. DEFINE d == mem[f]
            bad == {s \in Submissions : d.sub[s].status \in {"approved", "queued"}
                                           /\ ~mintable(d, s)}
            g == [s \in Submissions |-> [d.sub[s] EXCEPT !.blocked = @ \/ s \in bad]]
<1>1. Save(f, [d EXCEPT !.sub = g]) /\ Quiet
    BY DEF cleanup_bad_mint_queue_items
<1>2. Consistent(d) /\ d.sub \in [Submissions -> Record]
    BY DocumentsAreConsistent DEF Consistent, Document
<1>. HIDE DEF bad
<1>3. ASSUME NEW s \in Submissions
      PROVE  g[s] \in Record /\ \E b \in BOOLEAN : g[s] = [d.sub[s] EXCEPT !.blocked = b]
    <2>1. d.sub[s] \in Record /\ (d.sub[s].blocked \/ s \in bad) \in BOOLEAN
        BY <1>2 DEF Record
    <2>2. g[s] = [d.sub[s] EXCEPT !.blocked = (d.sub[s].blocked \/ s \in bad)]
        OBVIOUS
    <2>. HIDE DEF d, g
    <2>3. g[s] \in Record
        BY <2>1, <2>2 DEF Record
    <2>. QED BY <2>1, <2>2, <2>3
<1>4. g \in [Submissions -> Record]
    BY <1>3
<1>. HIDE DEF d, g
<1>5. Consistent([d EXCEPT !.sub = g])
    BY <1>2, <1>3, <1>4, BlockedKeeps
<1>. QED BY <1>1, <1>5, SaveKeeps

\* More reports never fall below the threshold again.
LEMMA TallyGrows ==
    ASSUME PolicyAssumption, NEW less, NEW more \in SUBSET Reporters, less \subseteq more,
           report_tally(less)
    PROVE  report_tally(more)
<1>1. IsFiniteSet(more) /\ IsFiniteSet(more \cap Established)
    BY FS_Subset DEF PolicyAssumption
<1>2. /\ Cardinality(less) \in Nat /\ Cardinality(more) \in Nat
      /\ Cardinality(less) <= Cardinality(more)
    BY <1>1, FS_Subset, FS_CardinalityType
<1>3. less \cap Established \subseteq more \cap Established
    OBVIOUS
<1>4. /\ Cardinality(less \cap Established) \in Nat /\ Cardinality(more \cap Established) \in Nat
      /\ Cardinality(less \cap Established) <= Cardinality(more \cap Established)
    BY <1>1, <1>3, FS_Subset, FS_CardinalityType
<1>. QED BY <1>2, <1>4 DEF report_tally, PolicyAssumption

\* Document e is d with one more report of s and what follows from it.
Reported(d, e, s) ==
    /\ e.chain = d.chain /\ e.final = d.final /\ e.disputes = d.disputes
    /\ ~Minted(d, s) /\ d.sub[s].reports \subseteq e.sub[s].reports
    /\ \A t \in Submissions \ {s} : e.sub[t].reports = d.sub[t].reports

\* Document e is d with one more dispute, or with a longer finalized prefix.
Attested(d, e) ==
    /\ e.chain = d.chain /\ e.sub = d.sub
    /\ \/ e.final = d.final /\ d.disputes \subseteq e.disputes
       \/ e.final \in d.final + 1 .. Len(d.chain) /\ e.disputes = d.disputes

LEMMA ReportStep ==
    ASSUME PolicyAssumption, MintInv, NEW f \in Facades, NEW s \in Submissions,
           NEW w \in Reporters, record_community_report_operation(f, s, w)
    PROVE  MintInv' /\ Reported(durable, durable', s)
<1>. DEFINE d == durable
            r0 == [d.sub[s] EXCEPT !.reports = @ \cup {w}]
            r1 == [r0 EXCEPT !.status = "quarantined", !.reason = "reports"]
            e0 == [d EXCEPT !.sub[s].reports = @ \cup {w}]
            e1 == _quarantine_current_submission(e0, s, "reports")
            tally == report_tally(e0.sub[s].reports)
            e == IF tally THEN e1 ELSE e0
            r == IF tally THEN r1 ELSE r0
<1>1. /\ Consistent(d) /\ d \in Document /\ Stored(d)
      /\ d.sub \in [Submissions -> Record] /\ d.sub[s] \in Record
    BY DocumentsAreConsistent DEF Consistent, Document
<1>2. /\ durable' = e /\ mem' = [mem EXCEPT ![f] = e] /\ Quiet
      /\ ~Minted(d, s)
      /\ Open(d.sub[s].status) \/ d.sub[s].status = "quarantined"
    BY DEF record_community_report_operation
<1>3. d.sub[s].status # "minted"
    BY <1>1, <1>2 DEF Consistent
<1>4. /\ r0 \in Record /\ r0.status = d.sub[s].status
      /\ r0.reports = d.sub[s].reports \cup {w} /\ r0.cert = d.sub[s].cert
      /\ r0.review = d.sub[s].review /\ r0.current = d.sub[s].current
    BY <1>1 DEF Record
<1>5. r1 \in Record /\ r1.status = "quarantined" /\ r1.reports = r0.reports
    BY <1>4 DEF Record, Statuses
<1>6. e0.sub = [d.sub EXCEPT ![s] = r0] /\ e0.sub[s].reports = r0.reports
    BY <1>1, <1>4 DEF Document
<1>7. e1.sub = [d.sub EXCEPT ![s] = r1]
    BY <1>1, <1>6 DEF Document, _quarantine_current_submission
<1>8. /\ e0.chain = d.chain /\ e0.final = d.final /\ e0.disputes = d.disputes /\ e0.queue = d.queue
      /\ e1.chain = d.chain /\ e1.final = d.final /\ e1.disputes = d.disputes
      /\ e1.queue = d.queue \ {s}
    BY <1>1 DEF Document, _quarantine_current_submission
<1>. HIDE DEF d, r0, r1, e0, e1
<1>9. e0 \in Document /\ e1 \in Document
    <2>1. e0.sub \in [Submissions -> Record] /\ e1.sub \in [Submissions -> Record]
        BY <1>1, <1>4, <1>5, <1>6, <1>7, OneRecordReplaced
    <2>. QED BY <1>1, <1>8, <2>1 DEF e0, e1, Document, _quarantine_current_submission
<1>10. Consistent(e)
    <2>1. CASE tally
        BY <2>1, <1>1, <1>3, <1>5, <1>7, <1>8, <1>9, OneRecordChanges
    <2>2. CASE ~tally
        <3>1. ~report_tally(r0.reports)
            BY <2>2, <1>6
        <3>2. /\ s \in e0.queue => r0.status # "minted"
              /\ r0.status \in {"approved", "queued", "minted"} => r0.cert /\ r0.review = "qualified"
            BY <1>1, <1>3, <1>4 DEF Consistent
        <3>3. e0.queue \subseteq d.queue \cup {s}
            BY <1>8
        <3>4. Consistent(e0)
            BY <3>1, <3>2, <3>3, <1>1, <1>3, <1>4, <1>6, <1>8, <1>9, OneRecordChanges
        <3>. QED BY <2>2, <3>4
    <2>. QED BY <2>1, <2>2
<1>11. e.chain = d.chain /\ e.final = d.final /\ e.disputes = d.disputes
    BY <1>8
<1>12. /\ d.sub[s].reports \subseteq e.sub[s].reports
       /\ \A t \in Submissions \ {s} : e.sub[t].reports = d.sub[t].reports
    <2>1. e.sub = [d.sub EXCEPT ![s] = r0] \/ e.sub = [d.sub EXCEPT ![s] = r1]
        BY <1>6, <1>7
    <2>. QED BY <2>1, <1>1, <1>4, <1>5
<1>. HIDE DEF e
<1>13. Stored(durable') /\ Reported(durable, durable', s)
    BY <1>1, <1>2, <1>10, <1>11, <1>12 DEF Stored, Reported, d
<1>14. retry' \in [Facades -> SUBSET Calls] /\ UNCHANGED <<bytes, disturbed>>
    BY <1>2 DEF Quiet, MintInv
<1>. QED BY <1>2, <1>10, <1>13, <1>14, StepKeeps

LEMMA DisputeStep ==
    ASSUME MintInv, NEW f \in Facades, NEW s \in Submissions, NEW w \in Reporters,
           record_post_mint_dispute_operation(f, s, w)
    PROVE  MintInv' /\ Attested(durable, durable')
<1>. DEFINE d == durable
            more == d.disputes \cup {<<w, s>>}
            e == [d EXCEPT !.disputes = more]
<1>1. Consistent(d) /\ d \in Document /\ Stored(d)
    BY DocumentsAreConsistent DEF Consistent
<1>2. durable' = e /\ mem' = [mem EXCEPT ![f] = e] /\ Quiet
    BY DEF record_post_mint_dispute_operation
<1>3. more \in SUBSET (Reporters \X Submissions) /\ d.final \in Nat
    BY <1>1 DEF Document
<1>4. Consistent(e)
    BY <1>1, <1>3, FinalityIsFree
<1>5. /\ e.chain = d.chain /\ e.sub = d.sub /\ e.final = d.final /\ e.disputes = more
    BY <1>1 DEF Document
<1>6. d.disputes \subseteq more
    OBVIOUS
<1>. HIDE DEF d, e, more
<1>7. Stored(durable') /\ Attested(durable, durable')
    BY <1>1, <1>2, <1>4, <1>5, <1>6 DEF Stored, Attested, d
<1>8. retry' \in [Facades -> SUBSET Calls] /\ UNCHANGED <<bytes, disturbed>>
    BY <1>2 DEF Quiet, MintInv
<1>. QED BY <1>2, <1>4, <1>7, <1>8, StepKeeps

LEMMA FinalizeStep ==
    ASSUME MintInv, NEW f \in Facades, Finalize(f)
    PROVE  MintInv' /\ Attested(durable, durable')
<1>. DEFINE d == durable
            n == Len(d.chain)
            e == [d EXCEPT !.final = n]
            m == [mem[f] EXCEPT !.final = n]
<1>1. /\ Consistent(d) /\ d \in Document /\ Stored(d) /\ Consistent(mem[f])
      /\ mem[f] \in Document /\ mem \in [Facades -> Document]
    BY DocumentsAreConsistent DEF Consistent, MintInv
<1>2. n \in Nat /\ d.final \in Nat /\ d.final < n
    BY <1>1, LenProperties DEF Document, Finalize
<1>3. durable' = e /\ mem' = [mem EXCEPT ![f] = m] /\ Quiet
    BY <1>1 DEF Finalize
<1>4. d.disputes \in SUBSET (Reporters \X Submissions)
    BY <1>1 DEF Document
<1>. HIDE DEF n
<1>5. Consistent(e) /\ Consistent(m)
    BY <1>1, <1>2, <1>4, FinalityIsFree
<1>6. /\ e.chain = d.chain /\ e.sub = d.sub /\ e.final = n /\ e.disputes = d.disputes
    BY <1>1 DEF Document
<1>. HIDE DEF d, e, m
<1>7. Stored(durable') /\ Attested(durable, durable')
    BY <1>1, <1>2, <1>3, <1>5, <1>6 DEF Stored, Attested, d, n
<1>8. retry' \in [Facades -> SUBSET Calls] /\ UNCHANGED <<bytes, disturbed>>
    BY <1>3 DEF Quiet, MintInv
<1>. QED BY <1>3, <1>5, <1>7, <1>8, StepKeeps

LEMMA MintStep ==
    ASSUME MintInv, NEW f \in Facades, NEW s \in Submissions, mint_submission_operation(f, s)
    PROVE  MintInv' /\ Replaces(durable, durable')
<1>. DEFINE approved == addable(mem[f], s)
            m == IF approved THEN add(mem[f], s) ELSE mem[f]
            d == IF approved THEN Overlay(m, durable) ELSE durable
            o == IF approved /\ ~reject_stale_reports(m, durable)
                 THEN Outcome("refused", durable, m)
                 ELSE commit_certified_submission(d, m, s, m.chain)
<1>1. /\ Stored(durable) /\ Replaces(durable, durable) /\ Consistent(mem[f])
    BY DocumentsAreConsistent
<1>2. durable' = o.doc /\ mem' = [mem EXCEPT ![f] = o.memory] /\ Quiet
    BY DEF mint_submission_operation
<1>3. Consistent(m)
    BY <1>1, QueueKeeps
<1>. HIDE DEF m
<1>4. Replaces(durable, o.doc) /\ Consistent(o.memory)
    <2>1. CASE approved /\ ~reject_stale_reports(m, durable)
        BY <2>1, <1>1, <1>3 DEF Outcome
    <2>2. CASE ~(approved /\ ~reject_stale_reports(m, durable))
        <3>1. Replaces(durable, d)
            BY <2>2, <1>1, <1>3, AcceptedReplaces
        <3>. HIDE DEF d
        <3>2. Stored(d)
            BY <3>1, <1>1, ReplacedIsStored
        <3>. DEFINE c == commit_certified_submission(d, m, s, m.chain)
        <3>3. Replaces(d, c.doc) /\ Consistent(c.memory)
            BY <3>2, <1>3, CommitReplaces
        <3>4. o = c
            BY <2>2
        <3>. HIDE DEF c
        <3>5. Replaces(durable, c.doc)
            BY <3>1, <3>3, <1>1, ReplacesIsTransitive
        <3>. QED BY <3>3, <3>4, <3>5
    <2>. QED BY <2>1, <2>2
<1>. HIDE DEF o
<1>5. Stored(durable') /\ Replaces(durable, durable')
    BY <1>1, <1>2, <1>4, ReplacedIsStored
<1>6. retry' \in [Facades -> SUBSET Calls] /\ UNCHANGED <<bytes, disturbed>>
    BY <1>2 DEF Quiet, MintInv
<1>. QED BY <1>2, <1>4, <1>5, <1>6, StepKeeps

\* The steps of a coordinator call that do not commit.
LEMMA CoordinatorStep ==
    ASSUME PolicyAssumption, MintInv, NEW f \in Facades,
           RetrySelect(f) \/ RetryNone(f) \/ RetryBusy(f)
    PROVE  MintInv' /\ Replaces(durable, durable')
<1>1. /\ Stored(durable) /\ Consistent(durable) /\ Replaces(durable, durable)
      /\ durable.chain \in Seq(Submissions)
    BY DocumentsAreConsistent DEF Consistent, Document
<1>2. /\ retry \in [Facades -> SUBSET Calls] /\ mem \in [Facades -> Document]
      /\ MaxRetries \in Nat
    BY DEF MintInv, PolicyAssumption
<1>3. \A call \in retry[f] :
         /\ call \in Calls /\ call.left \in 0 .. MaxRetries
         /\ call.left > 0 => [call EXCEPT !.left = @ - 1, !.ready = FALSE] \in Calls
    <2>. SUFFICES ASSUME NEW call \in retry[f]
                  PROVE  /\ call \in Calls /\ call.left \in 0 .. MaxRetries
                         /\ call.left > 0 => [call EXCEPT !.left = @ - 1, !.ready = FALSE] \in Calls
        OBVIOUS
    <2>1. call \in Calls
        BY <1>2
    <2>2. call.left \in 0 .. MaxRetries
        BY <2>1 DEF Calls
    <2>3. call.left > 0 => call.left - 1 \in 0 .. MaxRetries
        BY <2>2, <1>2
    <2>. QED BY <2>1, <2>2, <2>3 DEF Calls
<1>4. CASE RetrySelect(f)
    <2>1. retry' \in [Facades -> SUBSET Calls]
        <3>. DEFINE fresh(s, n) == [sub |-> s, head |-> durable.chain, left |-> n, ready |-> TRUE]
        <3>1. PICK s \in first_mintable(durable) :
                 \/ retry' = [retry EXCEPT ![f] = {fresh(s, MaxRetries)}]
                 \/ \E call \in retry[f] : retry' = [retry EXCEPT ![f] = {fresh(s, call.left)}]
            BY <1>4 DEF RetrySelect
        <3>2. \A n \in 0 .. MaxRetries : fresh(s, n) \in Calls
            BY <1>1 DEF Calls, first_mintable
        <3>. HIDE DEF fresh
        <3>3. fresh(s, MaxRetries) \in Calls /\ \A call \in retry[f] : fresh(s, call.left) \in Calls
            <4>1. MaxRetries \in 0 .. MaxRetries
                BY <1>2
            <4>2. \A call \in retry[f] : call.left \in 0 .. MaxRetries
                BY <1>3
            <4>. QED BY <3>2, <4>1, <4>2
        <3>. QED BY <3>1, <3>3, <1>2
    <2>2. mem' = [mem EXCEPT ![f] = durable] /\ durable' = durable /\ UNCHANGED <<bytes, disturbed>>
        BY <1>4 DEF RetrySelect
    <2>. QED BY <2>1, <2>2, <1>1, StepKeeps
<1>5. CASE RetryNone(f)
    <2>1. retry' \in [Facades -> SUBSET Calls]
        BY <1>5, <1>2 DEF RetryNone
    <2>2. mem' = [mem EXCEPT ![f] = durable] /\ durable' = durable /\ UNCHANGED <<bytes, disturbed>>
        BY <1>5 DEF RetryNone
    <2>. QED BY <2>1, <2>2, <1>1, StepKeeps
<1>6. CASE RetryBusy(f)
    <2>1. retry' \in [Facades -> SUBSET Calls]
        <3>1. PICK call \in retry[f] : retry' = [retry EXCEPT ![f] =
                 IF call.left > 0 THEN {[call EXCEPT !.left = @ - 1, !.ready = FALSE]} ELSE {}]
            BY <1>6 DEF RetryBusy
        <3>. DEFINE next == IF call.left > 0 THEN {[call EXCEPT !.left = @ - 1, !.ready = FALSE]}
                            ELSE {}
        <3>2. next \in SUBSET Calls
            BY <1>3
        <3>. HIDE DEF next
        <3>3. retry' = [retry EXCEPT ![f] = next]
            BY <3>1 DEF next
        <3>. QED BY <3>2, <3>3, <1>2
    <2>2. mem' = [mem EXCEPT ![f] = mem[f]] /\ durable' = durable /\ UNCHANGED <<bytes, disturbed>>
        BY <1>6, <1>2 DEF RetryBusy
    <2>3. Consistent(mem[f])
        BY DocumentsAreConsistent
    <2>. QED BY <2>1, <2>2, <2>3, <1>1, StepKeeps
<1>. QED BY <1>4, <1>5, <1>6

LEMMA CommitStep ==
    ASSUME PolicyAssumption, MintInv, NEW f \in Facades, RetryCommit(f)
    PROVE  MintInv' /\ Replaces(durable, durable')
<1>. DEFINE o(call) == commit_certified_submission(durable, mem[f], call.sub, call.head)
            again(call) == o(call).result = "stale" /\ call.left > 0
            next(call) == IF again(call) THEN {[call EXCEPT !.left = @ - 1, !.ready = FALSE]} ELSE {}
<1>1. PICK call \in retry[f] :
         /\ durable' = o(call).doc /\ mem' = [mem EXCEPT ![f] = o(call).memory]
         /\ retry' = [retry EXCEPT ![f] = next(call)]
         /\ UNCHANGED <<bytes, disturbed>>
    BY DEF RetryCommit
<1>2. retry \in [Facades -> SUBSET Calls] /\ call \in Calls /\ MaxRetries \in Nat
    BY DEF MintInv, PolicyAssumption
<1>3. call.sub \in Submissions /\ call.left \in 0 .. MaxRetries
    BY <1>2 DEF Calls
<1>4. Stored(durable) /\ Consistent(mem[f])
    BY DocumentsAreConsistent
<1>5. Replaces(durable, o(call).doc) /\ Consistent(o(call).memory)
    BY <1>3, <1>4, CommitReplaces
<1>. HIDE DEF o
<1>6. next(call) \in SUBSET Calls
    <2>1. call.left > 0 => call.left - 1 \in 0 .. MaxRetries
        BY <1>2, <1>3
    <2>. QED BY <2>1, <1>2 DEF Calls
<1>. HIDE DEF next
<1>7. retry' \in [Facades -> SUBSET Calls]
    BY <1>1, <1>2, <1>6
<1>8. Stored(durable')
    BY <1>1, <1>4, <1>5, ReplacedIsStored
<1>. QED BY <1>1, <1>5, <1>7, <1>8, StepKeeps

LEMMA DisturbStep ==
    ASSUME PolicyAssumption, MintInv, NEW s \in Submissions, Disturb(s)
    PROVE  MintInv' /\ Replaces(durable, durable')
<1>1. bytes' \in [Submissions -> BOOLEAN]
    BY DEF MintInv, Disturb
<1>2. disturbed' \in 0 .. Disturbances
    BY DEF MintInv, Disturb, PolicyAssumption
<1>3. UNCHANGED <<durable, mem, retry>>
    BY DEF Disturb
<1>. QED BY <1>1, <1>2, <1>3, DocumentsAreConsistent DEF MintInv

-----------------------------------------------------------------------------
(* The invariant, and what a step may do to the stored document *)

LEMMA InvInit ==
    ASSUME PolicyAssumption, Init
    PROVE  MintInv
<1>. DEFINE d == InitialDocument
            subs == [s \in Submissions |->
                        NewRecord(s, IF s \in Legacy THEN "pending" ELSE "absent")]
<1>1. /\ d.sub = subs /\ d.queue = {} /\ d.chain = <<>> /\ d.final = 0 /\ d.disputes = {}
    BY DEF InitialDocument
<1>2. \A s \in Submissions :
        subs[s] \in Record /\ subs[s].status \in {"pending", "absent"} /\ subs[s].reports = {}
    BY DEF NewRecord, Record, Statuses
<1>3. subs \in [Submissions -> Record]
    BY <1>2
<1>4. d \in Document
    <2>1. <<>> \in Seq(Submissions)
        OBVIOUS
    <2>. HIDE DEF subs
    <2>2. d = [sub |-> subs, queue |-> {}, chain |-> <<>>, final |-> 0, disputes |-> {}]
        BY DEF InitialDocument, subs
    <2>. QED BY <1>3, <2>1, <2>2 DEF Document
<1>. HIDE DEF d, subs
<1>5. DOMAIN d.chain = {} /\ Len(d.chain) = 0
    BY <1>1
<1>6. \A s \in Submissions : ~Minted(d, s) /\ ~report_tally(d.sub[s].reports)
    BY <1>1, <1>2, <1>5, NoReportsNoTally DEF Minted, ToSet
<1>7. Consistent(d)
    BY <1>1, <1>2, <1>4, <1>5, <1>6 DEF Consistent
<1>8. Stored(d)
    BY <1>1, <1>5, <1>7 DEF Stored
<1>9. durable = d /\ mem = [f \in Facades |-> d]
    BY DEF Init, d
<1>. QED BY <1>4, <1>7, <1>8, <1>9 DEF Init, MintInv, PolicyAssumption

\* A step takes another consistent document, or adds a report, a dispute or
\* finality to the one that is stored.
Effect ==
    \/ Replaces(durable, durable')
    \/ \E s \in Submissions : Reported(durable, durable', s)
    \/ Attested(durable, durable')

LEMMA InvNext ==
    ASSUME PolicyAssumption, MintInv, [Next]_vars
    PROVE  MintInv' /\ Effect
<1>1. CASE UNCHANGED vars
    BY <1>1, DocumentsAreConsistent DEF vars, MintInv, Effect
<1>2. ASSUME NEW f \in Facades,
             load_blockchain(f) \/ Restart(f) \/ Finalize(f) \/ get_mint_queue_operation(f)
               \/ cleanup_bad_mint_queue_items(f)
      PROVE  MintInv' /\ Effect
    BY <1>2, LoadStep, RestartStep, FinalizeStep, QueueStep, CleanupStep DEF Effect
<1>3. ASSUME NEW f \in Facades,
             RetrySelect(f) \/ RetryNone(f) \/ RetryBusy(f) \/ RetryCommit(f)
      PROVE  MintInv' /\ Effect
    BY <1>3, CoordinatorStep, CommitStep DEF Effect
<1>4. ASSUME NEW f \in Facades, NEW s \in Submissions,
             \/ submit_signed_content_operation(f, s)
             \/ attach_current_admission_attestation_operation(f, s)
             \/ \E o \in {"qualified", "rejected"} : cast_submission_vote(f, s, o)
             \/ \E passed \in BOOLEAN : evaluate_submission_operation(f, s, passed)
      PROVE  MintInv' /\ Effect
    BY <1>4, SubmitStep, AttachStep, VoteStep, EvaluateStep DEF Effect
<1>5. ASSUME NEW f \in Facades, NEW s \in Submissions,
             \/ block_submission_minting_operation(f, s)
             \/ unblock_submission_minting_operation(f, s)
             \/ mint_submission_operation(f, s)
      PROVE  MintInv' /\ Effect
    BY <1>5, BlockStep, MintStep DEF Effect
<1>6. ASSUME NEW f \in Facades, NEW s \in Submissions, NEW w \in Reporters,
             \/ record_community_report_operation(f, s, w)
             \/ record_post_mint_dispute_operation(f, s, w)
      PROVE  MintInv' /\ Effect
    BY <1>6, ReportStep, DisputeStep DEF Effect
<1>7. ASSUME NEW s \in Submissions, Disturb(s)
      PROVE  MintInv' /\ Effect
    BY <1>7, DisturbStep DEF Effect
<1>. QED BY <1>1, <1>2, <1>3, <1>4, <1>5, <1>6, <1>7 DEF Next

LEMMA Invariance ==
    ASSUME PolicyAssumption
    PROVE  Spec => []MintInv
<1>1. Init => MintInv
    BY InvInit
<1>2. MintInv /\ [Next]_vars => MintInv'
    BY InvNext
<1>. QED BY <1>1, <1>2, PTL DEF Spec

-----------------------------------------------------------------------------
(* Theorems *)

\* The stored document, every memory and every coordinator call keep their form.
THEOREM TypeCorrect ==
    ASSUME PolicyAssumption
    PROVE  Spec => []TypeOK
<1>1. MintInv => TypeOK
    BY DEF MintInv, Stored, Consistent, TypeOK, Calls
<1>. QED BY <1>1, Invariance, PTL

\* A submission the community reported often enough is quarantined for good: out
\* of the queue and out of the chain, whatever old copy is saved or minted from.
THEOREM ReportsKeepOut ==
    ASSUME PolicyAssumption
    PROVE  Spec => []ReportedStaysOut
<1>1. MintInv => ReportedStaysOut
    BY DEF MintInv, Stored, Consistent, ReportedStaysOut
<1>. QED BY <1>1, Invariance, PTL

\* Behind every block there is a review, a certificate and, from the activation
\* height on, an attestation.
THEOREM BlocksHaveEvidence ==
    ASSUME PolicyAssumption
    PROVE  Spec => []BlocksAreEvidenced
<1>1. ASSUME MintInv PROVE BlocksAreEvidenced
    <2>1. Consistent(durable) /\ durable.chain \in Seq(Submissions)
        BY <1>1 DEF MintInv, Stored, Consistent, Document
    <2>2. ASSUME NEW i \in DOMAIN durable.chain
          PROVE  LET r == durable.sub[durable.chain[i]] IN
                 /\ r.status = "minted" /\ r.cert /\ r.review = "qualified"
                 /\ i >= ActivationHeight => r.current
        <3>1. durable.chain[i] \in Submissions /\ Minted(durable, durable.chain[i])
            BY <2>1, ElementOfSeq, LenProperties DEF Minted, ToSet
        <3>. QED BY <2>1, <3>1 DEF Consistent
    <2>. QED BY <2>2 DEF BlocksAreEvidenced
<1>. QED BY <1>1, Invariance, PTL

-----------------------------------------------------------------------------
(* What the stored document keeps *)

\* The records of a document are those of the submissions.
LEMMA WithdrawnByReports ==
    ASSUME NEW d \in Document
    PROVE  /\ Withdrawn(d) = {s \in Submissions : report_tally(d.sub[s].reports)}
           /\ DOMAIN d.sub = Submissions
BY DEF Withdrawn, Document

\* No save, commit, restart or retry of any facade loses a report or a dispute.
THEOREM EvidenceIsKept ==
    ASSUME PolicyAssumption
    PROVE  Spec => EvidenceNeverErased
<1>1. MintInv /\ [Next]_vars => [KeepsEvidence]_durable
    <2>. SUFFICES ASSUME MintInv, [Next]_vars PROVE KeepsEvidence
        OBVIOUS
    <2>. DOMAIN durable.sub = Submissions
        BY WithdrawnByReports DEF MintInv, Stored, Consistent
    <2>1. Effect
        BY InvNext
    <2>2. CASE Replaces(durable, durable')
        BY <2>2 DEF Replaces, KeepsEvidence
    <2>3. CASE \E s \in Submissions : Reported(durable, durable', s)
        <3>1. PICK s \in Submissions : Reported(durable, durable', s)
            BY <2>3
        <3>2. \A t \in Submissions : durable.sub[t].reports \subseteq durable'.sub[t].reports
            BY <3>1 DEF Reported
        <3>. QED BY <3>1, <3>2 DEF Reported, KeepsEvidence
    <2>4. CASE Attested(durable, durable')
        BY <2>4 DEF Attested, KeepsEvidence
    <2>. QED BY <2>1, <2>2, <2>3, <2>4 DEF Effect
<1>. QED BY <1>1, Invariance, PTL DEF Spec, EvidenceNeverErased

-----------------------------------------------------------------------------
(* The abstract ledger of mints *)

\* A stored document keeps what MintLedger promises of a state.
LEMMA StoredKeepsPromise ==
    ASSUME NEW d, Stored(d)
    PROVE  IsInjective(d.chain) /\ ToSet(d.chain) \cap Withdrawn(d) = {} /\ d.final <= Len(d.chain)
<1>1. IsInjective(d.chain)
    BY DEF Stored, Consistent, IsInjective
<1>2. \A s \in Withdrawn(d) : ~Minted(d, s)
    BY WithdrawnByReports DEF Stored, Consistent
<1>. QED BY <1>1, <1>2 DEF Stored, Minted

LEMMA EffectIsPromised ==
    ASSUME PolicyAssumption, MintInv, MintInv', Effect
    PROVE  MintPromise!Next \/ UNCHANGED MintPromise!vars
<1>1. Stored(durable) /\ Stored(durable') /\ durable \in Document /\ durable' \in Document
    BY DEF MintInv, Stored, Consistent
<1>w. /\ Withdrawn(durable) = {t \in Submissions : report_tally(durable.sub[t].reports)}
      /\ Withdrawn(durable') = {t \in Submissions : report_tally(durable'.sub[t].reports)}
    BY <1>1, WithdrawnByReports
<1>2. CASE Replaces(durable, durable')
    <2>1. IsPrefix(SubSeq(durable.chain, 1, durable.final), durable'.chain)
        BY <1>2 DEF Replaces, Finalized
    <2>2. /\ IsInjective(durable'.chain) /\ ToSet(durable'.chain) \cap Withdrawn(durable') = {}
          /\ durable'.final <= Len(durable'.chain)
        BY <1>1, StoredKeepsPromise
    <2>3. durable'.final = durable.final /\ Withdrawn(durable') = Withdrawn(durable)
        BY <1>2, <1>w DEF Replaces
    <2>4. MintPromise!Replace
        BY <2>1, <2>2, <2>3
           DEF MintPromise!Replace, MintPromise!Promise, MintPromise!IsInjective,
               IsInjective, MintPromise!ToSet, ToSet, MintPromise!IsPrefix, IsPrefix
    <2>. QED BY <2>4 DEF MintPromise!Next
<1>3. ASSUME NEW s \in Submissions, Reported(durable, durable', s)
      PROVE  MintPromise!Next \/ UNCHANGED MintPromise!vars
    <2>1. durable'.chain = durable.chain /\ durable'.final = durable.final
        BY <1>3 DEF Reported
    <2>2. durable'.sub[s].reports \in SUBSET Reporters
        BY <1>1 DEF Document, Record
    <2>3. report_tally(durable.sub[s].reports) => report_tally(durable'.sub[s].reports)
        BY <1>3, <2>2, TallyGrows DEF Reported
    <2>4. \A t \in Submissions \ {s} : t \in Withdrawn(durable') <=> t \in Withdrawn(durable)
        BY <1>3, <1>w DEF Reported
    <2>5. CASE s \in Withdrawn(durable) \/ s \notin Withdrawn(durable')
        <3>1. Withdrawn(durable') = Withdrawn(durable)
            BY <2>3, <2>4, <2>5, <1>w
        <3>. QED BY <2>1, <3>1 DEF MintPromise!vars
    <2>6. CASE s \notin Withdrawn(durable) /\ s \in Withdrawn(durable')
        <3>1. Withdrawn(durable') = Withdrawn(durable) \cup {s}
            BY <2>4, <2>6, <1>w
        <3>2. s \notin ToSet(durable.chain)
            BY <1>3 DEF Reported, Minted
        <3>3. MintPromise!Withdraw(s)
            BY <2>1, <2>6, <3>1, <3>2
               DEF MintPromise!Withdraw, MintPromise!Unminted, MintPromise!ToSet, ToSet
        <3>. QED BY <3>3 DEF MintPromise!Next
    <2>. QED BY <2>5, <2>6
<1>4. CASE Attested(durable, durable')
    <2>1. durable'.chain = durable.chain /\ Withdrawn(durable') = Withdrawn(durable)
        BY <1>4, <1>w DEF Attested
    <2>2. CASE durable'.final = durable.final
        BY <2>1, <2>2 DEF MintPromise!vars
    <2>3. CASE durable'.final \in durable.final + 1 .. Len(durable.chain)
        <3>1. MintPromise!Finalize
            BY <2>1, <2>3 DEF MintPromise!Finalize
        <3>. QED BY <3>1 DEF MintPromise!Next
    <2>. QED BY <1>4, <2>2, <2>3 DEF Attested
<1>. QED BY <1>2, <1>3, <1>4 DEF Effect

\* The stored document implements MintLedger: a block at most for each submission
\* under every retry and replay, none for a withdrawn one, and a finalized prefix
\* that no snapshot, commit or restart rewrites.
THEOREM MintKeepsPromise ==
    ASSUME PolicyAssumption
    PROVE  Spec => MintIsPromised
<1>1. Init => MintPromise!Init
    <2>. SUFFICES ASSUME Init PROVE MintPromise!Init
        OBVIOUS
    <2>1. durable.chain = <<>> /\ durable.final = 0
        BY DEF Init, InitialDocument
    <2>2. \A s \in Submissions : ~report_tally(durable.sub[s].reports)
        BY NoReportsNoTally DEF Init, InitialDocument, NewRecord
    <2>3. Withdrawn(durable) = {}
        BY <2>2 DEF Withdrawn, Init, InitialDocument
    <2>. QED BY <2>1, <2>3 DEF MintPromise!Init
<1>2. MintInv /\ MintInv' /\ [Next]_vars => [MintPromise!Next]_(MintPromise!vars)
    BY InvNext, EffectIsPromised
<1>. QED BY <1>1, <1>2, Invariance, PTL DEF Spec, MintIsPromised, MintPromise!Spec

-----------------------------------------------------------------------------
(* What a facade's memory knows of finality and disputes *)

\* Memory m tells of document d what is final and disputed there, or less.
Behind(m, d) ==
    /\ m.final <= d.final /\ m.final <= Len(m.chain)
    /\ \A i \in 1 .. m.final : m.chain[i] = d.chain[i]
    /\ m.disputes \subseteq d.disputes

\* Memory m is x but for the records and the queue.
SameHistory(m, x) == m.chain = x.chain /\ m.final = x.final /\ m.disputes = x.disputes

\* Memory m has the finality of d, on a chain that has the finalized prefix.
Adopts(m, d) == m.final = d.final /\ IsPrefix(Finalized(d), m.chain)

\* What a step may do to the memory of facade f: it is an earlier or a stored
\* document but for its records, or takes the finality of the stored one.
Remembers(f) ==
    \/ \E x \in {mem[f], durable, durable'} : SameHistory(mem'[f], x)
    \/ /\ Adopts(mem'[f], durable) \/ Adopts(mem'[f], durable')
       /\ mem'[f].disputes \in {mem[f].disputes, durable.disputes}

LEMMA BehindIsReflexive ==
    ASSUME NEW d, Stored(d)
    PROVE  Behind(d, d)
BY DEF Behind, Stored, Consistent, Document

LEMMA BehindIsTransitive ==
    ASSUME NEW a \in Document, NEW b \in Document, NEW c \in Document,
           Behind(a, b), Behind(b, c)
    PROVE  Behind(a, c)
<1>1. a.final \in Nat /\ b.final \in Nat /\ c.final \in Nat
    BY DEF Document
<1>2. \A i \in 1 .. a.final : i \in 1 .. b.final
    BY <1>1 DEF Behind
<1>. QED BY <1>1, <1>2 DEF Behind

\* A chain with the finalized prefix has it position by position.
LEMMA AdoptedIsKnown ==
    ASSUME NEW d, Stored(d), NEW m \in Document, Adopts(m, d)
    PROVE  m.final <= Len(m.chain) /\ \A i \in 1 .. m.final : m.chain[i] = d.chain[i]
<1>1. /\ d \in Document /\ d.chain \in Seq(Submissions) /\ d.final \in Nat
      /\ m.chain \in Seq(Submissions) /\ d.final <= Len(d.chain)
    BY DEF Stored, Consistent, Document
<1>2. Len(Finalized(d)) = d.final /\ \A i \in 1 .. d.final : Finalized(d)[i] = d.chain[i]
    <2>1. \A i \in 1 .. d.final : d.chain[i] \in Submissions
        BY <1>1, ElementOfSeq, LenProperties
    <2>. QED BY <1>1, <2>1, SubSeqProperties DEF Finalized
<1>3. d.final <= Len(m.chain) /\ Finalized(d) = SubSeq(m.chain, 1, d.final)
    <2>1. SubSeq(Finalized(d), 1, d.final) = Finalized(d)
        <3>1. IsPrefix(Finalized(d), d.chain)
            BY <1>1, FinalizedPrefix
        <3>. QED BY <3>1, <1>2 DEF IsPrefix, Finalized
    <2>. QED BY <2>1, <1>2 DEF Adopts, IsPrefix
<1>4. \A i \in 1 .. d.final : SubSeq(m.chain, 1, d.final)[i] = m.chain[i]
    <2>1. \A i \in 1 .. d.final : m.chain[i] \in Submissions
        BY <1>1, <1>3, ElementOfSeq, LenProperties
    <2>. QED BY <1>1, <2>1, SubSeqProperties
<1>. QED BY <1>2, <1>3, <1>4 DEF Adopts

\* What is final and disputed in the store stays so.
LEMMA StoreGrows ==
    ASSUME MintInv, MintInv', Effect
    PROVE  Behind(durable, durable')
<1>1. Stored(durable) /\ Stored(durable') /\ durable \in Document /\ durable' \in Document
    BY DEF MintInv, Stored, Consistent
<1>2. CASE Replaces(durable, durable')
    <2>1. Adopts(durable', durable)
        BY <1>2 DEF Replaces, Adopts
    <2>2. \A i \in 1 .. durable.final : durable'.chain[i] = durable.chain[i]
        BY <1>1, <2>1, AdoptedIsKnown DEF Adopts
    <2>. QED BY <1>1, <1>2, <2>2 DEF Replaces, Behind, Stored, Document
<1>3. CASE ~Replaces(durable, durable')
    <2>1. /\ durable'.chain = durable.chain /\ durable.disputes \subseteq durable'.disputes
          /\ durable'.final = durable.final \/ durable'.final \in durable.final + 1 .. Len(durable.chain)
        BY <1>3 DEF Effect, Reported, Attested
    <2>. QED BY <1>1, <2>1 DEF Behind, Stored, Document
<1>. QED BY <1>2, <1>3

\* The memory of a facade is behind the store, and never falls behind itself.
LEMMA RememberedIsBehind ==
    ASSUME MintInv, MintInv', Effect, NEW f \in Facades, Behind(mem[f], durable), Remembers(f)
    PROVE  Behind(mem'[f], durable') /\ Behind(mem[f], mem'[f])
<1>1. /\ Stored(durable) /\ Stored(durable') /\ durable \in Document /\ durable' \in Document
      /\ mem[f] \in Document /\ mem'[f] \in Document
    BY DEF MintInv, Stored, Consistent
<1>2. Behind(durable, durable') /\ Behind(mem[f], durable') /\ Behind(durable', durable')
    BY <1>1, StoreGrows, BehindIsTransitive, BehindIsReflexive
<1>3. Behind(mem[f], mem[f])
    BY <1>1 DEF Behind, Document
<1>4. ASSUME NEW x \in {mem[f], durable, durable'}, SameHistory(mem'[f], x)
      PROVE  Behind(mem'[f], durable') /\ Behind(mem[f], mem'[f])
    <2>1. Behind(x, durable') /\ Behind(mem[f], x)
        BY <1>2, <1>3, <1>4
    <2>. QED BY <1>4, <2>1 DEF SameHistory, Behind
<1>5. ASSUME NEW d \in {durable, durable'}, Adopts(mem'[f], d),
             mem'[f].disputes \in {mem[f].disputes, durable.disputes}
      PROVE  Behind(mem'[f], durable') /\ Behind(mem[f], mem'[f])
    <2>1. /\ mem'[f].final = d.final /\ d.final <= Len(mem'[f].chain)
          /\ \A i \in 1 .. d.final : mem'[f].chain[i] = d.chain[i]
        BY <1>1, <1>5, AdoptedIsKnown DEF Adopts
    <2>2. Behind(d, durable') /\ Behind(mem[f], d)
        BY <1>2
    <2>3. mem[f].final \in Nat /\ d.final \in Nat /\ \A i \in 1 .. mem[f].final : i \in 1 .. d.final
        BY <1>1, <2>2 DEF Behind, Document
    <2>4. Behind(mem'[f], durable')
        BY <1>2, <1>5, <2>1, <2>2 DEF Behind
    <2>5. Behind(mem[f], mem'[f])
        BY <1>2, <1>5, <2>1, <2>2, <2>3 DEF Behind
    <2>. QED BY <2>4, <2>5
<1>. QED BY <1>4, <1>5 DEF Remembers

-----------------------------------------------------------------------------
(* What each step remembers *)

\* A document d with other records and another queue.
Edit(d, g, q) == [d EXCEPT !.sub = g, !.queue = q]

LEMMA EditKeepsHistory ==
    ASSUME NEW d \in Document, NEW g, NEW q, NEW n
    PROVE  /\ SameHistory(Edit(d, g, q), d)
           /\ [Edit(d, g, q) EXCEPT !.final = n].final = n
           /\ [Edit(d, g, q) EXCEPT !.final = n].chain = d.chain
           /\ [Edit(d, g, q) EXCEPT !.final = n].disputes = d.disputes
           /\ [Edit(d, g, q) EXCEPT !.final = Edit(d, g, q).final] = Edit(d, g, q)
BY DEF Document, Edit, SameHistory

\* A facade saves an edited copy, or keeps one that is not saved.
LEMMA EditRemembers ==
    ASSUME MintInv, NEW f \in Facades, NEW d \in {mem[f], durable}, NEW g, NEW q,
           Save(f, Edit(d, g, q)) \/ mem' = [mem EXCEPT ![f] = Edit(d, g, q)]
    PROVE  Remembers(f)
<1>. DEFINE e == Edit(d, g, q)
            m(n) == [e EXCEPT !.final = n]
<1>1. d \in Document /\ mem \in [Facades -> Document]
    BY DEF MintInv, Stored, Consistent
<1>2. SameHistory(e, d) /\ m(e.final) = e
    BY <1>1, EditKeepsHistory
<1>3. \A n : m(n).final = n /\ m(n).chain = d.chain /\ m(n).disputes = d.disputes
    BY <1>1, EditKeepsHistory
<1>4. Save(f, e) /\ reject_stale_reports(e, durable) =>
         mem'[f] = m(durable.final) /\ IsPrefix(Finalized(durable), e.chain)
    BY <1>1 DEF Save, reject_stale_reports
<1>5. Save(f, e) /\ ~reject_stale_reports(e, durable) => mem'[f] = m(e.final)
    BY <1>1 DEF Save
<1>6. mem' = [mem EXCEPT ![f] = e] => mem'[f] = e
    BY <1>1
<1>. HIDE DEF e, m
<1>7. CASE mem'[f] = e
    BY <1>2, <1>7 DEF Remembers
<1>8. CASE mem'[f] = m(durable.final) /\ IsPrefix(Finalized(durable), e.chain)
    BY <1>2, <1>3, <1>8 DEF Remembers, Adopts, SameHistory
<1>. QED BY <1>2, <1>4, <1>5, <1>6, <1>7, <1>8 DEF e

\* An edit of a facade's memory in the words of the code.
LEMMA MemoryEdit ==
    ASSUME MintInv, NEW f \in Facades, NEW e, NEW g, NEW q, e = Edit(mem[f], g, q),
           Save(f, e) \/ mem' = [mem EXCEPT ![f] = e]
    PROVE  Remembers(f)
BY EditRemembers

\* A certified commit leaves its caller's memory or the document it stored.
LEMMA CommitRemembers ==
    ASSUME NEW d, NEW m, NEW s, NEW head
    PROVE  commit_certified_submission(d, m, s, head).memory
              \in {m, commit_certified_submission(d, m, s, head).doc}
BY DEF commit_certified_submission, Outcome

LEMMA ReviewRemembers ==
    ASSUME MintInv, NEW f \in Facades, NEW s \in Submissions,
           \/ submit_signed_content_operation(f, s)
           \/ attach_current_admission_attestation_operation(f, s)
           \/ \E o \in {"qualified", "rejected"} : cast_submission_vote(f, s, o)
           \/ \E passed \in BOOLEAN : evaluate_submission_operation(f, s, passed)
    PROVE  Remembers(f)
<1>1. /\ durable \in Document /\ mem[f] \in Document /\ mem \in [Facades -> Document]
      /\ reconcile_submission_canonical_state(durable) = durable
    BY DocumentsAreConsistent DEF MintInv, Stored, Consistent
<1>2. CASE submit_signed_content_operation(f, s)
    <2>. DEFINE e == [durable EXCEPT !.sub[s] = NewRecord(s, "pending")]
                g == [durable.sub EXCEPT ![s] = NewRecord(s, "pending")]
    <2>1. Save(f, e)
        BY <1>1, <1>2 DEF submit_signed_content_operation
    <2>2. e = Edit(durable, g, durable.queue)
        BY <1>1 DEF Document, Edit
    <2>. HIDE DEF e, g
    <2>. QED BY <2>1, <2>2, EditRemembers
<1>3. CASE attach_current_admission_attestation_operation(f, s)
    <2>. DEFINE e == [durable EXCEPT !.sub[s].status = "pending", !.sub[s].cert = FALSE,
                         !.sub[s].current = TRUE, !.sub[s].reason = "none",
                         !.sub[s].review = "open", !.queue = @ \ {s}]
                g == [durable.sub EXCEPT ![s].status = "pending", ![s].cert = FALSE,
                         ![s].current = TRUE, ![s].reason = "none", ![s].review = "open"]
    <2>1. Save(f, e)
        BY <1>1, <1>3 DEF attach_current_admission_attestation_operation
    <2>2. e = Edit(durable, g, durable.queue \ {s})
        BY <1>1 DEF Document, Edit
    <2>. HIDE DEF e, g
    <2>. QED BY <2>1, <2>2, EditRemembers
<1>4. ASSUME NEW o, cast_submission_vote(f, s, o)
      PROVE  Remembers(f)
    <2>. DEFINE e == [mem[f] EXCEPT !.sub[s].review = o]
                g == [mem[f].sub EXCEPT ![s].review = o]
    <2>1. Save(f, e)
        BY <1>4 DEF cast_submission_vote
    <2>2. e = Edit(mem[f], g, mem[f].queue)
        BY <1>1 DEF Document, Edit
    <2>. HIDE DEF e, g
    <2>. QED BY <2>1, <2>2, MemoryEdit
<1>5. ASSUME NEW passed \in BOOLEAN, evaluate_submission_operation(f, s, passed)
      PROVE  Remembers(f)
    <2>. DEFINE d == mem[f]
                approved == [d EXCEPT !.sub[s].status = "approved", !.sub[s].cert = TRUE]
                rejected == [d EXCEPT !.sub[s].status = "rejected"]
                invalid == _quarantine_current_submission(d, s, "invalid")
                refused == _quarantine_current_submission(d, s, "review")
    <2>1. PICK e \in {d, approved, rejected, invalid, refused, add(approved, s)} :
             Save(f, e) \/ mem' = [mem EXCEPT ![f] = e]
        <3>1. mem = [mem EXCEPT ![f] = d]
            BY <1>1
        <3>. QED BY <3>1, <1>5 DEF evaluate_submission_operation
    <2>2. d = Edit(d, d.sub, d.queue)
        BY <1>1 DEF Document, Edit
    <2>3. rejected = Edit(d, [d.sub EXCEPT ![s].status = "rejected"], d.queue)
        BY <1>1 DEF Document, Edit
    <2>4. approved = Edit(d, [[d.sub EXCEPT ![s].status = "approved"] EXCEPT ![s].cert = TRUE],
                          d.queue)
        BY <1>1 DEF Document, Edit
    <2>5. \E g, q : add(approved, s) = Edit(d, g, q)
        <3>. DEFINE h == [[d.sub EXCEPT ![s].status = "approved"] EXCEPT ![s].cert = TRUE]
                    a == Edit(d, h, d.queue)
        <3>1. add(a, s) = Edit(d, [h EXCEPT ![s].status = "queued"], d.queue \cup {s})
            <4>. HIDE DEF d, h
            <4>. QED BY <1>1 DEF Document, Edit, add, d
        <3>2. approved = a
            BY <2>4
        <3>. HIDE DEF approved, a, d, h
        <3>. QED BY <3>1, <3>2
    <2>6. invalid = Edit(d, [[d.sub EXCEPT ![s].status = "quarantined"] EXCEPT ![s].reason = "invalid"],
                         d.queue \ {s})
        BY <1>1 DEF Document, Edit, _quarantine_current_submission
    <2>7. refused = Edit(d, [[d.sub EXCEPT ![s].status = "quarantined"] EXCEPT ![s].reason = "review"],
                         d.queue \ {s})
        BY <1>1 DEF Document, Edit, _quarantine_current_submission
    <2>8. \E g, q : e = Edit(d, g, q)
        <3>. HIDE DEF d, approved, rejected, invalid, refused
        <3>. QED BY <2>1, <2>2, <2>3, <2>4, <2>5, <2>6, <2>7
    <2>. HIDE DEF approved, rejected, invalid, refused
    <2>. QED BY <2>1, <2>8, MemoryEdit
<1>. QED BY <1>2, <1>3, <1>4, <1>5

LEMMA QueueRemembers ==
    ASSUME MintInv, NEW f \in Facades,
           \/ get_mint_queue_operation(f) \/ cleanup_bad_mint_queue_items(f)
           \/ \E s \in Submissions : \/ block_submission_minting_operation(f, s)
                                     \/ unblock_submission_minting_operation(f, s)
    PROVE  Remembers(f)
<1>1. mem[f] \in Document
    BY DEF MintInv
<1>2. CASE get_mint_queue_operation(f)
    <2>1. PICK g, q : Save(f, [mem[f] EXCEPT !.sub = g, !.queue = q])
        BY <1>2 DEF get_mint_queue_operation
    <2>. QED BY <2>1, EditRemembers DEF Edit
<1>3. CASE cleanup_bad_mint_queue_items(f)
    <2>1. PICK g : Save(f, [mem[f] EXCEPT !.sub = g])
        BY <1>3 DEF cleanup_bad_mint_queue_items
    <2>2. [mem[f] EXCEPT !.sub = g] = Edit(mem[f], g, mem[f].queue)
        BY <1>1 DEF Document, Edit
    <2>. QED BY <2>1, <2>2, EditRemembers
<1>4. ASSUME NEW s \in Submissions, \/ block_submission_minting_operation(f, s)
                                    \/ unblock_submission_minting_operation(f, s)
      PROVE  Remembers(f)
    <2>. DEFINE e(b) == [mem[f] EXCEPT !.sub[s].blocked = b]
                g(b) == [mem[f].sub EXCEPT ![s].blocked = b]
    <2>1. PICK b \in BOOLEAN : Save(f, e(b))
        BY <1>4 DEF block_submission_minting_operation, unblock_submission_minting_operation
    <2>2. e(b) = Edit(mem[f], g(b), mem[f].queue)
        BY <1>1 DEF Document, Edit
    <2>. HIDE DEF e, g
    <2>. QED BY <2>1, <2>2, MemoryEdit
<1>. QED BY <1>2, <1>3, <1>4

LEMMA LoadRemembers ==
    ASSUME MintInv, NEW f \in Facades,
           \/ load_blockchain(f) \/ Restart(f)
           \/ RetrySelect(f) \/ RetryNone(f) \/ RetryBusy(f) \/ RetryCommit(f)
    PROVE  Remembers(f)
<1>1. /\ durable \in Document /\ mem \in [Facades -> Document]
      /\ reconcile_submission_canonical_state(durable) = durable
    BY DocumentsAreConsistent DEF MintInv, Stored, Consistent
<1>2. CASE Restart(f)
    <2>1. mem' = [mem EXCEPT ![f] = ReconcileQueue(durable)]
        BY <1>1, <1>2 DEF Restart
    <2>2. PICK g, q : ReconcileQueue(durable) = Edit(durable, g, q)
        BY DEF ReconcileQueue, Edit
    <2>. QED BY <2>1, <2>2, EditRemembers
<1>3. CASE load_blockchain(f) \/ RetrySelect(f) \/ RetryNone(f)
    <2>1. mem'[f] = durable
        BY <1>1, <1>3 DEF load_blockchain, RetrySelect, RetryNone
    <2>. QED BY <2>1 DEF Remembers, SameHistory
<1>4. CASE RetryBusy(f)
    BY <1>4 DEF RetryBusy, Remembers, SameHistory
<1>5. CASE RetryCommit(f)
    <2>1. PICK call \in retry[f] :
             LET o == commit_certified_submission(durable, mem[f], call.sub, call.head) IN
             durable' = o.doc /\ mem' = [mem EXCEPT ![f] = o.memory]
        BY <1>5 DEF RetryCommit
    <2>2. mem'[f] \in {mem[f], durable'}
        BY <1>1, <2>1, CommitRemembers
    <2>. QED BY <2>2 DEF Remembers, SameHistory
<1>. QED BY <1>2, <1>3, <1>4, <1>5

LEMMA StoreRemembers ==
    ASSUME MintInv, NEW f \in Facades, NEW s \in Submissions,
           \/ mint_submission_operation(f, s)
           \/ \E w \in Reporters : \/ record_community_report_operation(f, s, w)
                                   \/ record_post_mint_dispute_operation(f, s, w)
    PROVE  Remembers(f)
<1>1. mem \in [Facades -> Document]
    BY DEF MintInv
<1>2. ASSUME NEW w \in Reporters, \/ record_community_report_operation(f, s, w)
                                  \/ record_post_mint_dispute_operation(f, s, w)
      PROVE  Remembers(f)
    <2>1. mem'[f] = durable'
        BY <1>1, <1>2 DEF record_community_report_operation, record_post_mint_dispute_operation
    <2>. QED BY <2>1 DEF Remembers, SameHistory
<1>3. CASE mint_submission_operation(f, s)
    <2>. DEFINE m == IF addable(mem[f], s) THEN add(mem[f], s) ELSE mem[f]
                d == IF addable(mem[f], s) THEN Overlay(m, durable) ELSE durable
                c == commit_certified_submission(d, m, s, m.chain)
    <2>1. \/ mem'[f] = m
          \/ durable' = c.doc /\ mem'[f] = c.memory
        BY <1>1, <1>3 DEF mint_submission_operation, Outcome
    <2>2. SameHistory(m, mem[f])
        BY <1>1 DEF add, Document, SameHistory
    <2>. HIDE DEF m, d
    <2>3. c.memory \in {m, c.doc}
        BY CommitRemembers
    <2>4. SameHistory(mem'[f], mem[f]) \/ mem'[f] = durable'
        BY <2>1, <2>2, <2>3
    <2>. QED BY <2>4 DEF Remembers, SameHistory
<1>. QED BY <1>2, <1>3

LEMMA FinalizeRemembers ==
    ASSUME MintInv, NEW f \in Facades, Finalize(f)
    PROVE  Remembers(f)
<1>1. /\ durable \in Document /\ mem \in [Facades -> Document] /\ mem[f] \in Document
      /\ durable.chain \in Seq(Submissions) /\ Len(durable.chain) \in Nat
    BY LenProperties DEF MintInv, Stored, Consistent, Document
<1>2. /\ mem'[f].chain = durable.chain /\ mem'[f].disputes = mem[f].disputes
      /\ mem'[f].final = Len(durable.chain)
      /\ durable'.final = Len(durable.chain) /\ durable'.chain = durable.chain
    BY <1>1 DEF Finalize, Document
<1>3. durable' \in Document
    BY <1>1 DEF Finalize, Document
<1>4. IsPrefix(Finalized(durable'), durable'.chain)
    BY <1>1, <1>2, <1>3, FinalizedPrefix
<1>. QED BY <1>2, <1>4 DEF Remembers, Adopts

\* Every memory is behind the store.
MemoriesBehind == \A f \in Facades : Behind(mem[f], durable)

PagesInv == MintInv /\ MemoriesBehind

\* No facade's memory falls behind what it knew.
MemoriesGrow == \A f \in Facades : Behind(mem[f], mem'[f])

LEMMA PagesInvInit ==
    ASSUME PolicyAssumption, Init
    PROVE  PagesInv
<1>1. MintInv /\ durable.final = 0 /\ \A f \in Facades : mem[f] = durable
    BY InvInit DEF Init, InitialDocument
<1>2. Behind(durable, durable)
    BY <1>1, BehindIsReflexive DEF MintInv
<1>. QED BY <1>1, <1>2 DEF PagesInv, MemoriesBehind

\* Only one facade at a time changes its memory.
LEMMA OneFacade ==
    ASSUME MintInv, [Next]_vars
    PROVE  mem' = mem \/ \E f \in Facades : Remembers(f) /\ \A g \in Facades \ {f} : mem'[g] = mem[g]
<1>1. mem \in [Facades -> Document]
    BY DEF MintInv
<1>2. ASSUME NEW f \in Facades, \E m : mem' = [mem EXCEPT ![f] = m]
      PROVE  \A g \in Facades \ {f} : mem'[g] = mem[g]
    BY <1>1, <1>2
<1>3. ASSUME NEW f \in Facades,
             load_blockchain(f) \/ Restart(f) \/ Finalize(f) \/ get_mint_queue_operation(f)
               \/ cleanup_bad_mint_queue_items(f)
               \/ RetrySelect(f) \/ RetryNone(f) \/ RetryBusy(f) \/ RetryCommit(f)
      PROVE  Remembers(f) /\ \E m : mem' = [mem EXCEPT ![f] = m]
    <2>1. Remembers(f)
        BY <1>3, LoadRemembers, QueueRemembers, FinalizeRemembers
    <2>2. CASE Finalize(f)
        <3>1. mem' = [mem EXCEPT ![f] = [mem[f] EXCEPT !.final = Len(durable.chain)]]
            BY <1>1, <2>2 DEF Finalize
        <3>. QED BY <3>1, <2>1
    <2>3. CASE RetryBusy(f)
        <3>1. mem' = [mem EXCEPT ![f] = mem[f]]
            BY <1>1, <2>3 DEF RetryBusy
        <3>. QED BY <3>1, <2>1
    <2>4. CASE load_blockchain(f) \/ Restart(f) \/ RetrySelect(f) \/ RetryNone(f) \/ RetryCommit(f)
        BY <2>1, <2>4 DEF load_blockchain, Restart, RetrySelect, RetryNone, RetryCommit
    <2>5. CASE get_mint_queue_operation(f) \/ cleanup_bad_mint_queue_items(f)
        BY <2>1, <2>5 DEF get_mint_queue_operation, cleanup_bad_mint_queue_items, Save
    <2>. QED BY <1>3, <2>2, <2>3, <2>4, <2>5
<1>4. ASSUME NEW f \in Facades, NEW s \in Submissions,
             \/ submit_signed_content_operation(f, s)
             \/ attach_current_admission_attestation_operation(f, s)
             \/ \E o \in {"qualified", "rejected"} : cast_submission_vote(f, s, o)
             \/ \E passed \in BOOLEAN : evaluate_submission_operation(f, s, passed)
      PROVE  Remembers(f) /\ \E m : mem' = [mem EXCEPT ![f] = m]
    <2>1. mem = [mem EXCEPT ![f] = mem[f]]
        BY <1>1
    <2>2. (\E e : Save(f, e)) => \E m : mem' = [mem EXCEPT ![f] = m]
        BY DEF Save
    <2>3. (\E e : Save(f, e)) \/ (\E m : mem' = [mem EXCEPT ![f] = m]) \/ mem' = mem
        BY <1>4 DEF submit_signed_content_operation, attach_current_admission_attestation_operation,
                    cast_submission_vote, evaluate_submission_operation
    <2>. QED BY <1>4, <2>1, <2>2, <2>3, ReviewRemembers
<1>5. ASSUME NEW f \in Facades, NEW s \in Submissions,
             \/ block_submission_minting_operation(f, s)
             \/ unblock_submission_minting_operation(f, s)
      PROVE  Remembers(f) /\ \E m : mem' = [mem EXCEPT ![f] = m]
    BY <1>5, QueueRemembers
       DEF block_submission_minting_operation, unblock_submission_minting_operation, Save
<1>6. ASSUME NEW f \in Facades, NEW s \in Submissions,
             \/ mint_submission_operation(f, s)
             \/ \E w \in Reporters : \/ record_community_report_operation(f, s, w)
                                     \/ record_post_mint_dispute_operation(f, s, w)
      PROVE  Remembers(f) /\ \E m : mem' = [mem EXCEPT ![f] = m]
    BY <1>6, StoreRemembers
       DEF mint_submission_operation, record_community_report_operation,
           record_post_mint_dispute_operation
<1>7. (\E s \in Submissions : Disturb(s)) \/ UNCHANGED vars => mem' = mem
    BY DEF Disturb, vars
<1>. QED BY <1>2, <1>3, <1>4, <1>5, <1>6, <1>7 DEF Next

LEMMA PagesInvNext ==
    ASSUME PolicyAssumption, PagesInv, [Next]_vars
    PROVE  PagesInv' /\ MemoriesGrow /\ Behind(durable, durable')
<1>1. MintInv /\ MintInv' /\ Effect
    BY InvNext DEF PagesInv
<1>2. /\ durable \in Document /\ durable' \in Document
      /\ \A f \in Facades : mem[f] \in Document /\ mem'[f] \in Document
    BY <1>1 DEF MintInv, Stored, Consistent
<1>3. Behind(durable, durable')
    BY <1>1, StoreGrows
<1>4. \A f \in Facades : Behind(mem[f], durable)
    BY DEF PagesInv, MemoriesBehind
<1>5. \A f \in Facades : Behind(mem[f], durable') /\ Behind(mem[f], mem[f])
    <2>1. \A f \in Facades : Behind(mem[f], durable')
        BY <1>2, <1>3, <1>4, BehindIsTransitive
    <2>2. \A f \in Facades : Behind(mem[f], mem[f])
        BY <1>2, <1>4 DEF Behind, Document
    <2>. QED BY <2>1, <2>2
<1>6. CASE mem' = mem
    BY <1>1, <1>3, <1>5, <1>6 DEF PagesInv, MemoriesBehind, MemoriesGrow
<1>7. ASSUME NEW f \in Facades, Remembers(f), \A g \in Facades \ {f} : mem'[g] = mem[g]
      PROVE  PagesInv' /\ MemoriesGrow /\ Behind(durable, durable')
    <2>1. Behind(mem'[f], durable') /\ Behind(mem[f], mem'[f])
        BY <1>1, <1>4, <1>7, RememberedIsBehind
    <2>2. \A g \in Facades : Behind(mem'[g], durable') /\ Behind(mem[g], mem'[g])
        BY <1>5, <1>7, <2>1
    <2>. QED BY <1>1, <1>3, <2>2 DEF PagesInv, MemoriesBehind, MemoriesGrow
<1>. QED BY <1>1, <1>6, <1>7, OneFacade DEF PagesInv

LEMMA PagesInvariance ==
    ASSUME PolicyAssumption
    PROVE  Spec => []PagesInv
<1>1. Init => PagesInv
    BY PagesInvInit
<1>2. PagesInv /\ [Next]_vars => PagesInv'
    BY PagesInvNext
<1>. QED BY <1>1, <1>2, PTL DEF Spec

-----------------------------------------------------------------------------
(* The pages *)

\* What is final or disputed for a memory is so for a document it is behind.
LEMMA FinalPosition ==
    ASSUME NEW d \in Document, d.final <= Len(d.chain), NEW s
    PROVE  block_chain_state(d, s) <=> \E i \in 1 .. d.final : d.chain[i] = s
<1>1. d.chain \in Seq(Submissions) /\ d.final \in Nat /\ Len(Finalized(d)) = d.final
    BY FinalizedPrefix DEF Document
<1>2. \A i \in 1 .. d.final : d.chain[i] \in Submissions
    BY <1>1, ElementOfSeq, LenProperties
<1>3. /\ Finalized(d) \in Seq(Submissions)
      /\ \A i \in 1 .. d.final : Finalized(d)[i] = d.chain[i]
    BY <1>1, <1>2, SubSeqProperties DEF Finalized
<1>4. DOMAIN Finalized(d) = 1 .. d.final
    BY <1>1, <1>3, LenProperties
<1>. QED BY <1>3, <1>4 DEF block_chain_state, ToSet

LEMMA FinalElsewhere ==
    ASSUME PolicyAssumption, NEW m \in Document, NEW d \in Document, Behind(m, d),
           d.final <= Len(d.chain), NEW s
    PROVE  /\ block_chain_state(m, s) => block_chain_state(d, s)
           /\ dispute_status(m, s) => dispute_status(d, s)
<1>1. block_chain_state(m, s) => block_chain_state(d, s)
    <2>1. \A i \in 1 .. m.final : i \in 1 .. d.final /\ m.chain[i] = d.chain[i]
        BY DEF Behind, Document
    <2>. QED BY <2>1, FinalPosition DEF Behind
<1>2. dispute_status(m, s) => dispute_status(d, s)
    <2>1. /\ {w \in Reporters : <<w, s>> \in m.disputes} \subseteq {w \in Reporters : <<w, s>> \in d.disputes}
          /\ {w \in Reporters : <<w, s>> \in d.disputes} \in SUBSET Reporters
        BY DEF Behind
    <2>. QED BY <2>1, TallyGrows DEF dispute_status
<1>. QED BY <1>1, <1>2

\* What is final has a block.
LEMMA FinalIsMinted ==
    ASSUME NEW m \in Document, m.final <= Len(m.chain), NEW s, block_chain_state(m, s)
    PROVE  Minted(m, s)
<1>1. \E i \in 1 .. m.final : m.chain[i] = s
    BY FinalPosition
<1>2. DOMAIN m.chain = 1 .. Len(m.chain) /\ Len(m.chain) \in Nat /\ m.final \in Nat
    BY LenProperties DEF Document
<1>. QED BY <1>1, <1>2 DEF Minted, ToSet

\* Without a block, no reader says that there is one.
LEMMA AdmissionIsNotFinal ==
    ASSUME NEW m, NEW s
    PROVE  /\ admission_status(m, s) \notin {"finalized", "post_mint_disputed"}
           /\ admission_status(m, s) = "minted" => m.sub[s].status = "minted"
BY DEF admission_status, AwaitingAttestation

LEMMA StageIsFinal ==
    ASSUME NEW m, NEW s
    PROVE  /\ stage(m, s) \in {"finalized", "post_mint_disputed"} <=> block_chain_state(m, s)
           /\ stage(m, s) = "post_mint_disputed" <=> block_chain_state(m, s) /\ dispute_status(m, s)
BY AdmissionIsNotFinal DEF stage

\* The stage, the mint status, the phase and the page of the block are computed
\* apart, from whatever copy the answering facade holds, and name the same fate
\* (_public_submission_lifecycle, mint_status, _serialize_block).
THEOREM PagesAgree ==
    ASSUME PolicyAssumption
    PROVE  Spec => []ReadersAgree
<1>1. ASSUME PagesInv PROVE ReadersAgree
    <2>. SUFFICES ASSUME NEW f \in Facades, NEW s \in Submissions
                  PROVE  LET page == _public_submission_lifecycle(mem[f], s)
                             block == _serialize_block(mem[f], s) IN
                         /\ page.mint = "minted" <=> page.stage \in {"minted", "finalized", "post_mint_disputed"}
                         /\ page.phase \in {"canonical", "confirmed"} <=> page.stage = "minted"
                         /\ page.phase = "finalized" <=> Final(page)
                         /\ page.finality = IF page.mint = "minted" THEN page.phase ELSE "none"
                         /\ block = "disputed" <=> page.stage = "post_mint_disputed"
                         /\ block # "disputed" => block = page.finality
        BY DEF ReadersAgree, get_submissions, Present
    <2>. DEFINE m == mem[f]
                final == block_chain_state(m, s)
                disputed == dispute_status(m, s)
    <2>1. m \in Document /\ Consistent(m) /\ m.final <= Len(m.chain)
        BY <1>1 DEF PagesInv, MintInv, MemoriesBehind, Behind
    <2>2. (final => Minted(m, s)) /\ (Minted(m, s) <=> m.sub[s].status = "minted")
        BY <2>1, FinalIsMinted DEF Consistent
    <2>3. mint_status(m, s) = "minted" <=> Minted(m, s)
        BY <2>2 DEF mint_status
    <2>4. /\ stage(m, s) \in {"finalized", "post_mint_disputed"} <=> final
          /\ stage(m, s) = "post_mint_disputed" <=> final /\ disputed
          /\ stage(m, s) = "minted" <=> ~final /\ Minted(m, s)
        <3>1. /\ stage(m, s) \in {"finalized", "post_mint_disputed"} <=> final
              /\ stage(m, s) = "post_mint_disputed" <=> final /\ disputed
            BY StageIsFinal
        <3>2. admission_status(m, s) = "minted" => Minted(m, s)
            BY <2>2, AdmissionIsNotFinal
        <3>. QED BY <3>1, <3>2, <2>3 DEF stage
    <2>5. Confirmed(m, s) => Minted(m, s)
        BY DEF Confirmed, Minted, ToSet
    <2>6. /\ phase(m, s) = "finalized" <=> final
          /\ phase(m, s) \in {"canonical", "confirmed"} <=> ~final /\ Minted(m, s)
        BY <2>5 DEF phase
    <2>7. /\ block_status(m, s) = IF Minted(m, s) THEN phase(m, s) ELSE "none"
          /\ block_status(m, s) \in {"finalized", "confirmed", "canonical", "none"}
          /\ block_status(m, s) = "finalized" <=> final
        BY <2>2, <2>5 DEF block_status, phase
    <2>8. /\ _serialize_block(m, s) = "disputed" <=> final /\ disputed
          /\ _serialize_block(m, s) # "disputed" => _serialize_block(m, s) = block_status(m, s)
        BY <2>7 DEF _serialize_block
    <2>. DEFINE page == _public_submission_lifecycle(m, s)
    <2>9. /\ page.mint = mint_status(m, s) /\ page.stage = stage(m, s)
          /\ page.phase = phase(m, s) /\ page.finality = block_status(m, s)
          /\ Final(page) <=> stage(m, s) \in {"finalized", "post_mint_disputed"}
        BY DEF _public_submission_lifecycle, Final
    <2>10. Minted(m, s) \/ ~final
        BY <2>2
    <2>. HIDE DEF page, final, disputed
    <2>. QED BY <2>3, <2>4, <2>6, <2>7, <2>8, <2>9, <2>10 DEF page
<1>. QED BY <1>1, PagesInvariance, PTL

\* What any facade shows as final is final in the store, and a dispute it shows is
\* stored there, however old its copy is (_public_submission_lifecycle).
THEOREM FinalPagesHold ==
    ASSUME PolicyAssumption
    PROVE  Spec => []FinalPagesAreTrue
<1>1. ASSUME PagesInv PROVE FinalPagesAreTrue
    <2>. SUFFICES ASSUME NEW f \in Facades, NEW s \in Submissions
                  PROVE  LET page == _public_submission_lifecycle(mem[f], s) IN
                         /\ Final(page) => s \in ToSet(Finalized(durable))
                         /\ page.stage = "post_mint_disputed" => dispute_status(durable, s)
        BY DEF FinalPagesAreTrue, get_submissions, Present
    <2>1. /\ mem[f] \in Document /\ durable \in Document /\ Behind(mem[f], durable)
          /\ durable.final <= Len(durable.chain)
        BY <1>1 DEF PagesInv, MintInv, MemoriesBehind, Stored, Consistent
    <2>2. /\ block_chain_state(mem[f], s) => block_chain_state(durable, s)
          /\ dispute_status(mem[f], s) => dispute_status(durable, s)
        BY <2>1, FinalElsewhere
    <2>. QED BY <2>2, StageIsFinal DEF block_chain_state, _public_submission_lifecycle, Final
<1>. QED BY <1>1, PagesInvariance, PTL

\* What a facade shows as final and as disputed.
StageTells(f, s) ==
    /\ FinalAt(f, s) <=> block_chain_state(mem[f], s)
    /\ DisputedAt(f, s) <=> block_chain_state(mem[f], s) /\ dispute_status(mem[f], s)

LEMMA StagesTell ==
    ASSUME NEW f \in Facades, NEW s \in Submissions
    PROVE  StageTells(f, s) /\ StageTells(f, s)'
<1>1. StageTells(f, s)
    BY StageIsFinal DEF StageTells, FinalAt, DisputedAt, Final, _public_submission_lifecycle
<1>2. StageTells(f, s)'
    BY <1>1, PTL
<1>. QED BY <1>1, <1>2

\* No load, restart, save or retry makes a facade take back a final stage, nor the
\* warning that finalized media are disputed (load_blockchain, save_blockchain).
THEOREM FinalStagesStay ==
    ASSUME PolicyAssumption
    PROVE  Spec => FinalStageStays /\ WarningStays
<1>1. ASSUME PagesInv, [Next]_vars PROVE KeepsFinalStage /\ KeepsWarning
    <2>. SUFFICES ASSUME NEW f \in Facades, NEW s \in Submissions
                  PROVE  /\ FinalAt(f, s) => FinalAt(f, s)'
                         /\ DisputedAt(f, s) => DisputedAt(f, s)'
        BY DEF KeepsFinalStage, KeepsWarning
    <2>1. PagesInv' /\ MemoriesGrow
        BY <1>1, PagesInvNext
    <2>2. /\ mem[f] \in Document /\ mem'[f] \in Document /\ Behind(mem[f], mem'[f])
          /\ mem'[f].final <= Len(mem'[f].chain)
        BY <1>1, <2>1 DEF PagesInv, MintInv, MemoriesBehind, MemoriesGrow, Behind
    <2>3. /\ block_chain_state(mem[f], s) => block_chain_state(mem'[f], s)
          /\ dispute_status(mem[f], s) => dispute_status(mem'[f], s)
        BY <2>2, FinalElsewhere
    <2>4. StageTells(f, s) /\ StageTells(f, s)'
        BY StagesTell
    <2>. QED BY <2>3, <2>4 DEF StageTells
<1>. QED BY <1>1, PagesInvariance, PTL DEF Spec, FinalStageStays, WarningStays

-----------------------------------------------------------------------------
(* The eligibility page of a wallet.  It shares no state with AdmissionMint; *)
(* "mem" are here the access records in the memory of the API.             *)

CONSTANTS Policies, Gates, EpochLimit, Entries, MaxVotes, MaxSubmitted, MaxChallenges, MaxChanges

VARIABLES policy, gate, store, signedIn, invite, votes, dayFrom, epochFrom, standing, challenged,
          submitted, balance, changes

Page == INSTANCE EligibilityPage

LEMMA CardinalityOnPage == ASSUME NEW S PROVE Page!Cardinality(S) = Cardinality(S)
BY DEF Page!Cardinality, Cardinality

Votes == [submission : Submissions, dimension : Page!Dimensions, local : BOOLEAN, opens : BOOLEAN]

\* The submissions of the votes from one on, of any sequence of votes.
Since(vs, from) == {vs[i].submission : i \in from .. Len(vs)}

\* The votes that began voting on a submission within the day.
Openings(vs, from) == {i \in from .. Len(vs) : vs[i].opens}

\* A vote that opens a submission is the day's first on it, so the openings of a
\* day are of different submissions.
OpensFirst(vs, from) ==
    \A i \in from .. Len(vs) : vs[i].opens =>
        \A j \in from .. Len(vs) : j < i => vs[j].submission # vs[i].submission

PageInv ==
    /\ policy \in Policies
    /\ votes \in Seq(Votes)
    /\ dayFrom \in 1 .. Len(votes) + 1 /\ epochFrom \in 1 .. Len(votes) + 1
    /\ OpensFirst(votes, dayFrom)
    /\ Page!DailyLimitHolds /\ Page!EpochLimitHolds

LEMMA SinceIsFinite ==
    ASSUME NEW vs \in Seq(Votes), NEW from \in Nat
    PROVE  /\ IsFiniteSet(Since(vs, from)) /\ Cardinality(Since(vs, from)) \in Nat
           /\ IsFiniteSet(Openings(vs, from)) /\ Cardinality(Openings(vs, from)) \in Nat
<1>. DEFINE f == [i \in from .. Len(vs) |-> vs[i].submission]
<1>1. IsFiniteSet(from .. Len(vs))
    BY FS_Interval
<1>2. f \in Surjection(from .. Len(vs), Since(vs, from))
    BY DEF Surjection, Since
<1>3. IsFiniteSet(Since(vs, from))
    BY <1>1, <1>2, FS_Surjection
<1>4. Openings(vs, from) \in SUBSET (from .. Len(vs))
    BY DEF Openings
<1>5. IsFiniteSet(Openings(vs, from))
    BY <1>1, <1>4, FS_Subset
<1>. QED BY <1>3, <1>5, FS_CardinalityType

\* No more openings than submissions voted on.
LEMMA OpeningsDiffer ==
    ASSUME NEW vs \in Seq(Votes), NEW from \in Nat, OpensFirst(vs, from)
    PROVE  Cardinality(Openings(vs, from)) <= Cardinality(Since(vs, from))
<1>. DEFINE f == [i \in Openings(vs, from) |-> vs[i].submission]
<1>1. f \in Injection(Openings(vs, from), Since(vs, from))
    <2>1. f \in [Openings(vs, from) -> Since(vs, from)]
        BY DEF Openings, Since
    <2>2. ASSUME NEW i \in Openings(vs, from), NEW j \in Openings(vs, from), f[i] = f[j]
          PROVE  i = j
        BY <2>2 DEF Openings, OpensFirst
    <2>. HIDE DEF f
    <2>. QED BY <2>1, <2>2 DEF Injection, IsInjective
<1>. QED BY <1>1, SinceIsFinite, FS_Injection

\* A vote more.
LEMMA SinceAppended ==
    ASSUME NEW vs \in Seq(Votes), NEW v \in Votes, NEW from \in 1 .. Len(vs) + 1
    PROVE  /\ Since(Append(vs, v), from) = Since(vs, from) \cup {v.submission}
           /\ Openings(Append(vs, v), from) =
                IF v.opens THEN Openings(vs, from) \cup {Len(vs) + 1} ELSE Openings(vs, from)
           /\ Append(vs, v) \in Seq(Votes) /\ Len(Append(vs, v)) = Len(vs) + 1
<1>. DEFINE ws == Append(vs, v)
<1>1. /\ ws \in Seq(Votes) /\ Len(ws) = Len(vs) + 1
      /\ ws[Len(vs) + 1] = v /\ \A i \in 1 .. Len(vs) : ws[i] = vs[i]
    BY AppendProperties
<1>2. from .. Len(ws) = (from .. Len(vs)) \cup {Len(vs) + 1}
    BY <1>1
<1>3. \A i \in from .. Len(vs) : ws[i] = vs[i]
    BY <1>1
<1>. HIDE DEF ws
<1>4. Since(ws, from) = Since(vs, from) \cup {v.submission}
    BY <1>1, <1>2, <1>3 DEF Since
<1>5. Openings(ws, from) = IF v.opens THEN Openings(vs, from) \cup {Len(vs) + 1} ELSE Openings(vs, from)
    BY <1>1, <1>2, <1>3 DEF Openings
<1>. QED BY <1>1, <1>4, <1>5 DEF ws

\* A vote that opens a submission is one the day had none on, and it stays within
\* the limit because each earlier opening counts too.
LEMMA DayAppended ==
    ASSUME NEW vs \in Seq(Votes), NEW v \in Votes, NEW from \in 1 .. Len(vs) + 1, NEW limit \in Nat,
           OpensFirst(vs, from), Cardinality(Openings(vs, from)) <= limit,
           v.opens => v.submission \notin Since(vs, from) /\ Cardinality(Since(vs, from)) < limit
    PROVE  /\ OpensFirst(Append(vs, v), from)
           /\ Cardinality(Openings(Append(vs, v), from)) <= limit
<1>. DEFINE ws == Append(vs, v)
<1>1. /\ ws \in Seq(Votes) /\ Len(ws) = Len(vs) + 1
      /\ ws[Len(vs) + 1] = v /\ \A i \in 1 .. Len(vs) : ws[i] = vs[i]
    BY AppendProperties
<1>2. OpensFirst(ws, from)
    <2>. HIDE DEF ws
    <2>. SUFFICES ASSUME NEW i \in from .. Len(ws), ws[i].opens, NEW j \in from .. Len(ws), j < i
                  PROVE  ws[j].submission # ws[i].submission
        BY DEF OpensFirst
    <2>1. j \in from .. Len(vs) /\ ws[j] = vs[j]
        BY <1>1
    <2>2. CASE i = Len(vs) + 1
        BY <1>1, <2>1, <2>2 DEF Since
    <2>3. CASE i # Len(vs) + 1
        <3>1. i \in from .. Len(vs) /\ ws[i] = vs[i]
            BY <1>1, <2>3
        <3>. QED BY <2>1, <3>1 DEF OpensFirst
    <2>. QED BY <2>2, <2>3
<1>3. Cardinality(Openings(ws, from)) <= limit
    <2>1. /\ IsFiniteSet(Openings(vs, from)) /\ Cardinality(Openings(vs, from)) \in Nat
          /\ Cardinality(Since(vs, from)) \in Nat
        BY SinceIsFinite
    <2>2. CASE v.opens
        <3>1. Cardinality(Openings(vs, from)) < limit
            <4>1. Cardinality(Openings(vs, from)) <= Cardinality(Since(vs, from))
                BY OpeningsDiffer
            <4>. QED BY <2>1, <2>2, <4>1
        <3>2. Openings(ws, from) = Openings(vs, from) \cup {Len(vs) + 1}
            BY <2>2, SinceAppended
        <3>. HIDE DEF ws
        <3>3. \/ Cardinality(Openings(ws, from)) = Cardinality(Openings(vs, from)) + 1
              \/ Cardinality(Openings(ws, from)) = Cardinality(Openings(vs, from))
            <4>1. Cardinality(Openings(vs, from) \cup {Len(vs) + 1}) =
                     IF Len(vs) + 1 \in Openings(vs, from) THEN Cardinality(Openings(vs, from))
                     ELSE Cardinality(Openings(vs, from)) + 1
                BY <2>1, FS_AddElement
            <4>. QED BY <3>2, <4>1
        <3>. QED BY <2>1, <3>1, <3>3
    <2>3. CASE ~v.opens
        BY <2>3, SinceAppended
    <2>. QED BY <2>2, <2>3
<1>. QED BY <1>2, <1>3

\* The sets of the page are those of any sequence of votes.
LEMMA WindowsOfVotes ==
    /\ \A from : Page!VotedSince(from) = Since(votes, from)
    /\ Page!DailyLimitHolds <=> (policy.limit > 0 => Cardinality(Openings(votes, dayFrom)) <= policy.limit)
    /\ Page!EpochLimitHolds <=> (gate.network => Cardinality(Since(votes, epochFrom)) <= EpochLimit)
BY CardinalityOnPage DEF Page!VotedSince, Since, Openings, Page!DailyLimitHolds, Page!EpochLimitHolds

\* The same after a step.
LEMMA WindowsAfter ==
    /\ (Page!DailyLimitHolds)' <=>
          (policy'.limit > 0 => Cardinality(Openings(votes', dayFrom')) <= policy'.limit)
    /\ (Page!EpochLimitHolds)' <=> (gate'.network => Cardinality(Since(votes', epochFrom')) <= EpochLimit)
BY CardinalityOnPage DEF Page!VotedSince, Since, Openings, Page!DailyLimitHolds, Page!EpochLimitHolds

\* What the check of a vote says about the windows.
LEMMA PassedVote ==
    ASSUME Page!EligibilityAssumption, PageInv,
           NEW s \in Submissions, NEW d \in Page!Dimensions
    PROVE  /\ /\ Page!VotePasses(store, s, d) /\ policy.limit > 0
              /\ s \notin Page!VotedSince(dayFrom) /\ ~Page!Listed(store, "voting", Page!Subjects(store))
              => Cardinality(Since(votes, dayFrom)) < policy.limit
           /\ Page!Canonical(s, d) =>
                 s \in Since(votes, epochFrom) \/ Cardinality(Since(votes, epochFrom)) < EpochLimit
<1>1. policy.limit \in Nat
    BY DEF PageInv, Page!EligibilityAssumption, Page!ReviewPolicyConfig
<1>2. /\ Page!VotedSince(dayFrom) = Since(votes, dayFrom) /\ Page!VotedSince(epochFrom) = Since(votes, epochFrom)
      /\ Page!count_votes_by_wallet_since = Cardinality(Since(votes, dayFrom))
    BY WindowsOfVotes, CardinalityOnPage DEF Page!count_votes_by_wallet_since
<1>3. Cardinality(Since(votes, dayFrom)) \in Nat
    BY SinceIsFinite DEF PageInv
<1>4. ASSUME Page!VotePasses(store, s, d), policy.limit > 0,
             s \notin Page!VotedSince(dayFrom), ~Page!Listed(store, "voting", Page!Subjects(store))
      PROVE  Cardinality(Since(votes, dayFrom)) < policy.limit
    <2>1. ~Page!SameDay(s, d)
        BY <1>4 DEF Page!SameDay, Page!VotedOther, Page!VotedSince
    <2>2. Page!evaluate_review_eligibility = "eligible"
        BY <1>4, <2>1 DEF Page!VotePasses, Page!_enforce_review_policy, Page!_review_eligibility_for_wallet,
           Page!Eligible, Page!evaluate_review_eligibility
    <2>3. ~Page!LimitReached
        BY <2>2 DEF Page!evaluate_review_eligibility
    <2>. QED BY <1>1, <1>2, <1>3, <1>4, <2>3 DEF Page!LimitReached
<1>5. Page!Canonical(s, d) => s \in Since(votes, epochFrom) \/ Cardinality(Since(votes, epochFrom)) < EpochLimit
    BY <1>2, CardinalityOnPage DEF Page!Canonical, Page!VotedOther, Since
<1>. QED BY <1>4, <1>5

\* A vote, cast here or received from a peer.
LEMMA CastKeeps ==
    ASSUME Page!EligibilityAssumption, PageInv, NEW s \in Submissions, NEW d \in Page!Dimensions,
           NEW local \in BOOLEAN, Page!Cast(s, d, local), local => Page!VotePasses(store, s, d),
           gate.network => Page!Canonical(s, d), UNCHANGED <<policy, gate, dayFrom, epochFrom>>
    PROVE  PageInv'
<1>. DEFINE v == [submission |-> s, dimension |-> d, local |-> local,
                  opens |-> /\ local /\ s \notin Page!VotedSince(dayFrom)
                            /\ ~Page!Listed(store, "voting", Page!Subjects(store))]
<1>1. votes \in Seq(Votes)
    BY DEF PageInv
<1>2. votes' = Append(votes, v) /\ v \in Votes /\ v.submission = s
    BY DEF Page!Cast, Votes
<1>3. v.opens => /\ local /\ s \notin Page!VotedSince(dayFrom)
                 /\ ~Page!Listed(store, "voting", Page!Subjects(store))
    OBVIOUS
<1>. HIDE DEF v
<1>4. v.opens => v.submission \notin Since(votes, dayFrom)
    BY <1>2, <1>3, WindowsOfVotes
<1>5. /\ dayFrom \in 1 .. Len(votes) + 1 /\ epochFrom \in 1 .. Len(votes) + 1 /\ policy \in Policies
      /\ dayFrom \in Nat /\ epochFrom \in Nat
    BY DEF PageInv
<1>6. policy.limit \in Nat /\ EpochLimit \in Nat
    BY <1>5 DEF Page!EligibilityAssumption, Page!ReviewPolicyConfig
<1>7. /\ votes' \in Seq(Votes) /\ Len(votes') = Len(votes) + 1
      /\ Since(votes', epochFrom) = Since(votes, epochFrom) \cup {s}
    BY <1>1, <1>2, <1>5, SinceAppended
<1>8. OpensFirst(votes', dayFrom)
    <2>2. /\ Cardinality(Openings(votes, dayFrom)) \in Nat /\ Cardinality(Since(votes, dayFrom)) \in Nat
        BY <1>1, <1>5, SinceIsFinite
    <2>. DEFINE limit == Cardinality(Openings(votes, dayFrom)) + Cardinality(Since(votes, dayFrom)) + 1
    <2>3. /\ limit \in Nat /\ Cardinality(Openings(votes, dayFrom)) <= limit
          /\ Cardinality(Since(votes, dayFrom)) < limit
        BY <2>2
    <2>. HIDE DEF limit
    <2>4. OpensFirst(votes, dayFrom)
        BY DEF PageInv
    <2>. QED BY <1>1, <1>2, <1>5, <1>4, <2>3, <2>4, DayAppended
<1>9. policy.limit > 0 => Cardinality(Openings(votes', dayFrom)) <= policy.limit
    <2>1. SUFFICES ASSUME policy.limit > 0 PROVE Cardinality(Openings(votes', dayFrom)) <= policy.limit
        OBVIOUS
    <2>2. /\ Cardinality(Openings(votes, dayFrom)) <= policy.limit /\ OpensFirst(votes, dayFrom)
        BY <2>1, WindowsOfVotes DEF PageInv
    <2>3. v.opens => Cardinality(Since(votes, dayFrom)) < policy.limit
        BY <1>3, <2>1, PassedVote
    <2>. QED BY <1>1, <1>2, <1>5, <1>6, <1>4, <2>2, <2>3, DayAppended
<1>10. gate.network => Cardinality(Since(votes', epochFrom)) <= EpochLimit
    <2>1. SUFFICES ASSUME gate.network PROVE Cardinality(Since(votes', epochFrom)) <= EpochLimit
        OBVIOUS
    <2>2. IsFiniteSet(Since(votes, epochFrom)) /\ Cardinality(Since(votes, epochFrom)) \in Nat
        BY <1>1, <1>5, SinceIsFinite
    <2>3. /\ Cardinality(Since(votes, epochFrom)) <= EpochLimit
          /\ s \in Since(votes, epochFrom) \/ Cardinality(Since(votes, epochFrom)) < EpochLimit
        BY <2>1, PassedVote, WindowsOfVotes DEF PageInv
    <2>4. Cardinality(Since(votes, epochFrom) \cup {s}) =
             IF s \in Since(votes, epochFrom) THEN Cardinality(Since(votes, epochFrom))
             ELSE Cardinality(Since(votes, epochFrom)) + 1
        BY <2>2, FS_AddElement
    <2>. QED BY <1>6, <1>7, <2>2, <2>3, <2>4
<1>11. (Page!DailyLimitHolds)' /\ (Page!EpochLimitHolds)'
    BY <1>9, <1>10, WindowsAfter
<1>. QED BY <1>5, <1>7, <1>8, <1>11 DEF PageInv

\* Windows that move on.
LEMMA WindowMoves ==
    ASSUME Page!EligibilityAssumption, PageInv, UNCHANGED <<policy, gate, votes>>,
           dayFrom' \in dayFrom .. Len(votes) + 1, epochFrom' \in {epochFrom, Len(votes) + 1}
    PROVE  PageInv'
<1>1. /\ votes \in Seq(Votes) /\ dayFrom \in Nat \ {0} /\ epochFrom \in Nat \ {0} /\ Len(votes) \in Nat
      /\ policy \in Policies /\ epochFrom \in 1 .. Len(votes) + 1 /\ dayFrom \in 1 .. Len(votes) + 1
    BY DEF PageInv
<1>2. policy.limit \in Nat /\ EpochLimit \in Nat
    BY <1>1 DEF Page!EligibilityAssumption, Page!ReviewPolicyConfig
<1>3. OpensFirst(votes, dayFrom')
    <2>1. dayFrom' .. Len(votes) \subseteq dayFrom .. Len(votes)
        BY <1>1
    <2>. QED BY <2>1 DEF PageInv, OpensFirst
<1>4. policy.limit > 0 => Cardinality(Openings(votes, dayFrom')) <= policy.limit
    <2>1. Openings(votes, dayFrom') \in SUBSET Openings(votes, dayFrom)
        BY <1>1 DEF Openings
    <2>2. dayFrom' \in Nat /\ IsFiniteSet(Openings(votes, dayFrom))
        BY <1>1, SinceIsFinite
    <2>3. Cardinality(Openings(votes, dayFrom')) <= Cardinality(Openings(votes, dayFrom))
        BY <2>1, <2>2, FS_Subset
    <2>4. /\ Cardinality(Openings(votes, dayFrom')) \in Nat /\ Cardinality(Openings(votes, dayFrom)) \in Nat
        BY <1>1, <2>2, SinceIsFinite
    <2>5. policy.limit > 0 => Cardinality(Openings(votes, dayFrom)) <= policy.limit
        BY WindowsOfVotes DEF PageInv
    <2>. QED BY <1>2, <2>3, <2>4, <2>5
<1>5. gate.network => Cardinality(Since(votes, epochFrom')) <= EpochLimit
    <2>1. CASE epochFrom' = epochFrom
        BY <2>1, WindowsOfVotes DEF PageInv
    <2>2. CASE epochFrom' = Len(votes) + 1
        <3>1. Since(votes, epochFrom') = {}
            BY <1>1, <2>2 DEF Since
        <3>2. Cardinality({}) = 0
            BY FS_EmptySet
        <3>. QED BY <1>2, <3>1, <3>2
    <2>. QED BY <2>1, <2>2
<1>6. (Page!DailyLimitHolds)' /\ (Page!EpochLimitHolds)'
    BY <1>4, <1>5, WindowsAfter
<1>. QED BY <1>1, <1>3, <1>6 DEF PageInv

LEMMA PageInvInit == ASSUME Page!EligibilityAssumption, Page!Init PROVE PageInv
<1>1. /\ policy \in Policies /\ votes = <<>> /\ dayFrom = 1 /\ epochFrom = 1
    BY DEF Page!Init
<1>2. policy.limit \in Nat /\ EpochLimit \in Nat
    BY <1>1 DEF Page!EligibilityAssumption, Page!ReviewPolicyConfig
<1>3. /\ Since(votes, epochFrom) = {} /\ Openings(votes, dayFrom) = {} /\ OpensFirst(votes, dayFrom)
    BY <1>1 DEF Since, Openings, OpensFirst
<1>4. Page!DailyLimitHolds /\ Page!EpochLimitHolds
    BY <1>2, <1>3, WindowsOfVotes, FS_EmptySet
<1>. QED BY <1>1, <1>3, <1>4 DEF PageInv

LEMMA PageInvNext ==
    ASSUME Page!EligibilityAssumption, PageInv, [Page!Next]_(Page!vars) PROVE PageInv'
<1>. USE DEF Page!settings, Page!records, Page!session, Page!activity, Page!voting
<1>1. ASSUME UNCHANGED <<policy, gate, votes, dayFrom, epochFrom>> PROVE PageInv'
    <2>1. dayFrom' \in dayFrom .. Len(votes) + 1 /\ epochFrom' \in {epochFrom, Len(votes) + 1}
        BY <1>1 DEF PageInv
    <2>. QED BY <1>1, <2>1, WindowMoves
<1>2. ASSUME NEW s \in Submissions, NEW d \in Page!Dimensions, Page!vote_on_submission(s, d)
      PROVE  PageInv'
    <2>1. gate.network => Page!Canonical(s, d)
        BY <1>2 DEF Page!vote_on_submission, Page!VotePasses, Page!_enforce_review_policy
    <2>. QED BY <1>2, <2>1, CastKeeps DEF Page!vote_on_submission
<1>3. ASSUME NEW s \in Submissions, NEW d \in Page!Dimensions, Page!receive_peer_vote(s, d)
      PROVE  PageInv'
    BY <1>3, CastKeeps DEF Page!receive_peer_vote
<1>4. CASE Page!TimePasses
    <2>1. /\ dayFrom' \in dayFrom .. Len(votes) + 1 /\ epochFrom' = epochFrom
          /\ UNCHANGED <<policy, gate, votes>>
        BY <1>4 DEF Page!TimePasses, PageInv
    <2>. QED BY <2>1, WindowMoves
<1>5. CASE Page!EpochPasses
    <2>1. /\ dayFrom' \in dayFrom .. Len(votes) + 1 /\ epochFrom' = Len(votes) + 1
          /\ UNCHANGED <<policy, gate, votes>>
        BY <1>5 DEF Page!EpochPasses, PageInv
    <2>. QED BY <2>1, WindowMoves
<1>6. ASSUME NEW new, NEW api, Page!Administer(new, api) PROVE PageInv'
    BY <1>1, <1>6 DEF Page!Administer
<1>7. CASE \/ Page!WalletSession \/ Page!AccessSessionEnds \/ Page!get_access_me
           \/ Page!get_eligibility_status \/ Page!submit_content \/ Page!BalanceChanges
           \/ UNCHANGED Page!vars
    BY <1>1, <1>7 DEF Page!WalletSession, Page!AccessSessionEnds, Page!get_access_me,
       Page!get_eligibility_status, Page!submit_content, Page!BalanceChanges, Page!vars
<1>8. ASSUME NEW a, Page!login_with_access_code(a) PROVE PageInv'
    BY <1>1, <1>8 DEF Page!login_with_access_code
<1>9. ASSUME NEW s, NEW d, Page!create_wallet_vote_challenge(s, d) PROVE PageInv'
    BY <1>1, <1>9 DEF Page!create_wallet_vote_challenge
<1>10. CASE Page!bind_access_wallet
    BY <1>6, <1>10 DEF Page!bind_access_wallet
<1>11. ASSUME NEW api, Page!revoke_wallet_binding(api) PROVE PageInv'
    BY <1>6, <1>11 DEF Page!revoke_wallet_binding
<1>12. ASSUME NEW a, NEW st, NEW api, Page!update_access_account_status(a, st, api) PROVE PageInv'
    BY <1>6, <1>12 DEF Page!update_access_account_status
<1>13. ASSUME NEW e, NEW api, Page!update_allowlist(e, api) PROVE PageInv'
    BY <1>6, <1>13 DEF Page!update_allowlist
<1>. QED BY <1>2, <1>3, <1>4, <1>5, <1>7, <1>8, <1>9, <1>10, <1>11, <1>12, <1>13 DEF Page!Next

LEMMA PageInvariance == ASSUME Page!EligibilityAssumption PROVE Page!Spec => []PageInv
<1>1. Page!Init => PageInv
    BY PageInvInit
<1>2. PageInv /\ [Page!Next]_(Page!vars) => PageInv'
    BY PageInvNext
<1>. QED BY <1>1, <1>2, PTL DEF Page!Spec

\* A wallet without an override begins voting on no more submissions in 24 hours
\* than the daily limit, and on a network node nothing carries it past the number
\* of submissions of a review epoch, however votes here and elsewhere follow one
\* another (evaluate_review_eligibility, _enforce_review_policy).
THEOREM VoteLimitsHold ==
    ASSUME Page!EligibilityAssumption
    PROVE  Page!Spec => [](Page!DailyLimitHolds /\ Page!EpochLimitHolds)
<1>1. PageInv => Page!DailyLimitHolds /\ Page!EpochLimitHolds
    BY DEF PageInv
<1>. QED BY <1>1, PageInvariance, PTL

LEMMA PromisePasses == Page!PromisedVotesPass
<1>1. SUFFICES ASSUME Page!can_vote, mem = store, NEW s \in Submissions,
                      ~(gate.network /\ ~Page!Canonical(s, "originality")),
                      ~(Page!Gated("votes") /\ (~Page!Gated("app") \/ Page!SessionEntry))
      PROVE  Page!VotePasses(store, s, "originality")
    BY DEF Page!PromisedVotesPass
<1>2. Page!Reread = store
    BY <1>1 DEF Page!Reread
<1>3. Page!_enforce_review_policy(store, s, "originality")
    BY <1>1, <1>2 DEF Page!can_vote, Page!PageDecision, Page!_enforce_review_policy
<1>4. ASSUME Page!Gated("votes")
      PROVE  /\ ~Page!HardBlocked(store)
             /\ store.binding = "active" \/ Page!Listed(store, "access", Page!Subjects(store))
    <2>1. Page!Gated("app") /\ ~Page!SessionEntry /\ "votes" \in gate.required
        BY <1>1, <1>4 DEF Page!Gated
    <2>2. Page!WalletBound \/ Page!access_decision_for_wallet(mem, "app")
        BY <1>1, <2>1 DEF Page!can_vote, Page!access_granted
    <2>3. CASE Page!WalletBound
        BY <1>1, <2>3 DEF Page!WalletBound, Page!HardBlocked
    <2>4. CASE Page!access_decision_for_wallet(mem, "app")
        BY <1>1, <2>1, <2>4 DEF Page!access_decision_for_wallet
    <2>. QED BY <2>2, <2>3, <2>4
<1>. QED BY <1>3, <1>4 DEF Page!VotePasses, Page!access_decision_for_wallet

LEMMA PassingIsShown ==
    ASSUME votes \in Seq(Votes), dayFrom \in Nat \ {0} PROVE Page!PassingVotesAreShown
<1>1. SUFFICES ASSUME signedIn, mem = store, NEW s \in Submissions, NEW d \in Page!Dimensions,
                      Page!NewSubmission(s), Page!VotePasses(store, s, d)
      PROVE  Page!can_vote
    BY DEF Page!PassingVotesAreShown
<1>2. Page!Reread = store
    BY <1>1 DEF Page!Reread
<1>3. ~Page!SameDay(s, d)
    <2>1. SUFFICES ASSUME NEW i \in dayFrom .. Len(votes), votes[i].submission = s PROVE FALSE
        BY DEF Page!SameDay, Page!VotedOther
    <2>2. i \in DOMAIN votes /\ votes[i] \in Votes
        OBVIOUS
    <2>3. votes[i].dimension \in Page!Dimensions
        BY <2>2 DEF Votes
    <2>. QED BY <1>1, <2>1, <2>2, <2>3 DEF Page!NewSubmission, Page!Voted
<1>4. Page!Eligible(Page!PageDecision("voting"))
    BY <1>1, <1>2, <1>3 DEF Page!VotePasses, Page!_enforce_review_policy, Page!PageDecision
<1>5. "votes" \in gate.required => Page!access_decision_for_wallet(mem, "app")
    BY <1>1 DEF Page!VotePasses, Page!access_decision_for_wallet, Page!Gated
<1>. QED BY <1>1, <1>4, <1>5 DEF Page!can_vote, Page!access_granted

LEMMA ChecksExplain == ASSUME Page!EligibilityAssumption, PageInv PROVE Page!ChecksExplainVoting
<1>. DEFINE decision == Page!PageDecision("voting")
            override == Page!Listed(Page!Reread, "voting", Page!Subjects(Page!Reread))
<1>1. /\ policy.limit \in Nat /\ policy.mode \in Page!Modes
    BY DEF PageInv, Page!EligibilityAssumption, Page!ReviewPolicyConfig
<1>2. Page!count_votes_by_wallet_since \in Nat
    BY WindowsOfVotes, CardinalityOnPage, SinceIsFinite DEF PageInv, Page!count_votes_by_wallet_since
<1>3. Page!LimitReached <=> policy.limit > 0 /\ ~(Page!count_votes_by_wallet_since < policy.limit)
    BY <1>1, <1>2 DEF Page!LimitReached
<1>4. decision = IF Page!HardBlocked(Page!Reread) THEN "hard_block"
                 ELSE IF override THEN "allowlist_override" ELSE Page!evaluate_review_eligibility
    BY DEF Page!PageDecision, Page!_review_eligibility_for_wallet
<1>5. Page!HardBlocked(Page!Reread) <=>
         Page!Reread.binding = "revoked" \/ (Page!Bound(Page!Reread) /\ Page!Reread.account["own"] # "active")
    BY DEF Page!HardBlocked
<1>6. Page!AllPass(Page!LimitCheck("voting")) <=> ~Page!LimitReached
    <2>. DEFINE within == Page!count_votes_by_wallet_since < policy.limit
                check == <<"voting_daily_limit", within>>
    <2>1. check[2] = within
        OBVIOUS
    <2>2. CASE policy.limit > 0
        <3>1. Page!LimitCheck("voting") = {check}
            BY <2>2 DEF Page!LimitCheck
        <3>. HIDE DEF check
        <3>2. Page!AllPass({check}) <=> within
            BY <2>1 DEF Page!AllPass
        <3>. QED BY <1>3, <2>2, <3>1, <3>2
    <2>3. CASE ~(policy.limit > 0)
        <3>1. Page!LimitCheck("voting") = {}
            BY <2>3 DEF Page!LimitCheck
        <3>. QED BY <1>3, <2>3, <3>1 DEF Page!AllPass
    <2>. QED BY <2>2, <2>3
\* The check of the configured mode.
<1>. DEFINE passed == CASE policy.mode = "allowlist" -> policy.allowlisted \/ override
                        [] policy.mode = "activity" -> Page!Eligible(decision) \/ Page!MetThresholds # {}
                        [] policy.mode = "hybrid" -> override \/ policy.allowlisted \/ Page!MetThresholds # {}
                        [] OTHER -> TRUE
<1>7. /\ policy.mode = "allowlist" => (passed <=> policy.allowlisted \/ override)
      /\ policy.mode = "activity" => (passed <=> Page!Eligible(decision) \/ Page!MetThresholds # {})
      /\ policy.mode = "hybrid" => (passed <=> override \/ policy.allowlisted \/ Page!MetThresholds # {})
      /\ policy.mode = "open" => (passed <=> TRUE)
    OBVIOUS
<1>8. Page!AllPass(Page!ModeChecks("voting")) <=> passed
    <2>. DEFINE check == <<policy.mode, passed>>
    <2>1. check[2] = passed /\ Page!ModeChecks("voting") = {check}
        BY DEF Page!ModeChecks
    <2>. HIDE DEF check, passed
    <2>. QED BY <2>1 DEF Page!AllPass
<1>. HIDE DEF passed
<1>9. Page!AllPass(Page!ReviewChecks("voting")) <=>
         /\ Page!Reread.binding # "revoked"
         /\ ~Page!Bound(Page!Reread) \/ Page!Reread.account["own"] = "active"
         /\ ~policy.denylisted
         /\ Page!AllPass(Page!LimitCheck("voting")) /\ Page!AllPass(Page!ModeChecks("voting"))
    <2>. DEFINE b == <<"wallet_binding_not_revoked", Page!Reread.binding # "revoked">>
                a == <<"access_account_active", ~Page!Bound(Page!Reread) \/ Page!Reread.account["own"] = "active">>
                y == <<"denylist_check", ~policy.denylisted>>
    <2>1. /\ b[2] = (Page!Reread.binding # "revoked")
          /\ a[2] = (~Page!Bound(Page!Reread) \/ Page!Reread.account["own"] = "active")
          /\ y[2] = ~policy.denylisted
        OBVIOUS
    <2>2. Page!ReviewChecks("voting") = {b, a, y} \cup Page!LimitCheck("voting") \cup Page!ModeChecks("voting")
        BY DEF Page!ReviewChecks
    <2>. HIDE DEF a, b, y
    <2>3. Page!AllPass(Page!ReviewChecks("voting")) <=>
             b[2] /\ a[2] /\ y[2] /\ Page!AllPass(Page!LimitCheck("voting")) /\ Page!AllPass(Page!ModeChecks("voting"))
        BY <2>2, Zenon DEF Page!AllPass
    <2>. QED BY <2>1, <2>3
<1>. HIDE DEF decision, override
<1>10. ASSUME Page!AllPass(Page!ReviewChecks("voting")) PROVE Page!Eligible(decision)
    BY <1>1, <1>4, <1>5, <1>6, <1>7, <1>8, <1>9, <1>10 DEF Page!Eligible, Page!evaluate_review_eligibility, Page!Modes
<1>11. ASSUME decision # "allowlist_override", Page!Eligible(decision)
      PROVE  Page!AllPass(Page!ReviewChecks("voting"))
    BY <1>1, <1>4, <1>5, <1>6, <1>7, <1>8, <1>9, <1>11 DEF Page!Eligible, Page!evaluate_review_eligibility, Page!Modes
<1>. QED BY <1>10, <1>11 DEF Page!ChecksExplainVoting, decision

\* A page read from current records promises what the endpoints then do: where it
\* says that the wallet can vote, a vote on a new submission passes, except for the
\* exceptions that PromisedVotesPass names, a vote that would pass is shown, and the
\* rule checks explain the decision (get_eligibility_status, _enforce_review_policy).
THEOREM PageTellsTheDecision ==
    ASSUME Page!EligibilityAssumption
    PROVE  Page!Spec => [](Page!PromisedVotesPass /\ Page!PassingVotesAreShown /\ Page!ChecksExplainVoting)
<1>1. PageInv => Page!PromisedVotesPass /\ Page!PassingVotesAreShown /\ Page!ChecksExplainVoting
    BY PromisePasses, PassingIsShown, ChecksExplain DEF PageInv
<1>. QED BY <1>1, PageInvariance, PTL

-----------------------------------------------------------------------------
(* The votes of reviewers.  They share no state with AdmissionMint; "mem"  *)
(* are here the ballots in the memory of each facade.                      *)

CONSTANTS Wallets, Dimensions, VoteChoices, Nonces, Signed, Bootstrap, QualifiedAt, REVIEW_EPOCH_BLOCKS,
    PROBATION_MIN_DURATION_EPOCHS, PROBATION_MIN_VALID_VOTES_FOR_PROMOTION,
    PROBATION_MAX_VOTES_PER_EPOCH, ESTABLISHED_MAX_VOTES_PER_EPOCH, RATE_LIMIT_EXCESS_THRESHOLD,
    COOLDOWN_EPOCHS, SUSPENSION_EPOCHS, MIN_VALID_VOTES, MIN_ESTABLISHED_VOTES, APPROVAL_THRESHOLD_BPS,
    Failures, MaxHeight, MaxFailures

VARIABLES height, accepted, rejected, document, reviewer, offenses, penalties, excess, call, failures

Review == INSTANCE ReviewVotes

\* A fold over ballots that are all in the table already leaves the table.
LEMMA NothingToInsert ==
    ASSUME NEW S, IsFiniteSet(S), NEW table,
           \A b \in S : Review!_insert_durable_vote_record(b, table) = table
    PROVE  Review!FoldSet(Review!_insert_durable_vote_record, table, S) = table
<1>. DEFINE Pick(s) == CHOOSE x \in s : TRUE
            Folds(it) == it = [s \in SUBSET S |->
                IF s = {} THEN table
                ELSE Review!_insert_durable_vote_record(Pick(s), it[s \ {Pick(s)}])]
            iter == CHOOSE it : Folds(it)
<1>1. Folds([s \in SUBSET S |-> table])
    <2>1. \A s \in SUBSET S : s # {} => Pick(s) \in S /\ s \ {Pick(s)} \in SUBSET S
        OBVIOUS
    <2>. QED BY <2>1
<1>2. Folds(iter)
    BY <1>1
<1>. HIDE DEF iter
<1>3. \A s \in SUBSET S : iter[s] = table
    <2>. DEFINE T == {s \in SUBSET S : iter[s] # table}
    <2>1. SUFFICES ASSUME T # {} PROVE FALSE
        OBVIOUS
    <2>2. T \subseteq FiniteSubsetsOf(S)
        BY FS_Subset DEF FiniteSubsetsOf
    <2>3. PICK s \in T : \A u \in T : <<u, s>> \notin StrictSubsetOrdering(S)
        BY <2>1, <2>2, FS_StrictSubsetOrderingWellFounded, WFMin
    <2>4. s # {} /\ Pick(s) \in s
        BY <1>2
    <2>5. s \ {Pick(s)} \notin T
        BY <2>3, <2>4 DEF StrictSubsetOrdering
    <2>6. iter[s \ {Pick(s)}] = table
        BY <2>5
    <2>. QED BY <1>2, <2>4, <2>6
<1>4. Review!FoldSet(Review!_insert_durable_vote_record, table, S) = iter[S]
    BY DEF Review!FoldSet, Review!MapThenFoldSet, iter
<1>. QED BY <1>3, <1>4

\* An accepted row, or a ballot in a document: the standing of its voter let it vote.
Row == [vote : Review!Vote, height : Nat, status : Review!REVIEWING]

RowsOf(acc) == {acc[i] : i \in DOMAIN acc}
VotesOf(acc) == {acc[i].vote : i \in DOMAIN acc}
UsedIn(acc, w, e) ==
    {b.vote.sub : b \in {c \in RowsOf(acc) : c.vote.voter = w /\ Review!review_epoch(c.height) = e}}

\* The two promises about the vote table, of any table.
QuotaIn(acc) ==
    \A w \in Wallets, e \in 0 .. Review!review_epoch(MaxHeight) :
        LET mine == {b \in RowsOf(acc) : b.vote.voter = w /\ Review!review_epoch(b.height) = e}
        IN /\ Cardinality(UsedIn(acc, w, e)) <= ESTABLISHED_MAX_VOTES_PER_EPOCH
           /\ (\A b \in mine : b.status = "PROBATIONARY_REVIEWER")
                => Cardinality(UsedIn(acc, w, e)) <= PROBATION_MAX_VOTES_PER_EPOCH
SlotsDiffer(acc) ==
    \A i, j \in DOMAIN acc : Review!SameSlot(acc[i].vote, acc[j].vote) => i = j

\* A request has one thing to write next.
JobOK(j) ==
    /\ "stage" \in DOMAIN j /\ j.stage \in {"record", "save", "offense", "penalty"}
    /\ j.stage = "record" => j.ballot \in Row
Pending(c, b) == \E j \in c : j.stage = "record" /\ j.ballot = b
CallOK(c) == c = {} \/ \E j : c = {j} /\ JobOK(j)

\* Every ballot in memory has its row, except the one that is being recorded.
MemoryOK(m, acc, c) ==
    IsFiniteSet(m) /\ m \subseteq Row /\ \A b \in m : b.vote \in VotesOf(acc) \/ Pending(c, b)

VoteInv ==
    /\ height \in 0 .. MaxHeight
    /\ accepted \in Seq(Row) /\ QuotaIn(accepted) /\ SlotsDiffer(accepted)
    /\ MemoryOK(document, accepted, {})
    /\ DOMAIN call = Facades /\ \A f \in Facades : CallOK(call[f])
    /\ mem \in [Facades -> SUBSET Row] /\ \A f \in Facades : MemoryOK(mem[f], accepted, call[f])

LEMMA CardinalityOfRows == ASSUME NEW S PROVE Review!Cardinality(S) = Cardinality(S)
BY DEF Review!Cardinality, Cardinality

\* The model's table is the one of these operators.
LEMMA TableIs ==
    /\ Review!Rows = RowsOf(accepted) /\ \A w, e : Review!Used(w, e) = UsedIn(accepted, w, e)
    /\ Review!ToSet(accepted) = RowsOf(accepted)
    /\ Review!QuotaHolds <=> QuotaIn(accepted)
<1>1. Review!Rows = RowsOf(accepted) /\ Review!ToSet(accepted) = RowsOf(accepted)
    BY DEF Review!Rows, RowsOf, Review!ToSet
<1>2. \A w, e : Review!Used(w, e) = UsedIn(accepted, w, e)
    BY <1>1 DEF Review!Used, UsedIn
<1>. QED BY <1>1, <1>2, CardinalityOfRows DEF Review!QuotaHolds, QuotaIn

LEMMA RowsAppended ==
    ASSUME NEW acc \in Seq(Row), NEW b \in Row
    PROVE  /\ Append(acc, b) \in Seq(Row) /\ RowsOf(Append(acc, b)) = RowsOf(acc) \cup {b}
           /\ VotesOf(Append(acc, b)) = VotesOf(acc) \cup {b.vote}
           /\ \A i \in DOMAIN acc : Append(acc, b)[i] = acc[i]
           /\ DOMAIN Append(acc, b) = DOMAIN acc \cup {Len(acc) + 1}
           /\ Append(acc, b)[Len(acc) + 1] = b /\ Len(acc) + 1 \notin DOMAIN acc
<1>. DEFINE new == Append(acc, b)
<1>1. /\ new \in Seq(Row) /\ Len(new) = Len(acc) + 1 /\ new[Len(acc) + 1] = b
      /\ \A i \in 1 .. Len(acc) : new[i] = acc[i]
    BY AppendProperties
<1>2. DOMAIN acc = 1 .. Len(acc) /\ DOMAIN new = 1 .. Len(acc) + 1 /\ Len(acc) \in Nat
    BY <1>1
<1>. HIDE DEF new
<1>3. DOMAIN new = DOMAIN acc \cup {Len(acc) + 1}
    BY <1>2
<1>4. RowsOf(new) = RowsOf(acc) \cup {b} /\ VotesOf(new) = VotesOf(acc) \cup {b.vote}
    BY <1>1, <1>2, <1>3 DEF RowsOf, VotesOf
<1>. QED BY <1>1, <1>2, <1>3, <1>4 DEF new

LEMMA UsedIsFinite ==
    ASSUME NEW acc \in Seq(Row), NEW w, NEW e
    PROVE  IsFiniteSet(UsedIn(acc, w, e)) /\ Cardinality(UsedIn(acc, w, e)) \in Nat
<1>. DEFINE f == [i \in 1 .. Len(acc) |-> acc[i].vote.sub]
            T == {acc[i].vote.sub : i \in 1 .. Len(acc)}
<1>1. Len(acc) \in Nat /\ DOMAIN acc = 1 .. Len(acc)
    OBVIOUS
<1>2. IsFiniteSet(1 .. Len(acc))
    BY <1>1, FS_Interval
<1>3. f \in Surjection(1 .. Len(acc), T)
    BY DEF Surjection
<1>4. IsFiniteSet(T)
    BY <1>2, <1>3, FS_Surjection
<1>5. UsedIn(acc, w, e) \in SUBSET T
    BY <1>1 DEF UsedIn, RowsOf
<1>6. IsFiniteSet(UsedIn(acc, w, e))
    BY <1>4, <1>5, FS_Subset
<1>. QED BY <1>6, FS_CardinalityType

\* The transaction that counts before it inserts keeps the quota, whatever the
\* decision had seen.
LEMMA RowKeepsQuota ==
    ASSUME Review!PolicyAssumption, NEW acc \in Seq(Row), NEW b \in Row, QuotaIn(acc), SlotsDiffer(acc),
           \A c \in RowsOf(acc) : ~Review!SameSlot(c.vote, b.vote),
           LET used == UsedIn(acc, b.vote.voter, Review!review_epoch(b.height))
           IN b.vote.sub \in used \/ ~(Cardinality(used) >= Review!EpochLimit(b.status))
    PROVE  QuotaIn(Append(acc, b)) /\ SlotsDiffer(Append(acc, b))
<1>. DEFINE new == Append(acc, b)
<1>1. /\ RowsOf(new) = RowsOf(acc) \cup {b} /\ DOMAIN new = DOMAIN acc \cup {Len(acc) + 1}
      /\ new[Len(acc) + 1] = b /\ \A i \in DOMAIN acc : new[i] = acc[i]
    BY RowsAppended
<1>. HIDE DEF new
<1>2. SlotsDiffer(new)
    <2>1. \A i \in DOMAIN acc : ~Review!SameSlot(acc[i].vote, b.vote) /\ ~Review!SameSlot(b.vote, acc[i].vote)
        BY DEF RowsOf, Review!SameSlot
    <2>. QED BY <1>1, <2>1 DEF SlotsDiffer
<1>3. QuotaIn(new)
    <2>. SUFFICES ASSUME NEW w \in Wallets, NEW e \in 0 .. Review!review_epoch(MaxHeight)
                  PROVE  /\ Cardinality(UsedIn(new, w, e)) <= ESTABLISHED_MAX_VOTES_PER_EPOCH
                         /\ (\A c \in RowsOf(new) : c.vote.voter = w /\ Review!review_epoch(c.height) = e
                                => c.status = "PROBATIONARY_REVIEWER")
                              => Cardinality(UsedIn(new, w, e)) <= PROBATION_MAX_VOTES_PER_EPOCH
        BY DEF QuotaIn
    <2>. DEFINE used == UsedIn(acc, w, e)
    <2>1. IsFiniteSet(used) /\ Cardinality(used) \in Nat
        BY UsedIsFinite
    <2>2. /\ PROBATION_MAX_VOTES_PER_EPOCH \in Nat /\ ESTABLISHED_MAX_VOTES_PER_EPOCH \in Nat
          /\ PROBATION_MAX_VOTES_PER_EPOCH <= ESTABLISHED_MAX_VOTES_PER_EPOCH
        BY DEF Review!PolicyAssumption
    <2>3. /\ Cardinality(used) <= ESTABLISHED_MAX_VOTES_PER_EPOCH
          /\ (\A c \in RowsOf(acc) : c.vote.voter = w /\ Review!review_epoch(c.height) = e
                 => c.status = "PROBATIONARY_REVIEWER")
               => Cardinality(used) <= PROBATION_MAX_VOTES_PER_EPOCH
        BY DEF QuotaIn
    <2>4. CASE ~(b.vote.voter = w /\ Review!review_epoch(b.height) = e)
        <3>1. UsedIn(new, w, e) = used
            BY <1>1, <2>4 DEF UsedIn
        <3>. QED BY <1>1, <2>3, <3>1
    <2>5. CASE b.vote.voter = w /\ Review!review_epoch(b.height) = e
        <3>1. UsedIn(new, w, e) = used \cup {b.vote.sub}
            BY <1>1, <2>5 DEF UsedIn
        <3>2. CASE b.vote.sub \in used
            <4>1. UsedIn(new, w, e) = used
                BY <3>1, <3>2
            <4>. QED BY <1>1, <2>3, <4>1
        <3>3. CASE b.vote.sub \notin used
            <4>1. Cardinality(UsedIn(new, w, e)) = Cardinality(used) + 1
                BY <2>1, <3>1, <3>3, FS_AddElement
            <4>2. ~(Cardinality(used) >= Review!EpochLimit(b.status))
                BY <2>5, <3>3
            <4>3. b.status \in {"PROBATIONARY_REVIEWER", "ESTABLISHED_REVIEWER"} /\ b \in RowsOf(new)
                BY <1>1 DEF Row, Review!REVIEWING
            <4>4. CASE b.status = "PROBATIONARY_REVIEWER"
                <5>1. Review!EpochLimit(b.status) = PROBATION_MAX_VOTES_PER_EPOCH
                    BY <4>4 DEF Review!EpochLimit
                <5>. QED BY <2>1, <2>2, <4>1, <4>2, <5>1
            <4>5. CASE b.status = "ESTABLISHED_REVIEWER"
                <5>1. Review!EpochLimit(b.status) = ESTABLISHED_MAX_VOTES_PER_EPOCH
                    BY <4>5 DEF Review!EpochLimit
                <5>2. Cardinality(UsedIn(new, w, e)) <= ESTABLISHED_MAX_VOTES_PER_EPOCH
                    BY <2>1, <2>2, <4>1, <4>2, <5>1
                <5>. QED BY <2>5, <4>3, <4>5, <5>2
            <4>. QED BY <4>3, <4>4, <4>5
        <3>. QED BY <3>2, <3>3
    <2>. QED BY <2>4, <2>5
<1>. QED BY <1>2, <1>3 DEF new

LEMMA VoteInvInit == ASSUME Review!PolicyAssumption, Review!Init PROVE VoteInv
<1>1. /\ height = 0 /\ accepted = <<>> /\ document = {} /\ mem = [f \in Facades |-> {}]
      /\ call = [f \in Facades |-> {}]
    BY DEF Review!Init
<1>2. 0 \in 0 .. MaxHeight
    BY DEF Review!PolicyAssumption
<1>3. accepted \in Seq(Row) /\ SlotsDiffer(accepted) /\ \A w, e : UsedIn(accepted, w, e) = {}
    BY <1>1 DEF SlotsDiffer, UsedIn, RowsOf
<1>4. Cardinality({}) = 0 /\ IsFiniteSet({})
    BY FS_EmptySet
<1>5. QuotaIn(accepted)
    <2>1. /\ 0 <= ESTABLISHED_MAX_VOTES_PER_EPOCH /\ 0 <= PROBATION_MAX_VOTES_PER_EPOCH
        BY DEF Review!PolicyAssumption
    <2>2. \A w, e : Cardinality(UsedIn(accepted, w, e)) = 0
        BY <1>3, <1>4
    <2>. QED BY <2>1, <2>2 DEF QuotaIn
<1>6. MemoryOK({}, accepted, {})
    BY <1>4 DEF MemoryOK
<1>. QED BY <1>1, <1>2, <1>3, <1>5, <1>6 DEF VoteInv, CallOK

\* A request or a facade goes on and nothing is written to table or document.
LEMMA RequestMoves ==
    ASSUME VoteInv, NEW f \in Facades, height' \in 0 .. MaxHeight, UNCHANGED <<accepted, document>>,
           NEW m, mem' = [mem EXCEPT ![f] = m], NEW c, call' = [call EXCEPT ![f] = c],
           CallOK(c), MemoryOK(m, accepted, c)
    PROVE  VoteInv'
BY DEF VoteInv, MemoryOK

\* While nothing is being recorded, memory agrees with the table.
LEMMA QuietMemory ==
    ASSUME VoteInv, NEW f \in Facades, \A j \in call[f] : j.stage # "record", NEW c
    PROVE  MemoryOK(mem[f], accepted, c) /\ MemoryOK(mem[f], accepted, {}) /\ MemoryOK(document, accepted, c)
BY DEF VoteInv, MemoryOK, Pending

LEMMA OffenseJobs ==
    ASSUME NEW w, NEW type, NEW key, NEW epoch, NEW epochs
    PROVE  /\ Review!apply_verified_offense(w, type, key, epoch, epochs).stage = "offense"
           /\ CallOK({Review!apply_verified_offense(w, type, key, epoch, epochs)})
<1>. DEFINE job == Review!apply_verified_offense(w, type, key, epoch, epochs)
<1>1. job.stage = "offense" /\ "stage" \in DOMAIN job
    BY DEF Review!apply_verified_offense
<1>. HIDE DEF job
<1>2. CallOK({job})
    BY <1>1 DEF CallOK, JobOK
<1>. QED BY <1>1, <1>2 DEF job

\* What a request that was refused has still to write.
LEMMA ExcessCharges ==
    ASSUME NEW f, NEW b, NEW decided, Review!record_rate_limit_excess(f, b, decided)
    PROVE  \E c : CallOK(c) /\ (\A j \in c : j.stage # "record") /\ call' = [call EXCEPT ![f] = c]
<1>. DEFINE epoch == Review!review_epoch(height)
            charge == Review!apply_verified_offense(b.vote.voter, "RATE_LIMIT_ABUSE",
                          <<"any", "any", "any", epoch>>, epoch, 0)
<1>1. charge.stage = "offense" /\ CallOK({charge}) /\ CallOK({})
    BY OffenseJobs DEF CallOK
<1>2. call' = [call EXCEPT ![f] = {charge}] \/ call' = [call EXCEPT ![f] = {}]
    BY DEF Review!record_rate_limit_excess
<1>. HIDE DEF charge
<1>. QED BY <1>1, <1>2

\* What becomes of a ballot: it is refused, or it waits for its row.
LEMMA Judged ==
    ASSUME VoteInv, NEW f \in Facades, Review!Idle(f), NEW b, b.vote \in Review!Vote, b.height \in Nat,
           NEW decided, Review!Judge(f, b, decided)
    PROVE  /\ UNCHANGED accepted
           /\ \/ mem' = mem /\ \E c : CallOK(c) /\ call' = [call EXCEPT ![f] = c]
              \/ /\ b.status \in Review!REVIEWING
                 /\ mem' = [mem EXCEPT ![f] = @ \cup {b}]
                 /\ call' = [call EXCEPT ![f] = {[stage |-> "record", ballot |-> b]}]
<1>. DEFINE Goal == /\ UNCHANGED accepted
                    /\ \/ mem' = mem /\ \E c : CallOK(c) /\ call' = [call EXCEPT ![f] = c]
                       \/ /\ b.status \in Review!REVIEWING
                          /\ mem' = [mem EXCEPT ![f] = @ \cup {b}]
                          /\ call' = [call EXCEPT ![f] = {[stage |-> "record", ballot |-> b]}]
            v == b.vote
            epoch == Review!review_epoch(height)
            existing == {c \in mem[f] : Review!SameSlot(c.vote, v)}
<1>1. CallOK({})
    BY DEF CallOK
<1>2. ASSUME NEW c, CallOK(c), Review!Refuse(f, b, c) PROVE Goal
    BY <1>2 DEF Review!Refuse
<1>3. ASSUME Review!Refuse(f, b, IF \E c \in existing : c.vote.choice # v.choice
                  THEN {Review!apply_verified_offense(v.voter, "SIGNED_VOTE_EQUIVOCATION", Review!Incident(v), epoch, 0)}
                  ELSE {})
      PROVE  Goal
    BY <1>1, <1>2, <1>3, OffenseJobs
<1>4. ASSUME Review!Refuse(f, b, {Review!apply_verified_offense(v.voter, "CREATOR_SELF_VOTE", Review!Identity(v), epoch, 0)})
      PROVE  Goal
    BY <1>2, <1>4, OffenseJobs
<1>5. ASSUME NEW p, Review!Refuse(f, b, {Review!apply_verified_offense(v.voter,
                    IF b.status = "COOLDOWN" THEN "VOTE_DURING_COOLDOWN"
                    ELSE "VOTE_DURING_SUSPENSION", Review!Identity(v), epoch, p.epochs)})
      PROVE  Goal
    BY <1>2, <1>5, OffenseJobs
<1>6. ASSUME Review!Refuse(f, b, {}) PROVE Goal
    BY <1>1, <1>2, <1>6
<1>7. ASSUME Review!record_rate_limit_excess(f, b, decided), UNCHANGED <<accepted, mem>> PROVE Goal
    <2>1. \E c : CallOK(c) /\ call' = [call EXCEPT ![f] = c]
        BY <1>7, ExcessCharges
    <2>. QED BY <1>7, <2>1
<1>8. ASSUME b.status \in Review!REVIEWING, mem' = [mem EXCEPT ![f] = @ \cup {b}],
             call' = [call EXCEPT ![f] = {[stage |-> "record", ballot |-> b]}], UNCHANGED <<accepted, rejected, excess>>
      PROVE  Goal
    BY <1>8
<1>. HIDE DEF Goal
<1>9. Goal
    BY <1>3, <1>4, <1>5, <1>6, <1>7, <1>8 DEF Review!Judge
<1>. QED BY <1>9 DEF Goal

LEMMA CastStep ==
    ASSUME VoteInv, NEW f \in Facades, NEW v \in Review!Vote,
           \/ Review!cast_signed_submission_vote_operation(f, v)
           \/ Review!receive_peer_vote(f, v)
    PROVE  VoteInv' /\ UNCHANGED accepted
<1>1. PICK b, decided : /\ b = [vote |-> v, height |-> height, status |-> Review!reconcile(v.voter, height).status]
                        /\ Review!Judge(f, b, decided) /\ Review!Idle(f) /\ UNCHANGED <<height, document>>
    BY DEF Review!cast_signed_submission_vote_operation, Review!receive_peer_vote
<1>2. b.vote = v /\ b.height \in Nat /\ height \in 0 .. MaxHeight
    BY <1>1 DEF VoteInv
<1>3. \A j \in call[f] : j.stage # "record"
    BY <1>1 DEF Review!Idle
<1>4. UNCHANGED accepted
    BY <1>1, <1>2, Judged
<1>5. CASE mem' = mem /\ \E c : CallOK(c) /\ call' = [call EXCEPT ![f] = c]
    <2>1. PICK c : CallOK(c) /\ call' = [call EXCEPT ![f] = c]
        BY <1>5
    <2>2. mem' = [mem EXCEPT ![f] = mem[f]]
        BY <1>5 DEF VoteInv
    <2>3. MemoryOK(mem[f], accepted, c)
        BY <1>3, QuietMemory
    <2>. QED BY <1>1, <1>2, <1>4, <2>1, <2>2, <2>3, RequestMoves
<1>6. CASE /\ b.status \in Review!REVIEWING
           /\ mem' = [mem EXCEPT ![f] = @ \cup {b}]
           /\ call' = [call EXCEPT ![f] = {[stage |-> "record", ballot |-> b]}]
    <2>. DEFINE job == [stage |-> "record", ballot |-> b]
    <2>1. b \in Row
        BY <1>1, <1>2, <1>6 DEF Row
    <2>2. job.stage = "record" /\ job.ballot = b /\ "stage" \in DOMAIN job
        OBVIOUS
    <2>. HIDE DEF job
    <2>3. CallOK({job})
        BY <2>1, <2>2 DEF CallOK, JobOK
    <2>4. MemoryOK(mem[f], accepted, {})
        BY <1>3, QuietMemory
    <2>5. IsFiniteSet(mem[f] \cup {b})
        BY <2>4, FS_AddElement DEF MemoryOK
    <2>6. MemoryOK(mem[f] \cup {b}, accepted, {job})
        BY <2>1, <2>2, <2>4, <2>5 DEF MemoryOK, Pending
    <2>7. mem' = [mem EXCEPT ![f] = mem[f] \cup {b}] /\ call' = [call EXCEPT ![f] = {job}]
        BY <1>6 DEF job
    <2>. QED BY <1>1, <1>2, <1>4, <2>3, <2>6, <2>7, RequestMoves
<1>. QED BY <1>1, <1>2, <1>4, <1>5, <1>6, Judged

\* A ballot that has its row is not inserted again.
LEMMA InsertsNothing ==
    ASSUME NEW b, b.vote \in VotesOf(accepted)
    PROVE  Review!_insert_durable_vote_record(b, <<accepted, rejected>>) = <<accepted, rejected>>
<1>1. \E c \in Review!ToSet(accepted) : c.vote = b.vote
    BY TableIs DEF VotesOf, RowsOf
<1>. QED BY <1>1 DEF Review!_insert_durable_vote_record

\* The transaction of one row: nothing, a conflict, or the row at the end.
LEMMA Inserted ==
    ASSUME NEW b
    PROVE  LET table == Review!_insert_durable_vote_record(b, <<accepted, rejected>>) IN
           \/ /\ b.vote \in VotesOf(accepted) \/ b.vote \in rejected
              /\ table[1] = accepted /\ table[2] = rejected
           \/ table[1] = accepted /\ table[2] = rejected \cup {b.vote}
           \/ /\ b.vote \notin VotesOf(accepted) /\ b.vote \notin rejected
              /\ \A c \in RowsOf(accepted) : ~Review!SameSlot(c.vote, b.vote)
              /\ table[1] = Append(accepted, b) /\ table[2] = rejected
<1>1. Review!ToSet(accepted) = RowsOf(accepted)
    BY TableIs
<1>2. (\E c \in RowsOf(accepted) : c.vote = b.vote) <=> b.vote \in VotesOf(accepted)
    BY DEF RowsOf, VotesOf
<1>. QED BY <1>1, <1>2 DEF Review!_insert_durable_vote_record

\* A save of a facade that records nothing writes its ballots over the document and
\* no row, because they all have one.
LEMMA SaveStep ==
    ASSUME Review!PolicyAssumption, VoteInv, NEW f \in Facades, Review!save_blockchain(f)
    PROVE  VoteInv' /\ UNCHANGED <<accepted, rejected>>
<1>1. \A j \in call[f] : j.stage # "record"
    <2>1. CASE Review!Idle(f)
        BY <2>1 DEF Review!Idle
    <2>2. CASE [stage |-> "save"] \in call[f]
        BY <2>2 DEF VoteInv, CallOK
    <2>. QED BY <2>1, <2>2 DEF Review!save_blockchain
<1>2. MemoryOK(mem[f], accepted, {})
    BY <1>1, QuietMemory
<1>3. \A b \in mem[f] : Review!_insert_durable_vote_record(b, <<accepted, rejected>>) = <<accepted, rejected>>
    BY <1>2, InsertsNothing DEF MemoryOK, Pending
<1>4. Review!FoldSet(Review!_insert_durable_vote_record, <<accepted, rejected>>, mem[f]) = <<accepted, rejected>>
    BY <1>2, <1>3, NothingToInsert DEF MemoryOK
<1>5. document' = mem[f] /\ accepted' = accepted /\ rejected' = rejected
    BY <1>4 DEF Review!save_blockchain, Review!Save
<1>6. UNCHANGED <<height, mem>> /\ call' = [call EXCEPT ![f] = {}]
    BY DEF Review!save_blockchain
<1>7. \A g \in Facades : MemoryOK(mem[g], accepted, call'[g])
    BY <1>1, <1>6, QuietMemory DEF VoteInv
<1>8. \A g \in Facades : CallOK(call'[g])
    BY <1>6 DEF VoteInv, CallOK
<1>. QED BY <1>2, <1>5, <1>6, <1>7, <1>8 DEF VoteInv

LEMMA RecordStep ==
    ASSUME Review!PolicyAssumption, VoteInv, NEW f \in Facades, Review!record_durable_vote_with_epoch_limit(f)
    PROVE  VoteInv' /\ RowsOf(accepted) \subseteq RowsOf(accepted')
<1>1. PICK job \in call[f] :
        LET b == job.ballot  v == b.vote
            used == UsedIn(accepted, v.voter, Review!review_epoch(b.height))
            known == v \in rejected \/ \E c \in RowsOf(accepted) : c.vote = v
            over == ~known /\ v.sub \notin used
                    /\ Review!Cardinality(used) >= Review!EpochLimit(b.status)
            table == Review!_insert_durable_vote_record(b, <<accepted, rejected>>)
        IN /\ job.stage = "record"
           /\ \/ /\ over
                 /\ rejected' = rejected \cup {v}
                 /\ Review!record_rate_limit_excess(f, b, FALSE)
                 /\ UNCHANGED accepted
              \/ /\ ~over
                 /\ accepted' = table[1] /\ rejected' = table[2]
                 /\ call' = [call EXCEPT ![f] =
                       IF v \in rejected' THEN {} ELSE {[stage |-> "save"]}]
                 /\ UNCHANGED excess
           /\ mem' = IF v \in rejected' THEN [mem EXCEPT ![f] = @ \ {b}] ELSE mem
           /\ UNCHANGED <<height, document, reviewer, offenses, penalties, failures>>
    BY TableIs DEF Review!record_durable_vote_with_epoch_limit
<1>. DEFINE b == job.ballot
            used == UsedIn(accepted, b.vote.voter, Review!review_epoch(b.height))
<1>2. /\ b \in Row /\ call[f] = {job} /\ job.stage = "record" /\ mem[f] \subseteq Row
      /\ height \in 0 .. MaxHeight /\ accepted \in Seq(Row) /\ QuotaIn(accepted) /\ SlotsDiffer(accepted)
    BY <1>1 DEF VoteInv, CallOK, JobOK
<1>3. /\ UNCHANGED <<height, document>>
      /\ mem' = IF b.vote \in rejected' THEN [mem EXCEPT ![f] = @ \ {b}] ELSE mem
    BY <1>1
<1>4. \E c : CallOK(c) /\ (\A j \in c : j.stage # "record") /\ call' = [call EXCEPT ![f] = c]
    <2>1. CallOK({}) /\ CallOK({[stage |-> "save"]})
        BY DEF CallOK, JobOK
    <2>2. CASE Review!record_rate_limit_excess(f, b, FALSE)
        BY <2>2, ExcessCharges
    <2>3. CASE call' = [call EXCEPT ![f] = IF b.vote \in rejected' THEN {} ELSE {[stage |-> "save"]}]
        <3>1. \A j \in {[stage |-> "save"]} : j.stage # "record"
            OBVIOUS
        <3>2. call' = [call EXCEPT ![f] = {}] \/ call' = [call EXCEPT ![f] = {[stage |-> "save"]}]
            BY <2>3
        <3>. QED BY <2>1, <3>1, <3>2
    <2>. QED BY <1>1, <2>2, <2>3
<1>5. PICK c : CallOK(c) /\ (\A j \in c : j.stage # "record") /\ call' = [call EXCEPT ![f] = c]
    BY <1>4
<1>6. \/ accepted' = accepted /\ (b.vote \in rejected' \/ b.vote \in VotesOf(accepted))
      \/ /\ accepted' = Append(accepted, b)
         /\ \A r \in RowsOf(accepted) : ~Review!SameSlot(r.vote, b.vote)
         /\ b.vote.sub \in used \/ ~(Cardinality(used) >= Review!EpochLimit(b.status))
    <2>1. Review!Cardinality(used) = Cardinality(used)
        BY CardinalityOfRows
    <2>2. (\E r \in RowsOf(accepted) : r.vote = b.vote) <=> b.vote \in VotesOf(accepted)
        BY DEF RowsOf, VotesOf
    <2>. HIDE DEF used
    <2>3. CASE rejected' = rejected \cup {b.vote} /\ UNCHANGED accepted
        BY <2>3
    <2>4. CASE LET table == Review!_insert_durable_vote_record(b, <<accepted, rejected>>)
               IN accepted' = table[1] /\ rejected' = table[2]
        BY <1>1, <2>1, <2>2, <2>4, Inserted DEF used
    <2>. QED BY <1>1, <2>3, <2>4
<1>7. /\ accepted' \in Seq(Row) /\ QuotaIn(accepted') /\ SlotsDiffer(accepted')
      /\ VotesOf(accepted) \subseteq VotesOf(accepted')
      /\ b.vote \in rejected' \/ b.vote \in VotesOf(accepted')
    <2>1. CASE accepted' = accepted /\ (b.vote \in rejected' \/ b.vote \in VotesOf(accepted))
        BY <1>2, <2>1
    <2>2. CASE /\ accepted' = Append(accepted, b)
               /\ \A r \in RowsOf(accepted) : ~Review!SameSlot(r.vote, b.vote)
               /\ b.vote.sub \in used \/ ~(Cardinality(used) >= Review!EpochLimit(b.status))
        <3>1. QuotaIn(Append(accepted, b)) /\ SlotsDiffer(Append(accepted, b))
            BY <1>2, <2>2, RowKeepsQuota
        <3>2. Append(accepted, b) \in Seq(Row) /\ VotesOf(Append(accepted, b)) = VotesOf(accepted) \cup {b.vote}
            BY <1>2, RowsAppended
        <3>. QED BY <2>2, <3>1, <3>2
    <2>. QED BY <1>6, <2>1, <2>2
<1>. HIDE DEF b, used
<1>8. MemoryOK(document, accepted', {})
    BY <1>7 DEF VoteInv, MemoryOK, Pending
<1>9. ASSUME NEW g \in Facades PROVE MemoryOK(mem'[g], accepted', call'[g]) /\ CallOK(call'[g])
    <2>1. MemoryOK(mem[g], accepted, call[g]) /\ CallOK(call[g]) /\ mem \in [Facades -> SUBSET Row]
          /\ DOMAIN call = Facades
        BY DEF VoteInv
    <2>2. CASE g # f
        <3>1. mem'[g] = mem[g] /\ call'[g] = call[g]
            BY <1>3, <1>5, <2>1, <2>2
        <3>. QED BY <1>7, <2>1, <3>1 DEF MemoryOK
    <2>3. CASE g = f
        <3>1. call'[f] = c /\ CallOK(c)
            BY <1>5, <2>1
        <3>2. \A r \in mem[f] : r.vote \in VotesOf(accepted) \/ r = b
            BY <1>2, <2>1, <2>3 DEF MemoryOK, Pending, b
        <3>3. mem'[f] \subseteq mem[f] /\ (b.vote \in rejected' => b \notin mem'[f])
            BY <1>3, <2>1
        <3>4. IsFiniteSet(mem'[f]) /\ mem'[f] \subseteq Row
            BY <2>1, <2>3, <3>3, FS_Subset DEF MemoryOK
        <3>5. \A r \in mem'[f] : r.vote \in VotesOf(accepted')
            BY <1>7, <3>2, <3>3
        <3>. QED BY <2>3, <3>1, <3>4, <3>5 DEF MemoryOK
    <2>. QED BY <2>2, <2>3
<1>10. mem' \in [Facades -> SUBSET Row] /\ DOMAIN call' = Facades
    BY <1>2, <1>3, <1>5 DEF VoteInv
<1>11. RowsOf(accepted) \subseteq RowsOf(accepted')
    <2>1. RowsOf(Append(accepted, b)) = RowsOf(accepted) \cup {b}
        BY <1>2, RowsAppended
    <2>. QED BY <1>6, <2>1
<1>. QED BY <1>2, <1>3, <1>7, <1>8, <1>9, <1>10, <1>11 DEF VoteInv

LEMMA VoteInvNext ==
    ASSUME Review!PolicyAssumption, "busy" \notin Failures, VoteInv, [Review!Next]_(Review!vars)
    PROVE  VoteInv' /\ RowsOf(accepted) \subseteq RowsOf(accepted')
<1>. DEFINE Goal == VoteInv' /\ RowsOf(accepted) \subseteq RowsOf(accepted')
<1>. SUFFICES Goal
    OBVIOUS
<1>1. ASSUME NEW f \in Facades, NEW v \in Signed,
             \/ Review!cast_signed_submission_vote_operation(f, v)
             \/ Review!receive_peer_vote(f, v)
      PROVE  Goal
    <2>1. v \in Review!Vote
        BY DEF Review!PolicyAssumption, Review!Vote
    <2>. QED BY <1>1, <2>1, CastStep
<1>2. ASSUME NEW f \in Facades, Review!record_durable_vote_with_epoch_limit(f) PROVE Goal
    BY <1>2, RecordStep
<1>3. ASSUME NEW f \in Facades, Review!save_blockchain(f) PROVE Goal
    BY <1>3, SaveStep
<1>4. ASSUME NEW f \in Facades, \A j \in call[f] : j.stage # "record", UNCHANGED <<height, accepted, document, mem>>,
             NEW c, CallOK(c), call' = [call EXCEPT ![f] = c]
      PROVE  Goal
    <2>1. mem' = [mem EXCEPT ![f] = mem[f]] /\ height' \in 0 .. MaxHeight
        BY <1>4 DEF VoteInv
    <2>2. MemoryOK(mem[f], accepted, c)
        BY <1>4, QuietMemory
    <2>. QED BY <1>4, <2>1, <2>2, RequestMoves
<1>5. ASSUME NEW f \in Facades, Review!record_reviewer_offense(f) PROVE Goal
    <2>1. PICK job \in call[f] :
            /\ job.stage = "offense" /\ UNCHANGED <<height, accepted, document, mem>>
            /\ \E c \in {{}, {[job EXCEPT !.stage = "penalty"]}} : call' = [call EXCEPT ![f] = c]
        BY <1>5 DEF Review!record_reviewer_offense
    <2>2. \A j \in call[f] : j.stage # "record"
        BY <2>1 DEF VoteInv, CallOK
    <2>. DEFINE next == [job EXCEPT !.stage = "penalty"]
    <2>3. "stage" \in DOMAIN job
        BY <2>1 DEF VoteInv, CallOK, JobOK
    <2>4. next.stage = "penalty" /\ "stage" \in DOMAIN next
        BY <2>3
    <2>5. CallOK({}) /\ (next.stage = "penalty" /\ "stage" \in DOMAIN next => CallOK({next}))
        <3>. HIDE DEF next
        <3>. QED BY DEF CallOK, JobOK
    <2>6. \E c : CallOK(c) /\ call' = [call EXCEPT ![f] = c]
        BY <2>1, <2>4, <2>5
    <2>. QED BY <1>4, <2>1, <2>2, <2>6
<1>6. ASSUME NEW f \in Facades, Review!record_reviewer_penalty(f) PROVE Goal
    <2>1. PICK job \in call[f] :
            /\ job.stage = "penalty" /\ UNCHANGED <<height, accepted, document, mem>>
            /\ call' = [call EXCEPT ![f] = {}]
        BY <1>6 DEF Review!record_reviewer_penalty
    <2>2. \A j \in call[f] : j.stage # "record"
        BY <2>1 DEF VoteInv, CallOK
    <2>. QED BY <1>4, <2>1, <2>2 DEF CallOK
<1>7. ASSUME NEW f \in Facades, NEW v, NEW u, NEW h, Review!receive_reviewer_offense_evidence(f, v, u, h)
      PROVE  Goal
    <2>1. \A j \in call[f] : j.stage # "record"
        BY <1>7 DEF Review!receive_reviewer_offense_evidence, Review!Idle
    <2>2. UNCHANGED <<height, accepted, document, mem>>
        BY <1>7 DEF Review!receive_reviewer_offense_evidence
    <2>. DEFINE c == {Review!apply_verified_offense(v.voter, "SIGNED_VOTE_EQUIVOCATION", Review!Incident(v),
                          Review!review_epoch(h), 0)}
    <2>3. CallOK(c)
        BY OffenseJobs
    <2>4. call' = [call EXCEPT ![f] = c]
        BY <1>7 DEF Review!receive_reviewer_offense_evidence
    <2>. HIDE DEF c
    <2>. QED BY <1>4, <2>1, <2>2, <2>3, <2>4
<1>8. ASSUME UNCHANGED <<accepted, document, mem, call>>, height' \in 0 .. MaxHeight PROVE Goal
    BY <1>8 DEF VoteInv
<1>9. ASSUME NEW f \in Facades, NEW w, Review!get_reviewer_status(f, w) PROVE Goal
    BY <1>8, <1>9 DEF Review!get_reviewer_status, VoteInv
<1>10. CASE Review!reconcile_canonical_reviewer_states
    <2>1. height' \in 0 .. MaxHeight
        BY <1>10 DEF Review!reconcile_canonical_reviewer_states, VoteInv, Review!PolicyAssumption
    <2>. QED BY <1>8, <1>10, <2>1 DEF Review!reconcile_canonical_reviewer_states
<1>11. ASSUME NEW f \in Facades, Review!load_blockchain(f) PROVE Goal
    <2>1. /\ \A j \in call[f] : j.stage # "record"
          /\ UNCHANGED <<height, accepted, document, call>> /\ mem' = [mem EXCEPT ![f] = document]
        BY <1>11 DEF Review!load_blockchain, Review!Idle
    <2>2. MemoryOK(document, accepted, call[f])
        BY <2>1, QuietMemory
    <2>. QED BY <2>1, <2>2 DEF VoteInv, MemoryOK
<1>12. ASSUME NEW f \in Facades, Review!Crash(f) PROVE Goal
    <2>1. /\ UNCHANGED <<height, accepted, document>> /\ mem' = [mem EXCEPT ![f] = document]
          /\ call' = [call EXCEPT ![f] = {}]
        BY <1>12 DEF Review!Crash
    <2>. QED BY <2>1, RequestMoves DEF VoteInv, CallOK
<1>13. ASSUME NEW f \in Facades, Review!Busy(f) PROVE Goal
    BY <1>13 DEF Review!Busy
<1>14. CASE UNCHANGED Review!vars
    BY <1>8, <1>14 DEF Review!vars, VoteInv
<1>. HIDE DEF Goal
<1>15. CASE Review!Next
    <2>1. ASSUME NEW f \in Facades, NEW v, NEW u, NEW h, Review!receive_reviewer_offense_evidence(f, v, u, h)
          PROVE  Goal
        BY <1>7, <2>1
    <2>. QED BY <1>1, <1>2, <1>3, <1>5, <1>6, <1>9, <1>10, <1>11, <1>12, <1>13, <1>15, <2>1 DEF Review!Next
<1>. QED BY <1>14, <1>15

LEMMA VoteInvariance ==
    ASSUME Review!PolicyAssumption, "busy" \notin Failures PROVE Review!Spec => []VoteInv
<1>1. Review!Init => VoteInv
    BY VoteInvInit
<1>2. VoteInv /\ [Review!Next]_(Review!vars) => VoteInv'
    BY VoteInvNext
<1>. QED BY <1>1, <1>2, PTL DEF Review!Spec

\* Whatever facades race for the last place and whatever dies between the writes
\* of a vote, the accepted rows of an epoch stay within the voter's limit, and the
\* stored document shows accepted votes only, one for a wallet, submission and
\* dimension. A busy database breaks both: the refused insert leaves its ballot in
\* memory, and the next save inserts it uncounted (README, section 5).
THEOREM VotesAreCounted ==
    ASSUME Review!PolicyAssumption, "busy" \notin Failures
    PROVE  Review!Spec => [](Review!QuotaHolds /\ Review!DocumentVotesAreAccepted)
<1>1. VoteInv => Review!QuotaHolds /\ Review!DocumentVotesAreAccepted
    <2>1. SUFFICES ASSUME VoteInv PROVE Review!DocumentVotesAreAccepted
        BY TableIs DEF VoteInv
    <2>2. {b.vote : b \in document} \subseteq VotesOf(accepted)
        BY <2>1 DEF VoteInv, MemoryOK, Pending
    <2>3. VotesOf(accepted) = {b.vote : b \in Review!Rows}
        BY TableIs DEF VotesOf, RowsOf
    <2>. QED BY <2>1, <2>2, <2>3 DEF Review!DocumentVotesAreAccepted, VoteInv, SlotsDiffer
<1>. QED BY <1>1, VoteInvariance, PTL

-----------------------------------------------------------------------------
(* What rests on the vote table: standing and reviews.                     *)

Subs(acc, w) == {b.vote.sub : b \in {c \in RowsOf(acc) : c.vote.voter = w}}

Standing == [status : Review!REVIEWER_STATUSES, base : {"NEW"} \cup Review!REVIEWING, at : Int]

\* A standing of w that acc justifies.
EarnedBy(r, acc, w) ==
    r \in Standing /\ (w \notin Bootstrap /\ r.base = "ESTABLISHED_REVIEWER" =>
        Cardinality(Subs(acc, w)) >= PROBATION_MIN_VALID_VOTES_FOR_PROMOTION)

StandingInv ==
    VoteInv /\ DOMAIN reviewer = Wallets /\ \A w \in Wallets : EarnedBy(reviewer[w], accepted, w)

LEMMA SubsAreFinite ==
    ASSUME NEW acc \in Seq(Row), NEW w
    PROVE  IsFiniteSet(Subs(acc, w)) /\ Cardinality(Subs(acc, w)) \in Nat
<1>. DEFINE f == [i \in 1 .. Len(acc) |-> acc[i].vote.sub]
            T == {acc[i].vote.sub : i \in 1 .. Len(acc)}
<1>1. Len(acc) \in Nat /\ DOMAIN acc = 1 .. Len(acc)
    OBVIOUS
<1>2. IsFiniteSet(1 .. Len(acc))
    BY <1>1, FS_Interval
<1>3. f \in Surjection(1 .. Len(acc), T)
    BY DEF Surjection
<1>4. IsFiniteSet(T)
    BY <1>2, <1>3, FS_Surjection
<1>5. Subs(acc, w) \in SUBSET T
    BY <1>1 DEF Subs, RowsOf
<1>. QED BY <1>4, <1>5, FS_Subset, FS_CardinalityType

\* Accepted rows are never taken back, so what was earned stays earned.
LEMMA MoreRows ==
    ASSUME NEW acc \in Seq(Row), NEW more \in Seq(Row), RowsOf(acc) \subseteq RowsOf(more),
           Review!PolicyAssumption, NEW w, NEW r, EarnedBy(r, acc, w)
    PROVE  EarnedBy(r, more, w)
<1>1. Subs(acc, w) \in SUBSET Subs(more, w)
    BY DEF Subs
<1>2. /\ IsFiniteSet(Subs(more, w)) /\ Cardinality(Subs(more, w)) \in Nat
      /\ Cardinality(Subs(acc, w)) \in Nat
    BY SubsAreFinite
<1>3. Cardinality(Subs(acc, w)) <= Cardinality(Subs(more, w))
    BY <1>1, <1>2, FS_Subset
<1>. QED BY <1>2, <1>3 DEF EarnedBy, Review!PolicyAssumption

\* Probation counts one vote for a submission, whatever dimensions were voted on.
LEMMA CountsSubmissions ==
    ASSUME accepted \in Seq(Row), NEW w, NEW low, NEW high
    PROVE  /\ Review!ProbationVotes(w, low, high) \in Nat
           /\ Review!ProbationVotes(w, low, high) <= Cardinality(Subs(accepted, w))
<1>. DEFINE first == {j \in DOMAIN accepted :
                /\ accepted[j].vote.voter = w
                /\ \A k \in 1 .. j - 1 : accepted[k].vote.voter = w
                      => accepted[k].vote.sub # accepted[j].vote.sub}
            B == {b \in Review!_accepted_votes(w) :
                /\ b.status = "PROBATIONARY_REVIEWER" /\ low <= b.height /\ b.height <= high}
            T == Subs(accepted, w)
            f == [b \in B |-> b.vote.sub]
<1>1. DOMAIN accepted = 1 .. Len(accepted) /\ Len(accepted) \in Nat
    OBVIOUS
<1>2. Review!_accepted_votes(w) = {accepted[i] : i \in first}
    BY DEF Review!_accepted_votes
<1>3. \A i, j \in first : accepted[i].vote.sub = accepted[j].vote.sub => i = j
    <2>. SUFFICES ASSUME NEW i \in first, NEW j \in first, accepted[i].vote.sub = accepted[j].vote.sub, i < j
                  PROVE  FALSE
        BY <1>1
    <2>1. i \in 1 .. j - 1 /\ accepted[i].vote.voter = w
        BY <1>1
    <2>. QED BY <2>1
<1>4. \A b \in B : b \in RowsOf(accepted) /\ b.vote.voter = w
    BY <1>2 DEF RowsOf
<1>5. f \in Injection(B, T)
    <2>1. f \in [B -> T]
        BY <1>4 DEF Subs
    <2>2. \A b, c \in B : b.vote.sub = c.vote.sub => b = c
        BY <1>2, <1>3
    <2>. QED BY <2>1, <2>2 DEF Injection, IsInjective
<1>6. IsFiniteSet(T)
    BY SubsAreFinite
<1>7. IsFiniteSet(B) /\ Cardinality(B) <= Cardinality(T) /\ Cardinality(B) \in Nat
    BY <1>5, <1>6, FS_Injection, FS_CardinalityType
<1>8. Review!ProbationVotes(w, low, high) = Cardinality(B)
    BY CardinalityOfRows DEF Review!ProbationVotes
<1>. QED BY <1>7, <1>8

\* Bringing a standing up to date promotes only who has voted enough.
LEMMA ReconcileEarns ==
    ASSUME StandingInv, Review!PolicyAssumption, NEW w \in Wallets, NEW h \in Nat
    PROVE  EarnedBy(Review!reconcile(w, h), accepted, w)
<1>. DEFINE r == reviewer[w]
            epoch == Review!review_epoch(h)
            penal == Review!active_penalties(w, epoch) # {}
            hidden == r.status \in Review!PENALTY /\ penal /\ r.at = Review!Undated
            restored == IF r.status \in Review!PENALTY /\ ~penal THEN [r EXCEPT !.at = h] ELSE r
            earned == IF hidden \/ restored.base # "NEW" THEN restored
                      ELSE IF w \in Bootstrap
                      THEN [restored EXCEPT !.base = "ESTABLISHED_REVIEWER", !.at = h]
                      ELSE IF h >= QualifiedAt[w]
                      THEN [restored EXCEPT !.base = "PROBATIONARY_REVIEWER", !.at = h]
                      ELSE restored
            enough == Review!ProbationVotes(w, earned.at, MaxHeight)
                          >= PROBATION_MIN_VALID_VOTES_FOR_PROMOTION
            long == epoch - Review!review_epoch(earned.at) >= PROBATION_MIN_DURATION_EPOCHS
            final == IF ~hidden /\ earned.base = "PROBATIONARY_REVIEWER" /\ long /\ enough
                     THEN [earned EXCEPT !.base = "ESTABLISHED_REVIEWER", !.at = h]
                     ELSE earned
            status == IF penal THEN Review!effective_status(w, epoch) ELSE final.base
<1>1. r \in Standing /\ EarnedBy(r, accepted, w) /\ accepted \in Seq(Row) /\ h \in Int
    BY DEF StandingInv, VoteInv, EarnedBy
<1>2. Review!reconcile(w, h) = [final EXCEPT !.status = status]
    BY DEF Review!reconcile
<1>3. Review!effective_status(w, epoch) \in Review!REVIEWER_STATUSES
    BY DEF Review!effective_status, Review!REVIEWER_STATUSES, Review!PENALTY
<1>4. restored \in Standing /\ restored.base = r.base
    <2>. HIDE DEF r, penal
    <2>. QED BY <1>1 DEF Standing
<1>5. EarnedBy(restored, accepted, w)
    <2>. HIDE DEF restored
    <2>. QED BY <1>1, <1>4 DEF EarnedBy
<1>6. EarnedBy(earned, accepted, w)
    <2>. HIDE DEF hidden, restored
    <2>1. \A b \in Review!REVIEWING : [restored EXCEPT !.base = b, !.at = h] \in Standing
        BY <1>1, <1>4 DEF Standing
    <2>2. \A b \in Review!REVIEWING : [restored EXCEPT !.base = b, !.at = h].base = b
        BY <1>1, <1>4 DEF Standing
    <2>. QED BY <1>5, <2>1, <2>2 DEF EarnedBy, Review!REVIEWING
<1>7. EarnedBy(final, accepted, w)
    <2>. DEFINE promoted == [earned EXCEPT !.base = "ESTABLISHED_REVIEWER", !.at = h]
    <2>1. promoted \in Standing
        <3>. HIDE DEF earned
        <3>. QED BY <1>1, <1>6 DEF EarnedBy, Standing, Review!REVIEWING
    <2>2. CASE enough
        <3>1. /\ Review!ProbationVotes(w, earned.at, MaxHeight) \in Nat
              /\ Review!ProbationVotes(w, earned.at, MaxHeight) <= Cardinality(Subs(accepted, w))
            <4>. HIDE DEF earned
            <4>. QED BY <1>1, CountsSubmissions
        <3>2. Cardinality(Subs(accepted, w)) \in Nat
            BY <1>1, SubsAreFinite
        <3>3. Cardinality(Subs(accepted, w)) >= PROBATION_MIN_VALID_VOTES_FOR_PROMOTION
            <4>. HIDE DEF earned
            <4>. QED BY <2>2, <3>1, <3>2 DEF Review!PolicyAssumption
        <3>4. EarnedBy(promoted, accepted, w)
            <4>. HIDE DEF earned, promoted
            <4>. QED BY <2>1, <3>3 DEF EarnedBy
        <3>5. final = promoted \/ final = earned
            <4>. HIDE DEF earned, hidden, long
            <4>. QED OBVIOUS
        <3>. HIDE DEF final, earned, promoted
        <3>. QED BY <1>6, <3>4, <3>5
    <2>3. CASE ~enough
        <3>1. final = earned
            <4>. HIDE DEF earned, enough
            <4>. QED BY <2>3
        <3>. HIDE DEF final, earned
        <3>. QED BY <1>6, <3>1
    <2>. HIDE DEF enough
    <2>. QED BY <2>2, <2>3
<1>8. EarnedBy([final EXCEPT !.status = status], accepted, w)
    <2>. HIDE DEF final, penal
    <2>1. status \in Review!REVIEWER_STATUSES
        BY <1>3, <1>7 DEF EarnedBy, Standing, Review!REVIEWER_STATUSES
    <2>. HIDE DEF status
    <2>2. [final EXCEPT !.status = status] \in Standing /\ [final EXCEPT !.status = status].base = final.base
        BY <1>7, <2>1 DEF EarnedBy, Standing
    <2>. QED BY <1>7, <2>2 DEF EarnedBy
<1>. QED BY <1>2, <1>8

\* The actions that change a standing bring it up to date, or name a penalty.
LEMMA StandingSteps ==
    ASSUME Review!Next, StandingInv
    PROVE  /\ DOMAIN reviewer' = Wallets
           /\ \A w \in Wallets :
              \/ reviewer'[w] = reviewer[w]
              \/ \E h \in {height, height + 1} : reviewer'[w] = Review!reconcile(w, h)
              \/ \E s \in Review!PENALTY : reviewer'[w] = [reviewer[w] EXCEPT !.status = s]
<1>. DEFINE Goal == /\ DOMAIN reviewer' = Wallets
                    /\ \A w \in Wallets :
                       \/ reviewer'[w] = reviewer[w]
                       \/ \E h \in {height, height + 1} : reviewer'[w] = Review!reconcile(w, h)
                       \/ \E s \in Review!PENALTY : reviewer'[w] = [reviewer[w] EXCEPT !.status = s]
<1>. SUFFICES Goal
    OBVIOUS
<1>0. DOMAIN reviewer = Wallets /\ \A w \in Wallets : reviewer[w] \in Standing
    BY DEF StandingInv, EarnedBy
<1>1. ASSUME UNCHANGED reviewer PROVE Goal
    BY <1>0, <1>1
<1>2. ASSUME NEW u, reviewer' = [reviewer EXCEPT ![u] = Review!reconcile(u, height)] PROVE Goal
    BY <1>0, <1>2
<1>3. ASSUME NEW u, NEW s, s \in Review!PENALTY \/ s = reviewer[u].status,
             reviewer' = [reviewer EXCEPT ![u].status = s]
      PROVE  Goal
    <2>1. \A x \in Standing : [x EXCEPT !.status = x.status] = x
        BY DEF Standing
    <2>. QED BY <1>0, <1>3, <2>1
<1>4. ASSUME NEW f, Review!record_reviewer_penalty(f) PROVE Goal
    <2>1. PICK job : reviewer' = [reviewer EXCEPT ![job.offense.wallet].status =
                 IF (Review!active_penalties(job.offense.wallet, Review!review_epoch(height)) # {})'
                 THEN Review!effective_status(job.offense.wallet, Review!review_epoch(height))' ELSE @]
        BY <1>4 DEF Review!record_reviewer_penalty
    <2>. DEFINE u == job.offense.wallet
                s == IF (Review!active_penalties(u, Review!review_epoch(height)) # {})'
                     THEN Review!effective_status(u, Review!review_epoch(height))' ELSE reviewer[u].status
    <2>2. Review!effective_status(u, Review!review_epoch(height))' \in Review!PENALTY
        BY DEF Review!effective_status, Review!PENALTY
    <2>3. s \in Review!PENALTY \/ s = reviewer[u].status
        BY <2>2
    <2>4. reviewer' = [reviewer EXCEPT ![u].status = s]
        BY <2>1
    <2>. HIDE DEF s, u, Goal
    <2>. QED BY <1>3, <2>3, <2>4
<1>5. CASE Review!reconcile_canonical_reviewer_states
    BY <1>0, <1>5 DEF Review!reconcile_canonical_reviewer_states
<1>. HIDE DEF Goal
<1>6. ASSUME NEW f, NEW v, \/ Review!cast_signed_submission_vote_operation(f, v)
                           \/ Review!receive_peer_vote(f, v)
                           \/ \E u, h : Review!receive_reviewer_offense_evidence(f, v, u, h)
                           \/ Review!get_reviewer_status(f, v)
      PROVE  Goal
    BY <1>2, <1>6 DEF Review!cast_signed_submission_vote_operation, Review!receive_peer_vote,
        Review!receive_reviewer_offense_evidence, Review!get_reviewer_status
<1>7. ASSUME NEW f, \/ Review!record_durable_vote_with_epoch_limit(f) \/ Review!save_blockchain(f)
                    \/ Review!load_blockchain(f) \/ Review!record_reviewer_offense(f)
                    \/ Review!Crash(f) \/ Review!Busy(f)
      PROVE  Goal
    BY <1>1, <1>7 DEF Review!record_durable_vote_with_epoch_limit, Review!save_blockchain,
        Review!load_blockchain, Review!record_reviewer_offense, Review!Crash, Review!Busy
<1>8. ASSUME NEW f, NEW v, NEW u, NEW h, Review!receive_reviewer_offense_evidence(f, v, u, h) PROVE Goal
    BY <1>6, <1>8
<1>. QED BY <1>4, <1>5, <1>6, <1>7, <1>8 DEF Review!Next

LEMMA StandingInvNext ==
    ASSUME Review!PolicyAssumption, "busy" \notin Failures, StandingInv, [Review!Next]_(Review!vars)
    PROVE  StandingInv'
<1>1. VoteInv' /\ RowsOf(accepted) \subseteq RowsOf(accepted')
    BY VoteInvNext DEF StandingInv
<1>2. accepted \in Seq(Row) /\ accepted' \in Seq(Row) /\ height \in Nat /\ height + 1 \in Nat
    BY <1>1 DEF StandingInv, VoteInv
<1>3. CASE UNCHANGED Review!vars
    BY <1>1, <1>3 DEF StandingInv, Review!vars
<1>4. CASE Review!Next
    <2>1. DOMAIN reviewer = Wallets /\ \A w \in Wallets : EarnedBy(reviewer[w], accepted, w)
        BY DEF StandingInv
    <2>2. ASSUME NEW w \in Wallets PROVE EarnedBy(reviewer'[w], accepted, w)
        <3>1. CASE reviewer'[w] = reviewer[w]
            BY <2>1, <3>1
        <3>2. CASE \E h \in {height, height + 1} : reviewer'[w] = Review!reconcile(w, h)
            BY <1>2, <3>2, ReconcileEarns
        <3>3. CASE \E s \in Review!PENALTY : reviewer'[w] = [reviewer[w] EXCEPT !.status = s]
            BY <2>1, <3>3 DEF EarnedBy, Standing, Review!PENALTY, Review!REVIEWER_STATUSES
        <3>. QED BY <1>4, <3>1, <3>2, <3>3, StandingSteps
    <2>3. ASSUME NEW w \in Wallets PROVE EarnedBy(reviewer'[w], accepted', w)
        BY <1>1, <1>2, <2>2, MoreRows
    <2>4. DOMAIN reviewer' = Wallets
        BY <1>4, StandingSteps
    <2>. QED BY <1>1, <2>3, <2>4 DEF StandingInv
<1>. QED BY <1>3, <1>4

\* No wallet that the bootstrap policy did not name becomes established before it
\* has accepted votes on enough different submissions, whoever brings its standing
\* up to date, at whatever height and between whatever penalties
\* (ReviewerReputationService.reconcile counts the vote table).
THEOREM PromotionsAreEarned ==
    ASSUME Review!PolicyAssumption, "busy" \notin Failures PROVE Review!Spec => []Review!PromotionEarned
<1>1. Review!Init => StandingInv
    <2>1. SUFFICES ASSUME Review!Init PROVE StandingInv
        OBVIOUS
    <2>2. reviewer = [w \in Wallets |-> [status |-> "NEW", base |-> "NEW", at |-> -1]]
        BY <2>1 DEF Review!Init, Review!Undated
    <2>3. -1 \in Int
        OBVIOUS
    <2>. QED BY <2>1, <2>2, <2>3, VoteInvInit DEF StandingInv, EarnedBy, Standing, Review!REVIEWER_STATUSES
<1>2. StandingInv /\ [Review!Next]_(Review!vars) => StandingInv'
    BY StandingInvNext
<1>3. StandingInv => Review!PromotionEarned
    <2>1. SUFFICES ASSUME StandingInv, NEW w \in Wallets \ Bootstrap, reviewer[w].base = "ESTABLISHED_REVIEWER"
                   PROVE  Review!Cardinality({b.vote.sub : b \in {c \in Review!Rows : c.vote.voter = w}})
                             >= PROBATION_MIN_VALID_VOTES_FOR_PROMOTION
        BY DEF Review!PromotionEarned
    <2>2. Cardinality(Subs(accepted, w)) >= PROBATION_MIN_VALID_VOTES_FOR_PROMOTION
        BY <2>1 DEF StandingInv, EarnedBy
    <2>. QED BY <2>2, TableIs, CardinalityOfRows DEF Subs
<1>. QED BY <1>1, <1>2, <1>3, PTL DEF Review!Spec

\* Wallets other than the creator with an accepted vote on s in dimension d.
Voters(s, d) ==
    {b.vote.voter : b \in {c \in Review!Rows : c.vote.sub = s /\ c.vote.dim = d}} \ {Creator[s]}

QualifiedHasVoters ==
    \A s \in Submissions : Review!combined_review(document, s) = "qualified" =>
        \A d \in Dimensions : Cardinality(Voters(s, d)) >= MIN_VALID_VOTES

\* A review that the stored document calls qualified has, in each dimension, the
\* accepted votes of enough different wallets, never the creator's among them:
\* neither a crash between the row and the save nor a save of an older document
\* lets one pass with fewer (combined_review, tally_review_dimension).
THEOREM QualifiedReviewsHaveVoters ==
    ASSUME Review!PolicyAssumption, "busy" \notin Failures PROVE Review!Spec => []QualifiedHasVoters
<1>1. ASSUME VoteInv, NEW s \in Submissions, Review!combined_review(document, s) = "qualified",
             NEW d \in Dimensions
      PROVE  Cardinality(Voters(s, d)) >= MIN_VALID_VOTES
    <2>. DEFINE B == {b \in document : b.vote.sub = s /\ b.vote.dim = d /\ Review!verify_vote_record(b)}
                who == {b.vote.voter : b \in B}
    <2>1. Review!tally(document, s, d) = "positive"
        BY <1>1 DEF Review!combined_review
    <2>2. Review!Cardinality(who) >= MIN_VALID_VOTES
        BY <2>1 DEF Review!tally
    <2>3. who \in SUBSET Voters(s, d)
        <3>. SUFFICES ASSUME NEW b \in B PROVE b.vote.voter \in Voters(s, d)
            OBVIOUS
        <3>1. b.vote.voter # Creator[s] /\ b.vote.sub = s /\ b.vote.dim = d
            BY DEF Review!verify_vote_record
        <3>2. PICK i \in DOMAIN accepted : accepted[i].vote = b.vote
            BY <1>1 DEF VoteInv, MemoryOK, Pending, VotesOf
        <3>. QED BY <3>1, <3>2 DEF Voters, Review!Rows
    <2>4. IsFiniteSet(Voters(s, d)) /\ Cardinality(Voters(s, d)) \in Nat
        <3>. DEFINE f == [i \in 1 .. Len(accepted) |-> accepted[i].vote.voter]
                    T == {accepted[i].vote.voter : i \in 1 .. Len(accepted)}
        <3>1. Len(accepted) \in Nat /\ DOMAIN accepted = 1 .. Len(accepted)
            BY <1>1 DEF VoteInv
        <3>2. f \in Surjection(1 .. Len(accepted), T)
            BY DEF Surjection
        <3>3. IsFiniteSet(T)
            BY <3>1, <3>2, FS_Interval, FS_Surjection
        <3>4. Voters(s, d) \in SUBSET T
            BY <3>1 DEF Voters, Review!Rows
        <3>. QED BY <3>3, <3>4, FS_Subset, FS_CardinalityType
    <2>5. Cardinality(who) <= Cardinality(Voters(s, d)) /\ Cardinality(who) \in Nat
        BY <2>3, <2>4, FS_Subset, FS_CardinalityType
    <2>. QED BY <2>2, <2>4, <2>5, CardinalityOfRows DEF Review!PolicyAssumption
<1>2. VoteInv => QualifiedHasVoters
    BY <1>1 DEF QualifiedHasVoters
<1>. QED BY <1>2, VoteInvariance, PTL

-----------------------------------------------------------------------------
(* Offenses and penalties.                                                 *)

OffensesOf(w, type) == {o \in offenses : o.wallet = w /\ o.type = type}

\* Offenses of one type are numbered as they come, and known by their keys.
Numbered(w, type) ==
    /\ IsFiniteSet(OffensesOf(w, type))
    /\ {o.seq : o \in OffensesOf(w, type)} = 1 .. Cardinality(OffensesOf(w, type))
    /\ \A o, q \in OffensesOf(w, type) : o.key = q.key => o = q

\* The length of an escalating penalty follows the number of its offense.
Follows(p, o) ==
    /\ p.wallet = o.wallet /\ p.of = <<o.type, o.key>>
    /\ o.type \in Review!ESCALATING_OFFENSE_TYPES =>
          p.end - p.start = Review!_schedule(o.type, o.seq).epochs

\* An offense that is being written has the next number.
ChargeOK(j) ==
    /\ "stage" \in DOMAIN j
    /\ j.stage = "offense" /\ j.offense.type \in Review!ESCALATING_OFFENSE_TYPES =>
          j.offense.seq = Cardinality(OffensesOf(j.offense.wallet, j.offense.type)) + 1
    /\ j.stage = "penalty" => j.offense \in offenses
    /\ j.stage \in {"offense", "penalty"} => \A p \in j.penalty : Follows(p, j.offense)
ChargesOK(c) == c = {} \/ \E j : c = {j} /\ ChargeOK(j)

HistoryInv ==
    /\ height \in Nat /\ call = [f \in Facades |-> call[f]] /\ \A f \in Facades : ChargesOK(call[f])
    /\ \A w, type : type \in Review!ESCALATING_OFFENSE_TYPES => Numbered(w, type)
    /\ \A p \in penalties : \E o \in offenses : Follows(p, o)

\* The sentence for the next offense of a wallet.
LEMMA Charged ==
    ASSUME Review!PolicyAssumption, HistoryInv, NEW w, NEW type, NEW key, NEW epoch \in Int, NEW epochs
    PROVE  ChargesOK({Review!apply_verified_offense(w, type, key, epoch, epochs)})
<1>. DEFINE j == Review!apply_verified_offense(w, type, key, epoch, epochs)
            o == j.offense
            n == Cardinality(OffensesOf(w, type)) + 1
            active == Review!active_penalties(w, epoch)
            end == Review!Max({p.end : p \in active} \cup {epoch + epochs})
            sentence == Review!_schedule(type, n)
            Penalty(status, length, last) ==
                {[wallet |-> w, status |-> status, start |-> epoch, end |-> last,
                  epochs |-> length, of |-> <<type, key>>]}
<1>1. /\ "stage" \in DOMAIN j /\ j.stage = "offense"
      /\ o.wallet = w /\ o.type = type /\ o.key = key
    BY DEF Review!apply_verified_offense
<1>2. type \in Review!ESCALATING_OFFENSE_TYPES =>
        /\ o.seq = n
        /\ j.penalty = {} \/ j.penalty = Penalty(sentence.status, sentence.epochs, epoch + sentence.epochs)
    <2>1. Review!Cardinality(OffensesOf(w, type)) = Cardinality(OffensesOf(w, type))
        BY CardinalityOfRows
    <2>2. type \in Review!ESCALATING_OFFENSE_TYPES => o.seq = n
        BY <2>1 DEF Review!apply_verified_offense, OffensesOf
    <2>. DEFINE m == IF type \in Review!ESCALATING_OFFENSE_TYPES
                     THEN Review!Cardinality({q \in offenses : q.wallet = w /\ q.type = type}) + 1
                     ELSE 0
                s == Review!_schedule(type, m)
    <2>3. type \in Review!ESCALATING_OFFENSE_TYPES =>
            j.penalty = {} \/ j.penalty = Penalty(s.status, s.epochs, epoch + s.epochs)
        <3>1. type = "VOTE_DURING_COOLDOWN" => type \notin Review!ESCALATING_OFFENSE_TYPES
            BY DEF Review!ESCALATING_OFFENSE_TYPES
        <3>. QED BY <3>1 DEF Review!apply_verified_offense
    <2>4. type \in Review!ESCALATING_OFFENSE_TYPES => m = n
        BY <2>1 DEF OffensesOf
    <2>. HIDE DEF j, m, n
    <2>. QED BY <2>2, <2>3, <2>4
<1>3. type \notin Review!ESCALATING_OFFENSE_TYPES =>
        j.penalty = {} \/ j.penalty = Penalty("COOLDOWN", epochs, end)
    BY DEF Review!apply_verified_offense
<1>4. CASE type \in Review!ESCALATING_OFFENSE_TYPES
    <2>1. n \in Nat \ {0}
        BY <1>4, FS_CardinalityType DEF HistoryInv, Numbered
    <2>2. sentence.epochs \in Int
        <3>1. COOLDOWN_EPOCHS[type] \in Seq(Nat \ {0})
            BY <1>4 DEF Review!PolicyAssumption
        <3>2. n <= Len(COOLDOWN_EPOCHS[type]) => COOLDOWN_EPOCHS[type][n] \in Nat
            BY <2>1, <3>1
        <3>. HIDE DEF n
        <3>. QED BY <3>2 DEF Review!_schedule, Review!PolicyAssumption
    <2>. HIDE DEF sentence, n, j
    <2>3. \A p \in j.penalty : Follows(p, o)
        BY <1>1, <1>2, <1>4, <2>2 DEF Follows, sentence
    <2>4. ChargesOK({j})
        BY <1>1, <1>2, <1>4, <2>3 DEF ChargesOK, ChargeOK, n
    <2>. QED BY <2>4 DEF j
<1>5. CASE type \notin Review!ESCALATING_OFFENSE_TYPES
    <2>. HIDE DEF j, end
    <2>1. \A p \in j.penalty : Follows(p, o)
        BY <1>1, <1>3, <1>5 DEF Follows
    <2>2. ChargesOK({j})
        BY <1>1, <1>5, <2>1 DEF ChargesOK, ChargeOK
    <2>. QED BY <2>2 DEF j
<1>. QED BY <1>4, <1>5

LEMMA EpochIsInt == ASSUME Review!PolicyAssumption, NEW h \in Nat PROVE Review!review_epoch(h) \in Int
BY DEF Review!review_epoch, Review!PolicyAssumption

LEMMA ExcessIsCharged ==
    ASSUME Review!PolicyAssumption, HistoryInv, NEW f, NEW b, NEW decided,
           Review!record_rate_limit_excess(f, b, decided)
    PROVE  \E c : ChargesOK(c) /\ call' = [call EXCEPT ![f] = c]
<1>. DEFINE epoch == Review!review_epoch(height)
            charge == Review!apply_verified_offense(b.vote.voter, "RATE_LIMIT_ABUSE",
                          <<"any", "any", "any", epoch>>, epoch, 0)
<1>1. ChargesOK({charge}) /\ ChargesOK({})
    <2>1. epoch \in Int
        BY EpochIsInt DEF HistoryInv
    <2>. HIDE DEF epoch
    <2>2. ChargesOK({charge})
        BY <2>1, Charged
    <2>. QED BY <2>2 DEF ChargesOK
<1>2. call' = [call EXCEPT ![f] = {charge}] \/ call' = [call EXCEPT ![f] = {}]
    BY DEF Review!record_rate_limit_excess
<1>. HIDE DEF charge
<1>. QED BY <1>1, <1>2

\* Whatever becomes of a ballot, the request has at most one thing to write.
LEMMA JudgedIsCharged ==
    ASSUME Review!PolicyAssumption, HistoryInv, NEW f, NEW b, NEW decided, Review!Judge(f, b, decided)
    PROVE  \E c : ChargesOK(c) /\ call' = [call EXCEPT ![f] = c]
<1>. DEFINE Goal == \E c : ChargesOK(c) /\ call' = [call EXCEPT ![f] = c]
            v == b.vote
            epoch == Review!review_epoch(height)
            existing == {c \in mem[f] : Review!SameSlot(c.vote, v)}
<1>. SUFFICES Goal
    OBVIOUS
<1>1. epoch \in Int /\ ChargesOK({})
    BY EpochIsInt DEF HistoryInv, ChargesOK
<1>2. ASSUME NEW c, ChargesOK(c), Review!Refuse(f, b, c) PROVE Goal
    BY <1>2 DEF Review!Refuse
<1>. HIDE DEF Goal, epoch
<1>3. ASSUME NEW type, NEW key, NEW epochs,
             Review!Refuse(f, b, {Review!apply_verified_offense(v.voter, type, key, epoch, epochs)})
      PROVE  Goal
    <2>1. ChargesOK({Review!apply_verified_offense(v.voter, type, key, epoch, epochs)})
        BY <1>1, Charged
    <2>. QED BY <1>2, <1>3, <2>1
<1>4. ASSUME Review!Refuse(f, b, {}) PROVE Goal
    BY <1>1, <1>2, <1>4
<1>5. ASSUME Review!Refuse(f, b, IF \E c \in existing : c.vote.choice # v.choice
                  THEN {Review!apply_verified_offense(v.voter, "SIGNED_VOTE_EQUIVOCATION", Review!Incident(v), epoch, 0)}
                  ELSE {})
      PROVE  Goal
    BY <1>3, <1>4, <1>5
<1>6. ASSUME Review!Refuse(f, b, {Review!apply_verified_offense(v.voter, "CREATOR_SELF_VOTE", Review!Identity(v), epoch, 0)})
      PROVE  Goal
    BY <1>3, <1>6
<1>7. ASSUME NEW p, Review!Refuse(f, b, {Review!apply_verified_offense(v.voter,
                    IF b.status = "COOLDOWN" THEN "VOTE_DURING_COOLDOWN"
                    ELSE "VOTE_DURING_SUSPENSION", Review!Identity(v), epoch, p.epochs)})
      PROVE  Goal
    BY <1>3, <1>7
<1>8. ASSUME Review!record_rate_limit_excess(f, b, decided) PROVE Goal
    BY <1>8, ExcessIsCharged DEF Goal
<1>9. ASSUME call' = [call EXCEPT ![f] = {[stage |-> "record", ballot |-> b]}] PROVE Goal
    <2>. DEFINE job == [stage |-> "record", ballot |-> b]
    <2>1. "stage" \in DOMAIN job /\ job.stage = "record"
        OBVIOUS
    <2>2. call' = [call EXCEPT ![f] = {job}]
        BY <1>9
    <2>. HIDE DEF job
    <2>. QED BY <2>1, <2>2 DEF Goal, ChargesOK, ChargeOK
<1>. QED BY <1>4, <1>5, <1>6, <1>7, <1>8, <1>9 DEF Review!Judge, epoch

\* A request of a facade goes on and writes neither offense nor penalty.
LEMMA HistoryStays ==
    ASSUME HistoryInv, NEW f, height' \in Nat, UNCHANGED <<offenses, penalties>>,
           NEW c, ChargesOK(c), call' = [call EXCEPT ![f] = c]
    PROVE  HistoryInv'
<1>1. \A g \in Facades : ChargesOK(call'[g])
    BY DEF HistoryInv
<1>2. \A s : ChargesOK(s) => ChargesOK(s)'
    BY DEF ChargesOK, ChargeOK, OffensesOf, Follows
<1>3. \A w, type : OffensesOf(w, type)' = OffensesOf(w, type)
    BY DEF OffensesOf
<1>4. \A w, type : Numbered(w, type) => Numbered(w, type)'
    BY <1>3 DEF Numbered
<1>5. \A p \in penalties' : \E o \in offenses' : Follows(p, o)'
    BY DEF HistoryInv, Follows
<1>6. call' = [g \in Facades |-> call'[g]]
    BY DEF HistoryInv
<1>7. \A g \in Facades : ChargesOK(call[g])'
    BY <1>1, <1>2
<1>. QED BY <1>4, <1>5, <1>6, <1>7 DEF HistoryInv

LEMMA OffenseIsNumbered ==
    ASSUME HistoryInv, NEW f \in Facades, Facades = {f}, Review!record_reviewer_offense(f)
    PROVE  HistoryInv'
<1>1. PICK job \in call[f] :
        LET o == job.offense
            replay == \E q \in offenses : q.wallet = o.wallet /\ q.type = o.type /\ q.key = o.key
        IN /\ job.stage = "offense"
           /\ offenses' = IF replay THEN offenses ELSE offenses \cup {o}
           /\ call' = [call EXCEPT ![f] = IF replay THEN {} ELSE {[job EXCEPT !.stage = "penalty"]}]
           /\ UNCHANGED <<height, penalties>>
    BY DEF Review!record_reviewer_offense
<1>. DEFINE o == job.offense
            next == [job EXCEPT !.stage = "penalty"]
            replay == \E q \in offenses : q.wallet = o.wallet /\ q.type = o.type /\ q.key = o.key
<1>2. ChargeOK(job)
    BY <1>1 DEF HistoryInv, ChargesOK
<1>3. CASE replay
    <2>1. ChargesOK({}) /\ UNCHANGED <<offenses, penalties>> /\ call' = [call EXCEPT ![f] = {}] /\ height' \in Nat
        BY <1>1, <1>3 DEF ChargesOK, HistoryInv
    <2>. QED BY <2>1, HistoryStays
<1>4. CASE ~replay
    <2>1. offenses' = offenses \cup {o} /\ call' = [call EXCEPT ![f] = {next}] /\ UNCHANGED <<height, penalties>>
        BY <1>1, <1>4
    <2>2. "stage" \in DOMAIN next /\ next.stage = "penalty" /\ next.offense = o /\ next.penalty = job.penalty
        BY <1>2 DEF ChargeOK
    <2>3. \A p \in job.penalty : Follows(p, o)
        BY <1>1, <1>2 DEF ChargeOK
    <2>. HIDE DEF next
    <2>4. ChargesOK({next})'
        BY <2>1, <2>2, <2>3 DEF ChargesOK, ChargeOK, Follows
    <2>5. call' = [g \in Facades |-> call'[g]] /\ \A g \in Facades : ChargesOK(call[g])'
        BY <2>1, <2>4 DEF HistoryInv
    <2>6. ASSUME NEW w, NEW type, type \in Review!ESCALATING_OFFENSE_TYPES PROVE Numbered(w, type)'
        <3>. DEFINE R == OffensesOf(w, type)
        <3>1. /\ IsFiniteSet(R) /\ {q.seq : q \in R} = 1 .. Cardinality(R) /\ Cardinality(R) \in Nat
              /\ \A q, r \in R : q.key = r.key => q = r
            BY <2>6, FS_CardinalityType DEF HistoryInv, Numbered
        <3>2. CASE o.wallet = w /\ o.type = type
            <4>1. OffensesOf(w, type)' = R \cup {o} /\ \A q \in R : q.key # o.key
                BY <1>4, <2>1, <3>2 DEF OffensesOf
            <4>2. o.seq = Cardinality(R) + 1 /\ o \notin R
                BY <1>1, <1>2, <2>6, <3>2, <4>1 DEF ChargeOK
            <4>3. IsFiniteSet(R \cup {o}) /\ Cardinality(R \cup {o}) = Cardinality(R) + 1
                BY <3>1, <4>2, FS_AddElement
            <4>. HIDE DEF R, o
            <4>4. {q.seq : q \in R \cup {o}} = {q.seq : q \in R} \cup {Cardinality(R) + 1}
                BY <4>2
            <4>5. {q.seq : q \in R \cup {o}} = 1 .. Cardinality(R) + 1
                BY <3>1, <4>4
            <4>6. \A q, r \in R \cup {o} : q.key = r.key => q = r
                BY <3>1, <4>1
            <4>. QED BY <4>1, <4>3, <4>5, <4>6 DEF Numbered
        <3>3. CASE ~(o.wallet = w /\ o.type = type)
            <4>1. OffensesOf(w, type)' = R
                BY <2>1, <3>3 DEF OffensesOf
            <4>. QED BY <3>1, <4>1 DEF Numbered
        <3>. QED BY <3>2, <3>3
    <2>7. \A p \in penalties' : \E q \in offenses' : Follows(p, q)
        BY <2>1 DEF HistoryInv
    <2>. QED BY <2>1, <2>5, <2>6, <2>7 DEF HistoryInv, Follows
<1>. QED BY <1>3, <1>4

LEMMA HistoryInvNext ==
    ASSUME Review!PolicyAssumption, HistoryInv, NEW f \in Facades, Facades = {f}, [Review!Next]_(Review!vars)
    PROVE  HistoryInv'
<1>1. ASSUME NEW v, Review!cast_signed_submission_vote_operation(f, v) \/ Review!receive_peer_vote(f, v)
      PROVE  HistoryInv'
    <2>1. PICK b, decided : Review!Judge(f, b, decided) /\ UNCHANGED <<height, offenses, penalties>>
        BY <1>1 DEF Review!cast_signed_submission_vote_operation, Review!receive_peer_vote
    <2>. QED BY <2>1, JudgedIsCharged, HistoryStays DEF HistoryInv
<1>2. ASSUME Review!record_durable_vote_with_epoch_limit(f) PROVE HistoryInv'
    <2>1. UNCHANGED <<height, offenses, penalties>>
        BY <1>2 DEF Review!record_durable_vote_with_epoch_limit
    <2>2. \/ \E b : Review!record_rate_limit_excess(f, b, FALSE)
          \/ call' = [call EXCEPT ![f] = {}] \/ call' = [call EXCEPT ![f] = {[stage |-> "save"]}]
        BY <1>2 DEF Review!record_durable_vote_with_epoch_limit
    <2>3. ChargesOK({}) /\ ChargesOK({[stage |-> "save"]})
        BY DEF ChargesOK, ChargeOK
    <2>. QED BY <2>1, <2>2, <2>3, ExcessIsCharged, HistoryStays DEF HistoryInv
<1>3. ASSUME UNCHANGED <<offenses, penalties>>, height' \in Nat, call' = call \/ call' = [call EXCEPT ![f] = {}]
      PROVE  HistoryInv'
    <2>1. call' = [call EXCEPT ![f] = call[f]] \/ call' = [call EXCEPT ![f] = {}]
        BY <1>3 DEF HistoryInv
    <2>2. ChargesOK(call[f]) /\ ChargesOK({})
        BY DEF HistoryInv, ChargesOK
    <2>. QED BY <1>3, <2>1, <2>2, HistoryStays
<1>4. ASSUME Review!record_reviewer_penalty(f) PROVE HistoryInv'
    <2>1. PICK job \in call[f] : job.stage = "penalty" /\ penalties' = penalties \cup job.penalty
        BY <1>4 DEF Review!record_reviewer_penalty
    <2>2. UNCHANGED <<height, offenses>> /\ call' = [call EXCEPT ![f] = {}]
        BY <1>4 DEF Review!record_reviewer_penalty
    <2>3. job.offense \in offenses /\ \A p \in job.penalty : Follows(p, job.offense)
        BY <2>1 DEF HistoryInv, ChargesOK, ChargeOK
    <2>4. \A p \in penalties' : \E o \in offenses' : Follows(p, o)
        BY <2>1, <2>2, <2>3 DEF HistoryInv
    <2>5. \A g \in Facades : ChargesOK(call'[g])
        BY <2>2 DEF HistoryInv, ChargesOK
    <2>6. \A w, type : OffensesOf(w, type)' = OffensesOf(w, type)
        BY <2>2 DEF OffensesOf
    <2>7. \A w, type : Numbered(w, type) => Numbered(w, type)'
        BY <2>6 DEF Numbered
    <2>8. call' = [g \in Facades |-> call'[g]] /\ \A g \in Facades : ChargesOK(call[g])'
        BY <2>2, <2>5 DEF HistoryInv, ChargesOK, ChargeOK, OffensesOf, Follows
    <2>9. \A p \in penalties' : \E o \in offenses' : Follows(p, o)'
        BY <2>4 DEF Follows
    <2>. QED BY <2>2, <2>7, <2>8, <2>9 DEF HistoryInv
<1>5. ASSUME NEW v, NEW u, NEW h \in 0 .. height, Review!receive_reviewer_offense_evidence(f, v, u, h)
      PROVE  HistoryInv'
    <2>. DEFINE c == {Review!apply_verified_offense(v.voter, "SIGNED_VOTE_EQUIVOCATION", Review!Incident(v),
                          Review!review_epoch(h), 0)}
    <2>1. h \in Nat
        BY DEF HistoryInv
    <2>2. ChargesOK(c)
        BY <2>1, Charged, EpochIsInt
    <2>3. call' = [call EXCEPT ![f] = c] /\ UNCHANGED <<height, offenses, penalties>>
        BY <1>5 DEF Review!receive_reviewer_offense_evidence
    <2>. HIDE DEF c
    <2>. QED BY <2>2, <2>3, HistoryStays DEF HistoryInv
<1>6. ASSUME \/ Review!save_blockchain(f) \/ Review!load_blockchain(f) \/ Review!Crash(f) \/ Review!Busy(f)
             \/ \E w \in Wallets : Review!get_reviewer_status(f, w)
             \/ Review!reconcile_canonical_reviewer_states \/ UNCHANGED Review!vars
      PROVE  HistoryInv'
    BY <1>3, <1>6 DEF HistoryInv, Review!save_blockchain, Review!load_blockchain, Review!Crash, Review!Busy,
        Review!get_reviewer_status, Review!reconcile_canonical_reviewer_states, Review!vars
<1>7. CASE Review!Next
    BY <1>1, <1>2, <1>4, <1>5, <1>6, <1>7, OffenseIsNumbered DEF Review!Next
<1>. QED BY <1>6, <1>7

\* Offenses of one type are numbered without a gap in the order in which they were
\* recorded, and a penalty has the length of its number, whatever the facade was
\* doing when it died: a repeated report of one incident is a replay, not the next
\* offense.  Two facades may both charge an offense as the first (README, section 5).
THEOREM PenaltiesEscalate ==
    ASSUME Review!PolicyAssumption, NEW f \in Facades, Facades = {f}
    PROVE  Review!Spec => []Review!EscalationFollowsHistory
<1>1. Review!Init => HistoryInv
    <2>1. SUFFICES ASSUME Review!Init PROVE HistoryInv
        OBVIOUS
    <2>2. /\ height = 0 /\ call = [g \in Facades |-> {}] /\ penalties = {}
          /\ \A w, type : OffensesOf(w, type) = {}
        BY <2>1 DEF Review!Init, OffensesOf
    <2>3. IsFiniteSet({}) /\ Cardinality({}) = 0 /\ {o.seq : o \in {}} = 1 .. 0
        BY FS_EmptySet
    <2>. QED BY <2>2, <2>3 DEF HistoryInv, Numbered, ChargesOK
<1>2. HistoryInv /\ [Review!Next]_(Review!vars) => HistoryInv'
    BY HistoryInvNext
<1>3. HistoryInv => Review!EscalationFollowsHistory
    <2>1. SUFFICES ASSUME HistoryInv, NEW w \in Wallets, NEW type \in Review!ESCALATING_OFFENSE_TYPES
                   PROVE  /\ {o.seq : o \in OffensesOf(w, type)} = 1 .. Cardinality(OffensesOf(w, type))
                          /\ \A o \in OffensesOf(w, type), p \in penalties :
                                p.wallet = w /\ p.of = <<type, o.key>> =>
                                    p.end - p.start = Review!_schedule(type, o.seq).epochs
        BY CardinalityOfRows DEF Review!EscalationFollowsHistory, OffensesOf
    <2>2. Numbered(w, type) /\ \A p \in penalties : \E o \in offenses : Follows(p, o)
        BY <2>1 DEF HistoryInv
    <2>3. ASSUME NEW o \in OffensesOf(w, type), NEW p \in penalties, p.wallet = w, p.of = <<type, o.key>>
          PROVE  p.end - p.start = Review!_schedule(type, o.seq).epochs
        <3>1. PICK q \in offenses : Follows(p, q)
            BY <2>2
        <3>2. q.wallet = w /\ q.type = type /\ q.key = o.key
            BY <2>3, <3>1 DEF Follows
        <3>3. q = o
            BY <2>2, <3>2 DEF Numbered, OffensesOf
        <3>. QED BY <3>1, <3>2, <3>3 DEF Follows
    <2>. QED BY <2>2, <2>3 DEF Numbered
<1>. QED BY <1>1, <1>2, <1>3, PTL DEF Review!Spec
=============================================================================
