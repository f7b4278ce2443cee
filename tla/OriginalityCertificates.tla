----------------------- MODULE OriginalityCertificates -----------------------
(***************************************************************************)
(* The certificate of one submission on several nodes: issued by the node  *)
(* that evaluates the votes, transferred to peers that hold the same       *)
(* votes, validated again whenever it is used, and bound into a block.     *)
(*                                                                         *)
(* A node that has seen no finalized block issues version 2, bound to all  *)
(* its votes and the threshold of the moment; any other node issues        *)
(* version 3, bound to the votes and standings at its finalized head.      *)
(* Evaluation runs on the event loop: only a stop of the process comes     *)
(* between its two saves.  Content, evidence and signatures are valid and  *)
(* the same everywhere; the nodes' chains do not diverge.                  *)
(***************************************************************************)
EXTENDS Integers, Sequences, SequencesExt, FiniteSets

CONSTANTS
    Nodes,
    Issuers,                \* nodes asked to evaluate the submission
    Voters,
    Choice,                 \* what each voter thinks of the submission
    QualifiedAt,            \* finalized height that makes a voter a reviewer
    EstablishedAt,          \* finalized height that establishes it
    REVIEW_EPOCH_BLOCKS, PENALTY_EPOCHS,
    MIN_VALID_VOTES, MIN_ESTABLISHED_VOTES, APPROVAL_THRESHOLD_BPS,
    MinimumVotes,           \* minimum of a version-2 vote, by time
    WindowEnd,              \* time at which its voting window is over
    NONE,                   \* no certificate, no block
    MaxHeight, MaxTime, MaxOffenses, MaxStops   \* bounds

CertificateAssumption ==
    /\ Issuers \subseteq Nodes
    /\ Choice \in [Voters -> {"original", "not_original", "unsure"}]
    /\ QualifiedAt \in [Voters -> Nat] /\ EstablishedAt \in [Voters -> Nat]
    /\ MIN_VALID_VOTES \in Nat \ {0} /\ MIN_ESTABLISHED_VOTES \in Nat
    /\ REVIEW_EPOCH_BLOCKS \in Nat \ {0}
    /\ MaxHeight \in Nat \ {0} /\ MaxTime \in Nat /\ MaxStops \in Nat
    /\ MinimumVotes \in [0..MaxTime -> Nat \ {0}]

VARIABLES
    now,
    tip,        \* height of the common chain
    head,       \* each node's finalized height; 0: it has seen none
    penalties,  \* penalties each node knows: who, and the epoch they start in
    votes,      \* votes each node accepted: who, and the finalized height
    certs,      \* originality_certificates of each node, in order
    link,       \* certificate_id of the node's submission record
    status,     \* its status there
    block,      \* certificate the mined block carries, or NONE
    stops       \* evaluations cut off so far

vars == <<now, tip, head, penalties, votes, certs, link, status, block, stops>>
Clock == <<now, tip, head>>

Vote == [voter : Voters, at : 0..MaxHeight]

-----------------------------------------------------------------------------
(* Standing and votes *)

review_epoch(h) == h \div REVIEW_EPOCH_BLOCKS


get_reviewer_status_at_reference(n, w, h) ==
    IF \E p \in penalties[n] :
          p.voter = w /\ review_epoch(h) \in p.start .. (p.start + PENALTY_EPOCHS - 1)
        THEN "ineligible"
    ELSE IF h >= EstablishedAt[w] THEN "established"
    ELSE IF h >= QualifiedAt[w] THEN "probationary" ELSE "ineligible"

is_finalized_canonical_reference(n, h) == h \in 1..head[n]

\* A vote counts when its own finalized reference makes the voter eligible.
validate_certificate_v3_vote_record(n, v) ==
    /\ is_finalized_canonical_reference(n, v.at)
    /\ get_reviewer_status_at_reference(n, v.voter, v.at) # "ineligible"

get_certificate_v3_vote_context(n, ref) ==
    IF ~is_finalized_canonical_reference(n, ref) THEN {}
    ELSE {v \in votes[n] : /\ validate_certificate_v3_vote_record(n, v)
                           /\ get_reviewer_status_at_reference(n, v.voter, ref) # "ineligible"}

\* The participating reviewers with their standing at the reference.
build_reviewer_snapshot(n, V, ref) ==
    {[voter |-> v.voter, status |-> get_reviewer_status_at_reference(n, v.voter, ref)] : v \in V}

\* A version-2 vote set commits to voters and choices, version 3 to the signed
\* votes with their references.
build_protocol_v1_vote_set_payload(V) == {[voter |-> v.voter, at |-> 0] : v \in V}
build_milestone5_vote_set_payload_v3(V) == V
calculate_vote_hash(version, V) ==
    IF version = 3 THEN build_milestone5_vote_set_payload_v3(V)
    ELSE build_protocol_v1_vote_set_payload(V)

Count(V, choice) == Cardinality({v \in V : Choice[v.voter] = choice})
EstablishedCount(snapshot) == Cardinality({r \in snapshot : r.status = "established"})
Approved(V) ==
    LET decisive == Count(V, "original") + Count(V, "not_original")
    IN  decisive > 0 /\ Count(V, "original") * 10000 >= decisive * APPROVAL_THRESHOLD_BPS

-----------------------------------------------------------------------------
(* Certificates *)

Certificate == [version : {2, 3}, votes : SUBSET Vote, ref : 0..MaxHeight,
                snapshot : SUBSET [voter : Voters, status : {"established", "probationary"}],
                minimum : Nat, approved_at : 0..MaxTime, issuer : Nodes]

\* The identity leaves out when and by whom the certificate was issued; the
\* reviewer fields of version 2 are reserved.
build_milestone5_certificate_identity_payload(c) == <<c.votes, c.ref, c.minimum>>
build_milestone5_certificate_identity_payload_v3(c) ==
    <<c.votes, c.ref, c.minimum, c.snapshot>>
to_core_dict(c) ==
    IF c.version = 3 THEN build_milestone5_certificate_identity_payload_v3(c)
    ELSE build_milestone5_certificate_identity_payload(c)
calculate_certificate_id(c) == <<c.version, to_core_dict(c)>>

from_approved_submission(n, v3) ==
    LET V == IF v3 THEN get_certificate_v3_vote_context(n, head[n]) ELSE votes[n]
    IN  [version |-> IF v3 THEN 3 ELSE 2,
         votes |-> calculate_vote_hash(IF v3 THEN 3 ELSE 2, V),
         ref |-> IF v3 THEN head[n] ELSE tip,
         snapshot |-> IF v3 THEN build_reviewer_snapshot(n, V, head[n]) ELSE {},
         minimum |-> IF v3 THEN MIN_VALID_VOTES ELSE MinimumVotes[now],
         approved_at |-> now, issuer |-> n]

\* The checks of every version: enough originals, a canonical reference.
validate_certificate_for_submission(n, c) == Approved(c.votes) /\ c.ref \in 0..tip

\* Version 3 recomputes votes V and snapshot from the node's own records.
ValidQuorum(n, c, V) ==
    /\ is_finalized_canonical_reference(n, c.ref)
    /\ V = c.votes /\ build_reviewer_snapshot(n, V, c.ref) = c.snapshot
    /\ Cardinality(V) >= MIN_VALID_VOTES
    /\ EstablishedCount(c.snapshot) >= MIN_ESTABLISHED_VOTES

validate_originality_certificate(n, c) ==
    /\ validate_certificate_for_submission(n, c)
    /\ c.version = 3 => ValidQuorum(n, c, get_certificate_v3_vote_context(n, c.ref))

\* What a transferred certificate shows by itself: reviewer fields in version 3
\* only, and votes that approve.
_normalize_certificate_payload(c) == c.version = 2 => c.snapshot = {}
_validate_certificate_internal(c) == c.version = 2 => Approved(c.votes)

\* A peer's certificate must count exactly the votes this node has.
_validate_certificate_vote_set_against_local_submission(n, c) ==
    c.votes = calculate_vote_hash(c.version,
        IF c.version = 3 THEN get_certificate_v3_vote_context(n, c.ref) ELSE votes[n])

is_submission_voting_locked(n) == status[n] # "pending" \/ certs[n] # <<>>

\* What the evaluation at n finds: minimum, quorum and the share of originals.
Ready(n) ==
    LET V == get_certificate_v3_vote_context(n, head[n])
    IN  IF head[n] > 0
            THEN /\ Cardinality(V) >= MIN_VALID_VOTES
                 /\ EstablishedCount(build_reviewer_snapshot(n, V, head[n]))
                        >= MIN_ESTABLISHED_VOTES
            ELSE now >= WindowEnd \/ Cardinality(votes[n]) >= MinimumVotes[now]

Passed(n) ==
    Approved(IF head[n] > 0 THEN get_certificate_v3_vote_context(n, head[n]) ELSE votes[n])

\* A certificate found in the records is used again.
create_originality_certificate(n) ==
    IF certs[n] # <<>> THEN Head(certs[n]) ELSE from_approved_submission(n, head[n] > 0)

-----------------------------------------------------------------------------
TypeOK ==
    /\ now \in 0..MaxTime /\ tip \in 1..MaxHeight /\ stops \in 0..MaxStops
    /\ head \in [Nodes -> 0..tip]
    /\ \A n \in Nodes :
         /\ penalties[n] \subseteq [voter : Voters, start : Nat]
         /\ votes[n] \subseteq Vote
         /\ \A c \in ToSet(certs[n]) : c \in Certificate
         /\ status[n] \in {"pending", "approved", "rejected", "minted"}

Init ==
    /\ now = 0 /\ tip = 1 /\ head = [n \in Nodes |-> 0]
    /\ penalties = [n \in Nodes |-> {}] /\ votes = [n \in Nodes |-> {}]
    /\ certs = [n \in Nodes |-> <<>>] /\ link = [n \in Nodes |-> NONE]
    /\ status = [n \in Nodes |-> "pending"] /\ block = NONE /\ stops = 0

Records == <<penalties, votes, certs, link, status, block, stops>>

Tick == /\ now < MaxTime /\ now' = now + 1 /\ UNCHANGED <<tip, head, Records>>
Grow == /\ tip < MaxHeight /\ tip' = tip + 1 /\ UNCHANGED <<now, head, Records>>

\* The next block of the chain becomes final at n.
finalize(n) ==
    /\ head[n] < tip /\ head' = [head EXCEPT ![n] = @ + 1]
    /\ UNCHANGED <<now, tip, Records>>

Votable(n, w) == ~is_submission_voting_locked(n) /\ \A v \in votes[n] : v.voter # w

\* A reviewer's signed vote; before any finality a vote carries no standing.
cast_submission_vote(n, w) ==
    /\ \A m \in Nodes : \A v \in votes[m] : v.voter # w
    /\ Votable(n, w)
    /\ head[n] > 0 => get_reviewer_status_at_reference(n, w, head[n]) # "ineligible"
    /\ votes' = [votes EXCEPT ![n] = @ \union {[voter |-> w, at |-> head[n]]}]
    /\ UNCHANGED <<penalties, certs, link, status, block, stops, Clock>>

\* A peer's vote is taken while unlocked and judged at the receiver's own head.
receive_peer_vote(n, v) ==
    /\ Votable(n, v.voter)
    /\ v.at > 0 => /\ v.at = head[n]
                   /\ get_reviewer_status_at_reference(n, v.voter, head[n]) # "ineligible"
    /\ votes' = [votes EXCEPT ![n] = @ \union {v}]
    /\ UNCHANGED <<penalties, certs, link, status, block, stops, Clock>>

\* An offense of w proved to n: the penalty starts with the current epoch.
record_reviewer_offense(n, w) ==
    /\ head[n] > 0 /\ Cardinality(UNION {penalties[m] : m \in Nodes}) < MaxOffenses
    /\ penalties' = [penalties EXCEPT ![n] =
            @ \union {[voter |-> w, start |-> review_epoch(head[n])]}]
    /\ UNCHANGED <<votes, certs, link, status, block, stops, Clock>>

\* Approval: issue or reuse the certificate, save, approve, validate, save.
evaluate_submission(n) ==
    LET c == create_originality_certificate(n)
    IN  /\ n \in Issuers /\ status[n] = "pending" /\ Ready(n)
        /\ \/ /\ Passed(n) /\ validate_originality_certificate(n, c)
              /\ certs' = [certs EXCEPT ![n] = IF c \in ToSet(@) THEN @ ELSE Append(@, c)]
              /\ link' = [link EXCEPT ![n] = calculate_certificate_id(c)]
              /\ status' = [status EXCEPT ![n] = "approved"]
           \/ /\ ~Passed(n)
              /\ status' = [status EXCEPT ![n] = "rejected"]
              /\ UNCHANGED <<certs, link>>
        /\ UNCHANGED <<penalties, votes, block, stops, Clock>>

\* The process stops between the two saves: the certificate is stored, the
\* submission is still pending.
StoppedInEvaluation(n) ==
    LET c == create_originality_certificate(n)
    IN  /\ stops < MaxStops /\ stops' = stops + 1
        /\ n \in Issuers /\ status[n] = "pending" /\ Ready(n) /\ Passed(n)
        /\ certs' = [certs EXCEPT ![n] = IF c \in ToSet(@) THEN @ ELSE Append(@, c)]
        /\ link' = [link EXCEPT ![n] = calculate_certificate_id(Last(certs'[n]))]
        /\ UNCHANGED <<penalties, votes, status, block, Clock>>

\* A peer's certificate: known ones are not stored again, and a submission that
\* waits is approved by it.
_store_peer_certificate(n, c) ==
    /\ \A d \in ToSet(certs[n]) : calculate_certificate_id(d) # calculate_certificate_id(c)
    /\ _normalize_certificate_payload(c) /\ _validate_certificate_internal(c)
    /\ status[n] # "rejected"
    /\ _validate_certificate_vote_set_against_local_submission(n, c)
    /\ validate_originality_certificate(n, c)
    /\ certs' = [certs EXCEPT ![n] = Append(@, c)]
    /\ link' = [link EXCEPT ![n] = calculate_certificate_id(c)]
    /\ status' = [status EXCEPT ![n] = IF @ = "pending" THEN "approved" ELSE @]
    /\ UNCHANGED <<penalties, votes, block, stops, Clock>>

\* The block binds the certificate with its approval time.
certificate_block_metadata(n) ==
    /\ block = NONE /\ status[n] = "approved"
    /\ validate_originality_certificate(n, Head(certs[n]))
    /\ block' = Head(certs[n]) /\ status' = [status EXCEPT ![n] = "minted"]
    /\ UNCHANGED <<penalties, votes, certs, link, stops, Clock>>

Agrees(c) ==
    calculate_certificate_id(c) = calculate_certificate_id(block)
        => c.approved_at = block.approved_at

\* Another node accepts the block when its own certificate of that identity is
\* valid and equal to the block's.
validate_certificate_metadata(n) ==
    /\ block # NONE /\ status[n] # "minted"
    /\ \E c \in ToSet(certs[n]) :
          /\ calculate_certificate_id(c) = calculate_certificate_id(block)
          /\ validate_originality_certificate(n, c) /\ Agrees(c)
    /\ status[n] = "approved"
    /\ status' = [status EXCEPT ![n] = "minted"]
    /\ UNCHANGED <<penalties, votes, certs, link, block, stops, Clock>>

Next ==
    \/ Tick \/ Grow
    \/ \E n \in Nodes :
         \/ finalize(n) \/ evaluate_submission(n) \/ StoppedInEvaluation(n)
         \/ certificate_block_metadata(n) \/ validate_certificate_metadata(n)
         \/ \E w \in Voters : cast_submission_vote(n, w) \/ record_reviewer_offense(n, w)
         \/ \E m \in Nodes \ {n} :
              \/ \E v \in votes[m] : receive_peer_vote(n, v)
              \/ \E c \in ToSet(certs[m]) :
                    status[m] # "pending" /\ _store_peer_certificate(n, c)

Spec == Init /\ [][Next]_vars

-----------------------------------------------------------------------------
(* Properties. *)

Certified(n) == status[n] \in {"approved", "minted"}

\* A node approves nothing its own votes do not carry, even when the approval
\* came with a peer's certificate: it holds every vote the certificate counts.
ApprovedByOwnVotes ==
    \A n \in Nodes : Certified(n) =>
        \E c \in ToSet(certs[n]) :
            /\ \A v \in c.votes : \E u \in votes[n] : u.voter = v.voter
            /\ c.version = 2 => Cardinality(c.votes) = Cardinality(votes[n])
            /\ Cardinality(c.votes) >= (IF c.version = 3 THEN MIN_VALID_VOTES ELSE 1)

\* A submission has one certificate on all nodes, whatever is stopped and
\* evaluated again or comes back from a peer.
OneCertificate ==
    \A n, m \in Nodes : \A c \in ToSet(certs[n]), d \in ToSet(certs[m]) : c = d

\* Once a node has a certificate its votes do not change any more.
KeepsCertifiedVotes ==
    \A n \in Nodes : certs[n] # <<>> => votes'[n] = votes[n]
CertifiedVotesAreFrozen == [][KeepsCertifiedVotes]_vars


\* The certificate of an approved submission stays valid.
\* The code does not keep this: README, section 5.
StaysValid ==
    \A n \in Nodes : Certified(n) => validate_originality_certificate(n, Head(certs[n]))

\* A submission whose version-3 evaluation was cut off can be evaluated to its
\* end: its votes are locked, so nothing else could ever approve it.
NotStuck ==
    \A n \in Nodes :
        certs[n] # <<>> /\ status[n] = "pending" /\ Head(certs[n]).version = 3 =>
            Ready(n) /\ Passed(n) /\ validate_originality_certificate(n, Head(certs[n]))

\* A node that certified the submission itself accepts the block of another.
\* The code does not keep this: README, section 5.
OwnCertificateFitsBlock ==
    block # NONE => \A n \in Nodes : \A c \in ToSet(certs[n]) : Agrees(c)

\* Nodes that count the same votes issue the same certificate.
\* The code does not keep this: README, section 5.
SameVotesSameId ==
    \A n, m \in Nodes : \A c \in ToSet(certs[n]), d \in ToSet(certs[m]) :
        c.votes = d.votes /\ c.version = d.version
            => calculate_certificate_id(c) = calculate_certificate_id(d)
=============================================================================
