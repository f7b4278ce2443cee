------------------------ MODULE AtomicCertification ------------------------
(***************************************************************************)
(* The single-file certification store of canonical_v3 (AtomicV3Store):    *)
(* several processes hold a connection each, prepare admissions in their   *)
(* own memory, read the authoritative snapshot or the selected tip, and    *)
(* later run one write transaction that certifies, selects, finalizes or   *)
(* installs a newer snapshot.  SQLite serialises the transactions, so each *)
(* is one action; what the caller read before may be stale by then, and a  *)
(* process may die before the commit or between the commit and its answer. *)
(*                                                                         *)
(* A block stands for its canonical record: the certificate it carries,    *)
(* the header variant and the parent's hash decide its bytes.  The         *)
(* trusted application database (source) is the history that snapshots     *)
(* are captured from; signatures, media and reviewer qualification are     *)
(* data: a snapshot says which accepted selections still qualify in it.    *)
(***************************************************************************)
EXTENDS IssuedEvidence, Naturals, FiniteSets, Sequences, SequencesExt

CONSTANTS
    Stores,        \* processes, each with its connection and its adapter
    Certs,         \* complete v2 certificates reviewers and creators signed
    Ops,           \* operation identities chosen by callers
    Variants,      \* header choices of a candidate (timestamp, selection)
    VariantNonces, \* variant -> nonces of its native transactions, in order
    Epoch,         \* reference height -> review epoch
    EpochLimit,    \* votes a reviewer may cast in one epoch
    Anchor,        \* hash of the anchor block
    SourceHashes,  \* hashes of blocks the application minted itself
    MaxRevision,   \* bound: changes of the application's history
    NoTip

VARIABLES
    source,          \* the trusted application's history
    current,         \* certification_state.current_snapshot
    snapshots,       \* retained snapshots
    claims,          \* rows of replay_claims: claim, operation
    participation,   \* rows of certification_participation
    owner,           \* rows of candidate_certifications: block, operation
    tip,             \* settings.selected_tip
    selectedClaims,  \* rows of selected_claims
    finality,        \* blocks with a retained finality proof
    prepared,        \* store -> certificates whose admission it prepared
    call,            \* store -> what its caller read and is about to do
    answer           \* store -> the last answer of certify

db == <<snapshots, current, certifications, claims, participation, owner,
        tip, selectedClaims, finality>>
vars == <<source, db, prepared, call, answer>>

Idle == [kind |-> "idle"]
Silent == [kind |-> "none"]

Block(c, v, parent) == [cert |-> c, variant |-> v, parent |-> parent]
Blocks == {r[1] : r \in owner}
Owned(op) == {r[1] : r \in {x \in owner : x[2] = op}}

\* A later edit that drops the nonce claims.
ReplayKeysOfContent(c) ==
    {<<"original", Original[c]>>, <<"submission", Submission[c]>>, <<"certificate", c>>}

\* Claim identities of one certificate; policies are not part of them.
replay_keys(c) ==
    {<<"original", Original[c]>>, <<"submission", Submission[c]>>,
     <<"certificate", c>>, <<"attestation_nonce", Creator[c], Nonce[c]>>}
    \cup {<<"review", Submission[c], w>> : w \in Reviewers(c)}
    \cup {<<"vote_nonce", w, Nonce[c]>> : w \in Reviewers(c)}

-----------------------------------------------------------------------------
(* The application's history and its snapshots *)

\* Certificates of the v3 blocks that the application itself has adopted.
MintedIn(s) == {s.chain[i].cert : i \in {j \in DOMAIN s.chain : s.chain[j] \in Blocks}}
SettledIn(s) == UNION {Range(VariantNonces[s.chain[i].variant]) :
                          i \in {j \in DOMAIN s.chain : s.chain[j] \in Blocks}}
NextNonce(s) == Cardinality(SettledIn(s)) + 1

Genesis == [chain |-> <<Anchor>>, final |-> 1, reviews |-> Certs, revision |-> 0]

\* _History: rows of the epoch recorded up to the vote's own reference height.
_quota(c) ==
    \A w \in Reviewers(c) :
        LET h == VoteHeight[c][w]
            used == {r.submission : r \in {x \in participation :
                        x.wallet = w /\ x.epoch = Epoch[h] /\ x.height <= h}}
        IN  Submission[c] \in used \/ Cardinality(used) < EpochLimit

Reservations(c) ==
    {[wallet |-> w, submission |-> Submission[c], epoch |-> Epoch[VoteHeight[c][w]],
      height |-> VoteHeight[c][w]] : w \in Reviewers(c)}

\* BlockConstructionBridge: the header extends the ledger's parent and every
\* native transaction is the sender's next one.
construct(s, v) ==
    LET txs == VariantNonces[v]
    IN  \A i \in DOMAIN txs : txs[i] = NextNonce(s) + i - 1

-----------------------------------------------------------------------------
(* Selection and finality *)

LineageFrom[b \in Blocks \cup {Anchor, NoTip} \cup SourceHashes] ==
    IF b \in {Anchor, NoTip} THEN <<>>
    ELSE IF b \notin Blocks THEN <<NoTip>>
    ELSE Append(LineageFrom[b.parent], b)

_lineage(b) == LineageFrom[b]
\* Every ancestor down to the anchor is a stored candidate.
Descends(b) == NoTip \notin Range(_lineage(b))
_selected == _lineage(tip)

_selection_claims(path) ==
    UNION {{<<"original", Original[path[i].cert], path[i]>>,
            <<"submission", Submission[path[i].cert], path[i]>>,
            <<"certificate", path[i].cert, path[i]>>}
           \cup {<<"transaction", n, path[i]>> : n \in Range(VariantNonces[path[i].variant])}
           : i \in DOMAIN path}
SingleClaims(path) ==
    \A x, y \in _selection_claims(path) : <<x[1], x[2]>> = <<y[1], y[2]>> => x = y

\* Position in a snapshot's chain of the i-th block after the anchor.
Position(i) == i + 1
Boundary == {i \in DOMAIN _selected : \E j \in DOMAIN _selected :
                j >= i /\ _selected[j] \in finality}
AgreesWithFinality(s) ==
    \A i \in Boundary : Position(i) \in DOMAIN s.chain => s.chain[Position(i)] = _selected[i]

-----------------------------------------------------------------------------
(* The application's own steps, outside the store *)

History(chain, final, reviews) ==
    [chain |-> chain, final |-> final, reviews |-> reviews, revision |-> source.revision + 1]

AdvanceSource ==
    /\ source.revision < MaxRevision
    /\ \/ \E h \in SourceHashes :
             /\ h \notin Range(source.chain)
             /\ source' = History(Append(source.chain, h), source.final, source.reviews)
       \/ \E b \in Blocks :
             /\ b.parent = Last(source.chain)
             /\ source' = History(Append(source.chain, b), source.final, source.reviews)
       \/ /\ Len(source.chain) > source.final
          /\ \/ source' = History(source.chain, source.final + 1, source.reviews)
             \/ source' = History(Front(source.chain), source.final, source.reviews)
       \/ \E c \in source.reviews :
             source' = History(source.chain, source.final, source.reviews \ {c})
    /\ UNCHANGED <<db, prepared, call, answer>>

-----------------------------------------------------------------------------
(* What a caller reads before its transaction *)

\* AdmissionAdapter.prepare: one prepared admission per original and process.
prepare(p, c) ==
    /\ Original[c] \notin {Original[d] : d \in prepared[p]}
    /\ prepared' = [prepared EXCEPT ![p] = @ \cup {c}]
    /\ UNCHANGED <<source, db, call, answer>>

\* A fresh header extends the current head; a retry repeats its own header.
\* The optional plan is what AuthenticatedHistoryAdapter.issue returned: it
\* binds the revision of the application's history that it was issued from.
BeginCertify(p, c, op, v) ==
    /\ call[p] = Idle
    /\ c \in prepared[p]
    /\ \E plan \in {current.revision, source.revision},
          parent \in {Last(current.chain)} \cup {b.parent : b \in Owned(op)} :
          call' = [call EXCEPT ![p] = [kind |-> "certify", cert |-> c, op |-> op,
                       variant |-> v, parent |-> parent,
                       expected |-> current, plan |-> plan]]
    /\ UNCHANGED <<source, db, prepared, answer>>

BeginSelect(p, b) ==
    /\ call[p] = Idle
    /\ b # tip
    /\ call' = [call EXCEPT ![p] = [kind |-> "select", tip |-> b, expected |-> tip]]
    /\ UNCHANGED <<source, db, prepared, answer>>

\* TrustedSnapshot.capture, then current_snapshot.
BeginInstall(p) ==
    /\ call[p] = Idle
    /\ source # current
    /\ call' = [call EXCEPT ![p] = [kind |-> "install", snapshot |-> source,
                                     expected |-> current]]
    /\ UNCHANGED <<source, db, prepared, answer>>

-----------------------------------------------------------------------------
(* certify *)

Answer(p, kind) == [kind |-> kind, op |-> call[p].op,
                    block |-> Block(call[p].cert, call[p].variant, call[p].parent)]
Return(p, kind) ==
    /\ answer' = [answer EXCEPT ![p] = Answer(p, kind)]
    /\ call' = [call EXCEPT ![p] = Idle]
    /\ UNCHANGED <<source, db, prepared>>

\* The checks of certify in their order: the snapshot and its accepted selection,
StaleAuthority(a) == a.expected # current \/ a.cert \notin current.reviews

\* an original or submission that the application has already minted,
PreviouslyMinted(a) ==
    \E d \in MintedIn(current) : \/ Original[d] = Original[a.cert]
                                 \/ Submission[d] = Submission[a.cert]

\* a proposal of another revision or a header that does not extend the head,
StaleProposal(a) == a.plan # current.revision \/ a.parent # Last(current.chain)

Existing(op) == {x \in certifications : x.op = op}

\* the operation's identity, the permanent claims, the quota, the block's owner.
Conflict(a) ==
    \/ \E x \in Existing(a.op) : x.cert # a.cert
    \/ Existing(a.op) = {} /\ \E r \in claims : r[1] \in replay_keys(a.cert)
    \/ ~_quota(a.cert)
    \/ \E r \in owner : r[1] = Block(a.cert, a.variant, a.parent) /\ r[2] # a.op

Ready(a) == ~StaleAuthority(a) /\ ~PreviouslyMinted(a) /\ ~StaleProposal(a)

Refuse(p) ==
    LET a == call[p]
    IN  /\ a.kind = "certify"
        /\ \/ StaleAuthority(a) /\ Return(p, "incomplete")
           \/ ~StaleAuthority(a) /\ PreviouslyMinted(a) /\ Return(p, "conflict")
           \/ /\ ~StaleAuthority(a) /\ ~PreviouslyMinted(a)
              /\ StaleProposal(a)
              /\ Return(p, "incomplete")
           \/ Ready(a) /\ ~construct(current, a.variant) /\ Return(p, "invalid")
           \/ /\ Ready(a) /\ construct(current, a.variant)
              /\ Conflict(a)
              /\ Return(p, "conflict")

\* Certificate, claims, reservations, block and ownership commit together.
Commit(a) ==
    LET new == Existing(a.op) = {}
    IN  /\ certifications' = IF new
              THEN certifications \cup {[op |-> a.op, cert |-> a.cert, snapshot |-> current]}
              ELSE certifications
        /\ claims' = IF new THEN claims \cup (replay_keys(a.cert) \X {a.op}) ELSE claims
        /\ participation' = IF new THEN participation \cup Reservations(a.cert)
                                   ELSE participation
        /\ owner' = owner \cup {<<Block(a.cert, a.variant, a.parent), a.op>>}
        /\ UNCHANGED <<snapshots, current, tip, selectedClaims, finality>>

certify(p) ==
    /\ call[p].kind = "certify"
    /\ Ready(call[p])
    /\ construct(current, call[p].variant)
    /\ ~Conflict(call[p])
    /\ Commit(call[p])
    /\ call' = [call EXCEPT ![p] = Idle]
    /\ \/ /\ answer' = [answer EXCEPT ![p] = Answer(p, "persisted")]
          /\ UNCHANGED prepared
       \/ \* the process dies after the commit, before the acknowledgement
          /\ prepared' = [prepared EXCEPT ![p] = {}]
          /\ answer' = [answer EXCEPT ![p] = Silent]
    /\ UNCHANGED source

\* A process dies anywhere else: SQLite rolls its transaction back.
Crash(p) ==
    /\ call[p] # Idle \/ prepared[p] # {}
    /\ call' = [call EXCEPT ![p] = Idle]
    /\ prepared' = [prepared EXCEPT ![p] = {}]
    /\ answer' = [answer EXCEPT ![p] = Silent]
    /\ UNCHANGED <<source, db>>

-----------------------------------------------------------------------------
(* The other transactions *)

select_chain(p) ==
    /\ call[p].kind = "select"
    /\ \/ /\ call[p].expected = tip
          /\ Descends(call[p].tip)
          /\ finality \subseteq Range(_lineage(call[p].tip))
          /\ SingleClaims(_lineage(call[p].tip))
          /\ tip' = call[p].tip
          /\ selectedClaims' = _selection_claims(_lineage(call[p].tip))
       \/ /\ \/ call[p].expected # tip
             \/ ~Descends(call[p].tip)
             \/ ~(finality \subseteq Range(_lineage(call[p].tip)))
             \/ Descends(call[p].tip) /\ ~SingleClaims(_lineage(call[p].tip))
          /\ UNCHANGED <<tip, selectedClaims>>
    /\ call' = [call EXCEPT ![p] = Idle]
    /\ UNCHANGED <<source, snapshots, current, certifications, claims, participation,
                   owner, finality, prepared, answer>>

\* The proof is authenticated by the caller; the target has to be selected.
finalize(b) ==
    /\ b \in Range(_selected) \ finality
    /\ finality' = finality \cup {b}
    /\ UNCHANGED <<source, snapshots, current, certifications, claims, participation,
                   owner, tip, selectedClaims, prepared, call, answer>>

KeepsSourceFinality(s) ==
    /\ s.final >= current.final
    /\ SubSeq(s.chain, 1, current.final) = SubSeq(current.chain, 1, current.final)

install_snapshot(p) ==
    /\ call[p].kind = "install"
    /\ IF /\ call[p].expected = current
          /\ KeepsSourceFinality(call[p].snapshot)
          /\ AgreesWithFinality(call[p].snapshot)
       THEN /\ current' = call[p].snapshot
            /\ snapshots' = snapshots \cup {call[p].snapshot}
       ELSE UNCHANGED <<current, snapshots>>
    /\ call' = [call EXCEPT ![p] = Idle]
    /\ UNCHANGED <<source, certifications, claims, participation, owner, tip,
                   selectedClaims, finality, prepared, answer>>

\* The full scan that recovery and backup run over the tables: the rows of what
\* was issued, and those of what was selected.
IssuanceFits ==
    /\ \A x \in certifications :
          /\ x.cert \in x.snapshot.reviews
          /\ Owned(x.op) # {}
          /\ {r[1] : r \in {k \in claims : k[2] = x.op}} = replay_keys(x.cert)
    /\ participation = UNION {Reservations(x.cert) : x \in certifications}
    /\ \A r \in owner : \E x \in Existing(r[2]) : x.cert = r[1].cert

SelectionFits ==
    /\ Descends(tip)
    /\ finality \subseteq Range(_selected)
    /\ selectedClaims = _selection_claims(_selected)

_certification_integrity == IssuanceFits /\ SelectionFits

-----------------------------------------------------------------------------
Init ==
    /\ source = Genesis
    /\ current = Genesis
    /\ snapshots = {Genesis}
    /\ certifications = {} /\ claims = {} /\ participation = {} /\ owner = {}
    /\ tip = NoTip /\ selectedClaims = {} /\ finality = {}
    /\ prepared = [p \in Stores |-> {}]
    /\ call = [p \in Stores |-> Idle]
    /\ answer = [p \in Stores |-> Silent]

Next ==
    \/ AdvanceSource
    \/ \E b \in Blocks : finalize(b)
    \/ \E p \in Stores :
          \/ \E c \in Certs : \/ prepare(p, c)
                              \/ \E op \in Ops, v \in Variants : BeginCertify(p, c, op, v)
          \/ \E b \in Blocks \cup {NoTip} : BeginSelect(p, b)
          \/ BeginInstall(p)
          \/ Refuse(p) \/ certify(p) \/ Crash(p)
          \/ select_chain(p) \/ install_snapshot(p)

Spec == Init /\ [][Next]_vars

-----------------------------------------------------------------------------
(* Properties *)

BlockShaped(b) == b.cert \in Certs /\ b.variant \in Variants

\* Every row refers to rows that exist: a certification to its retained snapshot,
\* a candidate and a selected block to a certified operation.
TypeOK ==
    /\ current \in snapshots
    /\ \A x \in certifications : x.op \in Ops /\ x.cert \in Certs /\ x.snapshot \in snapshots
    /\ \A r \in owner : BlockShaped(r[1]) /\ r[2] \in {x.op : x \in certifications}
    /\ tip \in Blocks \cup {NoTip}
    /\ finality \subseteq Blocks
    /\ \A p \in Stores : prepared[p] \subseteq Certs

\* _certification_integrity passes on whatever the interleaved transactions and
\* process deaths left: every certification has its candidate, exactly its claims
\* and exactly its reservations in a snapshot that accepted it, every candidate
\* belongs to the operation that issued its certificate, and the selected path,
\* its claims and the retained proofs fit together.
Recoverable == _certification_integrity

\* A reviewer's reserved votes of one epoch never exceed the limit, although
\* certifications of several submissions race for the last one.
EpochQuota ==
    \A r \in participation :
        Cardinality({x.submission : x \in {y \in participation :
            y.wallet = r.wallet /\ y.epoch = r.epoch}}) <= EpochLimit

\* A retry of an operation that has committed its candidate (its acknowledgement
\* was lost, or another process repeated it) is never told that the evidence is
\* in conflict: the retry discovers the retained candidate.
RetryIsNoConflict ==
    \A p \in Stores :
        answer[p].kind = "conflict" => <<answer[p].block, answer[p].op>> \notin owner

\* A block below a retained finality proof stays selected, whatever tip a caller
\* with an old view selects afterwards; so do its ancestors.
KeepsFinalizedSelected ==
    \A i \in Boundary : i \in DOMAIN _selected' /\ _selected'[i] = _selected[i]
FinalizedStaysSelected == [][KeepsFinalizedSelected]_vars

\* The installed history of the application and the store's own finalized blocks
\* describe one chain.
\* The code does not keep this: README, section 5.
SourceAgreesWithFinality == AgreesWithFinality(current)
=============================================================================
