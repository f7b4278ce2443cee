--------------------------- MODULE BranchEvidence ---------------------------
(* Originality evidence and certificates of one node while competing        *)
(* branches of the chain come and go: local screening and certification,    *)
(* chain synchronisation (peer_sync.py, peer_chain_sync_service.py),         *)
(* blocks and certificates pushed by peers, adoption of a better branch      *)
(* (canonical_reorg_service.py, adopt_canonical_chain), the whole-state save *)
(* with its storage check, and restarts.                                     *)
(*                                                                           *)
(* The blocks that anybody may produce form a constant tree.  A certificate  *)
(* binds a submission, the block its evidence was evaluated at, the block it *)
(* was issued at and its issuer; blocks are known by hash, so a certificate  *)
(* belongs to the branches through both blocks.                              *)
(* The evidence of a submission evaluated at a block is a function of the    *)
(* two, so the block stands for the evidence and its digest.                 *)
EXTENDS Naturals, FiniteSets, SequencesExt

CONSTANTS Blocks, Genesis, Parent, \* the tree of blocks
          Rank,                    \* fork choice order of the chains that end in a block
          Subs, Media,             \* submissions and the media each carries
          Certs, Pays,             \* certificates, and the one a block mints
          SubmitAt,                \* tips at which this node receives submissions
          PeerMoves,               \* may a peer change branch between two answers?
          None

VARIABLES mem,   \* the Blockchain object
          disk,  \* the stored document
          last   \* what the last chain synchronisation was offered and did

vars == <<mem, disk, last>>

Anc[b \in Blocks] == IF b = Genesis THEN {b} ELSE {b} \cup Anc[Parent[b]]

CertPath[b \in Blocks] ==
  IF b = Genesis THEN <<>>
  ELSE CertPath[Parent[b]] \o (IF Pays[b] = None THEN <<>> ELSE <<Pays[b]>>)

MintedOn(b) == {c.sub : c \in ToSet(CertPath[b])}

Bound(c) == {c.ev, c.ref}

(* The exact-duplicate layer: the bytes were minted on the reference chain.  *)
Duplicate(s, b) == \E u \in MintedOn(b) : Media[u] = Media[s]

Active(m, s) == {c \in Certs : c.sub = s /\ m.cert[c] = "active"}

(* revalidate_certificate_originality_evidence on the blocks of path: the    *)
(* evidence is recomputed on the chain up to its reference block.            *)
Revalidated(c, path) == c.ev \in path

(* validate_certificate_for_submission for an evidence-bound certificate.    *)
CertValid(m, c, path, statuses) ==
  /\ m.status[c.sub] \in statuses
  /\ m.cert[c] = "active"
  /\ m.ev[c.sub] = c.ev
  /\ Revalidated(c, path) /\ ~Duplicate(c.sub, c.ev)
  /\ c.ref \in path

Certified == {"approved", "queued", "minted"}

(* is_chain_valid: the certificate of every block, against local records.    *)
BlockValid(m, x) == Pays[x] # None => CertValid(m, Pays[x], Anc[Parent[x]], Certified)

ChainValid(m, b) == \A x \in Anc[b] \ {Genesis} : BlockValid(m, x)

(* The claims check every whole-document write goes through.  Certificates   *)
(* are of version 2; those of version 3, which also need finalized blocks,   *)
(* are left out, as is the finality of this chain.                           *)
Savable(m) ==
  /\ \A s \in Subs : m.ev[s] # None => m.ev[s] \in Anc[m.tip]
  /\ \A c \in Certs : m.cert[c] = "active" =>
       m.ev[c.sub] = c.ev /\ Bound(c) \subseteq Anc[m.tip]

save_blockchain(m) == /\ mem' = m
                      /\ disk' = IF Savable(m) THEN m ELSE disk
                      /\ last' = None

-----------------------------------------------------------------------------
(* Local screening and certification.                                        *)

Empty == [tip |-> Genesis,
          status |-> [s \in Subs |-> "absent"],
          ev |-> [s \in Subs |-> None],
          cert |-> [c \in Certs |-> "absent"],
          queue |-> {}]

Init == mem = Empty /\ disk = Empty /\ last = None

(* evaluate_prevote_originality, past its early return.                      *)
Evaluated(m, s) ==
  LET fresh == [m EXCEPT !.ev[s] = m.tip]
  IN IF Duplicate(s, m.tip)
     THEN [fresh EXCEPT !.status[s] = "hard_rejected", !.queue = @ \ {s}]
     ELSE IF m.status[s] = "hard_rejected" THEN [fresh EXCEPT !.status[s] = "pending"]
     ELSE fresh

Current(m, s) == m.ev[s] # None /\ m.ev[s] \in Anc[m.tip]

evaluate_prevote_originality(m, s) == IF Current(m, s) THEN m ELSE Evaluated(m, s)

Submit(s) ==
  /\ mem.status[s] = "absent" /\ mem.tip \in SubmitAt
  /\ save_blockchain(Evaluated([mem EXCEPT !.status[s] = "pending"], s))

(* A vote on a submission re-evaluates evidence whose block was left.        *)
Vote(s) ==
  /\ mem.status[s] = "pending" /\ ~Current(mem, s)
  /\ save_blockchain(evaluate_prevote_originality(mem, s))

(* The certificate the submission has, or a new one issued at the tip.       *)
create_originality_certificate(m, s) ==
  IF Active(m, s) # {} THEN Active(m, s)
  ELSE {c \in Certs : c.sub = s /\ c.ev = m.ev[s] /\ c.ref = m.tip /\ c.by = "here"}

(* evaluate_submission with a passing tally, then add_to_mint_queue.         *)
Certify(s) ==
  /\ mem.status[s] = "pending"
  /\ LET m == evaluate_prevote_originality(mem, s)
     IN /\ m.status[s] = "pending"
        /\ \E c \in create_originality_certificate(m, s) :
             LET n == [m EXCEPT !.cert[c] = "active", !.status[s] = "queued",
                                !.queue = @ \cup {s}]
             IN /\ CertValid(n, c, Anc[m.tip], Certified)
                /\ Savable(n)
                /\ save_blockchain(n)

(* commit_next_certified_submission: the atomic commit of a local block,     *)
(* which rereads the stored document.                                        *)
Appended(m, b) == [m EXCEPT !.tip = b,
                            !.status[Pays[b].sub] = "minted",
                            !.queue = @ \ {Pays[b].sub}]

Mint(b) ==
  /\ Pays[b] # None /\ Parent[b] = disk.tip
  /\ Pays[b].sub \in disk.queue
  /\ Pays[b] \in Active(disk, Pays[b].sub)
  /\ ChainValid(disk, b)
  /\ mem' = Appended(disk, b) /\ disk' = Appended(disk, b) /\ last' = None

-----------------------------------------------------------------------------
(* What peers send.  r.ok becomes FALSE where the code raises; the changes   *)
(* made before that stay in memory.                                          *)

Transferred(m, c) == [m EXCEPT !.ev[c.sub] = c.ev,
                               !.status[c.sub] = IF @ = "absent" THEN "pending" ELSE @]

receive_peer_originality_evidence(r, c) ==
  IF /\ r.ok
     /\ Revalidated(c, r.path)
     /\ \A d \in Active(r.m, c.sub) : d.ev = r.m.ev[c.sub] => d.ev = c.ev
  THEN [r EXCEPT !.m = Transferred(@, c)]
  ELSE [r EXCEPT !.ok = FALSE]

store_peer_certificate(r, c) ==
  LET approved == [r.m EXCEPT !.cert[c] = "active",
                              !.status[c.sub] = IF @ = "pending" THEN "approved" ELSE @]
  IN IF ~r.ok \/ r.m.cert[c] = "invalid" THEN [r EXCEPT !.ok = FALSE]
     ELSE IF r.m.cert[c] = "active" THEN r
     ELSE IF r.m.status[c.sub] \in {"pending"} \cup Certified
             /\ CertValid(approved, c, r.path, Certified)
          THEN [r EXCEPT !.m = approved]
     ELSE [r EXCEPT !.ok = FALSE]

(* store_evidence, then store_certificates, against the candidate's blocks.  *)
Ingested(m, b) ==
  LET start == [m |-> m, ok |-> TRUE, path |-> Anc[b]]
  IN FoldLeft(store_peer_certificate,
              FoldLeft(receive_peer_originality_evidence, start, CertPath[b]),
              CertPath[b])

-----------------------------------------------------------------------------
(* Adoption of a better branch.                                              *)

_merge_local_noncanonical_reorg_state(d, m) ==
  [m EXCEPT !.tip = d.tip, !.queue = d.queue \cup m.queue,
            !.ev = [s \in Subs |-> IF m.ev[s] # None THEN m.ev[s] ELSE d.ev[s]]]

_reconcile_submissions(d, b) ==
  LET certified == {c.sub : c \in {x \in Certs : d.cert[x] # "absent"}}
  IN [d EXCEPT
       !.tip = b,
       !.status = [s \in Subs |->
          IF s \in MintedOn(b) /\ d.status[s] # "absent" THEN "minted"
          ELSE IF d.status[s] = "minted" /\ s \in certified
               THEN IF s \in d.queue THEN "queued" ELSE "approved"
          ELSE d.status[s]],
       !.queue = @ \ MintedOn(b)]

\* Mutant: only the evidence block of a certificate is looked at.
DetachedByEvidence(d) == {c \in Certs : d.cert[c] # "absent" /\ c.ev \notin Anc[d.tip]}

Detached(d) == {c \in Certs : d.cert[c] # "absent" /\ ~(Bound(c) \subseteq Anc[d.tip])}

\* Mutant: an invalidated certificate leaves its submission approved.
InvalidateKeepsStatus(d) ==
  LET released == {c.sub : c \in Detached(d)}
  IN [d EXCEPT
       !.ev = [s \in Subs |-> IF d.ev[s] \in Anc[d.tip] THEN d.ev[s] ELSE None],
       !.cert = [c \in Certs |-> IF c \in Detached(d) THEN "invalid" ELSE d.cert[c]],
       !.queue = @ \ released]

_invalidate_stale_originality_evidence(d) ==
  LET released == {c.sub : c \in Detached(d)}
  IN [d EXCEPT
       !.ev = [s \in Subs |-> IF d.ev[s] \in Anc[d.tip] THEN d.ev[s] ELSE None],
       !.cert = [c \in Certs |-> IF c \in Detached(d) THEN "invalid" ELSE d.cert[c]],
       !.status = [s \in Subs |-> IF s \in released /\ d.status[s] \in {"approved", "queued"}
                                  THEN "pending" ELSE d.status[s]],
       !.queue = @ \ released]

(* The submissions whose evidence the adoption dropped are evaluated again.  *)
Reevaluated(m, before) ==
  LET stale == {s \in Subs : m.status[s] \notin {"absent", "minted"}
                             /\ (m.ev[s] # before.ev[s]
                                 \/ \E c \in Certs : c.sub = s /\ m.cert[c] = "invalid")}
  IN FoldLeft(evaluate_prevote_originality, m, SetToSeq(stale))

adopt_canonical_chain(m, b) ==
  LET d == _merge_local_noncanonical_reorg_state(disk, m)
      n == _invalidate_stale_originality_evidence(_reconcile_submissions(d, b))
  IN \/ /\ Savable(n)
        /\ mem' = Reevaluated(n, d)
        /\ disk' = IF Savable(mem') THEN mem' ELSE n
     \/ Savable(n) /\ mem' = n /\ disk' = n      \* the process dies after the commit
     \/ ~Savable(n) /\ mem' = m /\ UNCHANGED disk

(* _validate_candidate_chain: the blocks end where the summary said, and the *)
(* whole candidate is valid against the local records.                       *)
CandidateValid(m, u, t) == u = t /\ ChainValid(m, u)

(* sync_peer: the peer announced the chain t and serves the chain u.         *)
SyncPeer(t, u) ==
  /\ Rank[t] > Rank[mem.tip]
  /\ u = t \/ PeerMoves
  /\ LET r == Ingested(mem, u)
         valid == r.ok /\ CandidateValid(r.m, u, t)
     IN /\ last' = [offered |-> t, served |-> u, refused |-> ~valid]
        /\ IF valid THEN adopt_canonical_chain(r.m, u)
                     ELSE mem' = r.m /\ UNCHANGED disk

(* receive_peer_certificate with its evidence.                               *)
ReceiveCertificate(c) ==
  LET start == [m |-> mem, ok |-> TRUE, path |-> Anc[mem.tip]]
      r == store_peer_certificate(receive_peer_originality_evidence(start, c), c)
  IN /\ mem.status[c.sub] # "absent" /\ c.by = "peer"
     /\ \/ r.ok /\ save_blockchain(r.m)
        \/ ~r.ok /\ mem' = r.m /\ last' = None /\ UNCHANGED disk

(* receive_peer_block: the certificate is stored before the tip is compared. *)
ReceiveBlock(b) ==
  LET start == [m |-> mem, ok |-> TRUE, path |-> Anc[mem.tip]]
      r == IF Pays[b] = None THEN start ELSE store_peer_certificate(start, Pays[b])
  IN /\ b \notin Anc[mem.tip]
     /\ IF r.ok /\ Parent[b] = mem.tip /\ ChainValid(r.m, b)
        THEN save_blockchain(IF Pays[b] = None THEN [r.m EXCEPT !.tip = b]
                             ELSE Appended(r.m, b))
        ELSE mem' = r.m /\ last' = None /\ UNCHANGED disk

(* reconcile_submission_canonical_state when the document is loaded.         *)
Restart ==
  /\ mem # disk
  /\ mem' = [disk EXCEPT
       !.status = [s \in Subs |->
          IF s \in MintedOn(disk.tip) /\ disk.status[s] # "absent" THEN "minted"
          ELSE IF disk.status[s] = "minted" /\ Active(disk, s) # {}
               THEN IF s \in disk.queue THEN "queued" ELSE "approved"
          ELSE disk.status[s]],
       !.queue = @ \ MintedOn(disk.tip)]
  /\ last' = None
  /\ UNCHANGED disk

Next == \/ \E s \in Subs : Submit(s) \/ Vote(s) \/ Certify(s)
        \/ \E b \in Blocks \ {Genesis} : Mint(b) \/ ReceiveBlock(b)
        \/ \E t, u \in Blocks \ {Genesis} : SyncPeer(t, u)
        \/ \E c \in Certs : ReceiveCertificate(c)
        \/ Restart

Spec == Init /\ [][Next]_vars

-----------------------------------------------------------------------------
(* Properties.                                                               *)

Statuses == {"absent", "pending", "hard_rejected", "approved", "queued", "minted"}

NodeStates == [tip : Blocks, status : [Subs -> Statuses],
               ev : [Subs -> Blocks \cup {None}],
               cert : [Certs -> {"absent", "active", "invalid"}],
               queue : SUBSET Subs]

\* The memory and the document of the node are made of the known blocks,
\* submissions and certificates.
TypeOK == /\ mem \in NodeStates /\ disk \in NodeStates
          /\ last \in {None} \cup [offered : Blocks, served : Blocks, refused : BOOLEAN]

\* Across local blocks, blocks of peers, adopted branches and restarts, a
\* submission is minted exactly when the node's own chain mints it.
MintedOnChain ==
  \A s \in Subs : mem.status[s] = "minted"
                 <=> s \in MintedOn(mem.tip) /\ mem.status[s] # "absent"

\* A submission that is approved or queued has an active certificate whose
\* evidence the node holds and whose blocks are on its chain: after an
\* adoption nothing stays ready on the strength of a branch that was left.
ReadyIsCertified ==
  \A s \in Subs : mem.status[s] \in {"approved", "queued"} =>
    \E c \in Active(mem, s) : mem.ev[s] = c.ev /\ Bound(c) \subseteq Anc[mem.tip]

\* The mint queue holds the queued submissions and no other, so that no block
\* is produced for a submission another branch has minted or that lost its
\* certificate.
QueueMatchesStatus == mem.queue = {s \in Subs : mem.status[s] = "queued"}

\* The store refuses what a node holds only after a synchronisation whose
\* candidate was refused, and whose evidence stays in memory: no adoption of a
\* better branch, no certification, no certificate or block of a peer and no
\* restart leaves a memory that later saves are refused for.
SavesStayPossible ==
  Savable(mem) /\ ~Savable(mem') => last' # None /\ last'.refused
OnlyRefusedSyncBlocksSaves == [][SavesStayPossible]_vars

\* A chain synchronisation that does not adopt the peer's chain leaves the
\* node as it was (tests/api/test_chain_sync_api.py, "without mutating local
\* state").
\* The code does not keep this: README, section 5.
RefusedSyncChangesNothing ==
  [][last' # None /\ mem'.tip # last'.offered => mem' = mem /\ disk' = disk]_vars

\* Fork choice (docs/protocol-v1.md, section 15): a peer that serves the
\* better chain it announced has it adopted.
\* The code does not keep this: README, section 5.
BetterChainAdopted ==
  [][last' # None /\ last'.served = last'.offered => mem'.tip = last'.offered]_vars
=============================================================================
