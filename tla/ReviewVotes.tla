---------------------------- MODULE ReviewVotes ----------------------------
(***************************************************************************)
(* Signed review votes, the reviewers' standing and their penalties.       *)
(*                                                                         *)
(* A vote is written three times: into the memory of the facade that       *)
(* accepts it, as a row of the durable vote table (the only place where    *)
(* the epoch quota and the one-vote rule are atomic), and into the stored  *)
(* document by a whole-state save.  An offense is written as a record, a   *)
(* penalty and a change of standing.  Each of these writes is a step of    *)
(* its own here; other facades and crashes come in between.                *)
(*                                                                         *)
(* A reviewer's standing is a function of finalized height, accepted votes *)
(* and penalties.  What a wallet did on the chain is abstracted to the     *)
(* height QualifiedAt at which it earns probation; signatures are valid.   *)
(***************************************************************************)
EXTENDS Integers, Sequences, SequencesExt, FiniteSets, FiniteSetsExt

CONSTANTS
    Facades, Wallets, Submissions,
    Creator,            \* the wallet of each submission
    Dimensions, VoteChoices, Nonces,
    Signed,             \* the votes the wallets sign
    Bootstrap,          \* wallets established by the policy itself
    QualifiedAt,        \* finalized height at which a wallet earns probation
    REVIEW_EPOCH_BLOCKS, PROBATION_MIN_DURATION_EPOCHS,
    PROBATION_MIN_VALID_VOTES_FOR_PROMOTION,
    PROBATION_MAX_VOTES_PER_EPOCH, ESTABLISHED_MAX_VOTES_PER_EPOCH,
    RATE_LIMIT_EXCESS_THRESHOLD,
    COOLDOWN_EPOCHS,    \* offense type -> lengths of its first cooldowns
    SUSPENSION_EPOCHS,
    MIN_VALID_VOTES, MIN_ESTABLISHED_VOTES, APPROVAL_THRESHOLD_BPS,
    Failures,           \* failures that happen: "crash", "busy"
    MaxHeight,          \* bound: finalized height
    MaxFailures         \* bound: failures

ESCALATING_OFFENSE_TYPES ==
    {"SIGNED_VOTE_EQUIVOCATION", "CREATOR_SELF_VOTE", "RATE_LIMIT_ABUSE"}

PolicyAssumption ==
    /\ Creator \in [Submissions -> Wallets] /\ Bootstrap \subseteq Wallets
    /\ QualifiedAt \in [Wallets -> Nat] /\ Nonces \subseteq Nat
    /\ Signed \subseteq [voter : Wallets, sub : Submissions, dim : Dimensions,
                         choice : VoteChoices, nonce : Nonces]
    /\ REVIEW_EPOCH_BLOCKS \in Nat \ {0}
    /\ PROBATION_MAX_VOTES_PER_EPOCH \in Nat \ {0}
    /\ ESTABLISHED_MAX_VOTES_PER_EPOCH \in Nat \ {0}
    /\ PROBATION_MAX_VOTES_PER_EPOCH <= ESTABLISHED_MAX_VOTES_PER_EPOCH
    /\ PROBATION_MIN_VALID_VOTES_FOR_PROMOTION \in Nat
    /\ COOLDOWN_EPOCHS \in [ESCALATING_OFFENSE_TYPES -> Seq(Nat \ {0})]
    /\ SUSPENSION_EPOCHS \in Nat \ {0}
    /\ MIN_VALID_VOTES \in Nat /\ MIN_ESTABLISHED_VOTES \in Nat
    /\ MaxHeight \in Nat /\ MaxFailures \in Nat

VARIABLES
    height,     \* finalized height
    accepted,   \* durable vote rows in state accepted, in order of arrival
    rejected,   \* votes of rows in state rejected
    document,   \* ballots of the stored document
    mem,        \* ballots in each facade's memory
    reviewer,   \* reviewer_states with the latest standing without penalty
    offenses, penalties, excess,
    call,       \* what each facade still has to write for its request
    failures    \* how many there were

vars == <<height, accepted, rejected, document, mem, reviewer, offenses,
          penalties, excess, call, failures>>

-----------------------------------------------------------------------------
(* Records *)

PENALTY == {"COOLDOWN", "SUSPENDED"}
REVIEWING == {"PROBATIONARY_REVIEWER", "ESTABLISHED_REVIEWER"}
REVIEWER_STATUSES == {"NEW"} \cup REVIEWING \cup PENALTY

Vote == [voter : Wallets, sub : Submissions, dim : Dimensions,
         choice : VoteChoices, nonce : Nonces]

\* A vote with the standing its voter had at the finalized reference.
Ballot == [vote : Vote, height : Nat, status : REVIEWER_STATUSES]

Rows == {accepted[i] : i \in DOMAIN accepted}

\* No standing with a finalized reference is recorded yet.
Undated == -1

review_epoch(h) == h \div REVIEW_EPOCH_BLOCKS

SameSlot(v, u) == v.voter = u.voter /\ v.sub = u.sub /\ v.dim = u.dim

-----------------------------------------------------------------------------
(* Standing *)

active_penalties(w, epoch) ==
    {p \in penalties : p.wallet = w /\ p.start <= epoch /\ epoch < p.end}

effective_status(w, epoch) ==
    IF \E p \in active_penalties(w, epoch) : p.status = "SUSPENDED"
    THEN "SUSPENDED" ELSE "COOLDOWN"

\* The penalties of the effective status that end last.
effective_penalty(w, epoch) ==
    LET strong == {p \in active_penalties(w, epoch) :
                      p.status = effective_status(w, epoch)}
    IN {p \in strong : \A q \in strong : q.end <= p.end}

\* The first accepted vote of w on each submission.
_accepted_votes(w) ==
    {accepted[i] : i \in {j \in DOMAIN accepted :
        /\ accepted[j].vote.voter = w
        /\ \A k \in 1 .. j - 1 : accepted[k].vote.voter = w
              => accepted[k].vote.sub # accepted[j].vote.sub}}

ProbationVotes(w, low, high) ==
    Cardinality({b \in _accepted_votes(w) :
        /\ b.status = "PROBATIONARY_REVIEWER"
        /\ low <= b.height /\ b.height <= high})

\* The stored standing of w brought up to date at finalized height h.
reconcile(w, h) ==
    LET r == reviewer[w]
        epoch == review_epoch(h)
        penal == active_penalties(w, epoch) # {}
        hidden == r.status \in PENALTY /\ penal /\ r.at = Undated
        restored == IF r.status \in PENALTY /\ ~penal THEN [r EXCEPT !.at = h] ELSE r
        earned == IF hidden \/ restored.base # "NEW" THEN restored
                  ELSE IF w \in Bootstrap
                  THEN [restored EXCEPT !.base = "ESTABLISHED_REVIEWER", !.at = h]
                  ELSE IF h >= QualifiedAt[w]
                  THEN [restored EXCEPT !.base = "PROBATIONARY_REVIEWER", !.at = h]
                  ELSE restored
        final == IF /\ ~hidden /\ earned.base = "PROBATIONARY_REVIEWER"
                    /\ epoch - review_epoch(earned.at) >= PROBATION_MIN_DURATION_EPOCHS
                    /\ ProbationVotes(w, earned.at, MaxHeight)
                          >= PROBATION_MIN_VALID_VOTES_FOR_PROMOTION
                 THEN [earned EXCEPT !.base = "ESTABLISHED_REVIEWER", !.at = h]
                 ELSE earned
    IN [final EXCEPT !.status = IF penal THEN effective_status(w, epoch) ELSE final.base]

\* The standing of w reconstructed at an earlier finalized height.
status_at_reference(w, h) ==
    LET underlying ==
            IF w \in Bootstrap THEN "ESTABLISHED_REVIEWER"
            ELSE IF h < QualifiedAt[w] THEN "NEW"
            ELSE IF /\ review_epoch(h) - review_epoch(QualifiedAt[w])
                          >= PROBATION_MIN_DURATION_EPOCHS
                    /\ ProbationVotes(w, QualifiedAt[w], h)
                          >= PROBATION_MIN_VALID_VOTES_FOR_PROMOTION
                 THEN "ESTABLISHED_REVIEWER" ELSE "PROBATIONARY_REVIEWER"
    IN IF active_penalties(w, review_epoch(h)) # {}
       THEN effective_status(w, review_epoch(h)) ELSE underlying

EpochLimit(status) ==
    CASE status = "PROBATIONARY_REVIEWER" -> PROBATION_MAX_VOTES_PER_EPOCH
      [] status = "ESTABLISHED_REVIEWER" -> ESTABLISHED_MAX_VOTES_PER_EPOCH
      [] OTHER -> 0

\* Submissions on which w used its quota of the epoch.
Used(w, epoch) ==
    {b.vote.sub : b \in {c \in Rows : c.vote.voter = w /\ review_epoch(c.height) = epoch}}

-----------------------------------------------------------------------------
(* Tallies *)

\* A stored ballot counts when its standing can be reconstructed.
verify_vote_record(b) ==
    /\ b.status \in REVIEWING
    /\ b.vote.voter # Creator[b.vote.sub]
    /\ status_at_reference(b.vote.voter, b.height) = b.status

Count(B, choice) == Cardinality({b.vote.voter : b \in {c \in B : c.vote.choice = choice}})

\* The outcome of one dimension; "unsure" fills the quorum only.
tally(ballots, s, d) ==
    LET B == {b \in ballots : b.vote.sub = s /\ b.vote.dim = d /\ verify_vote_record(b)}
        quorum == /\ Cardinality({b.vote.voter : b \in B}) >= MIN_VALID_VOTES
                  /\ Cardinality({b.vote.voter : b \in
                        {c \in B : c.status = "ESTABLISHED_REVIEWER"}}) >= MIN_ESTABLISHED_VOTES
        decisive == Count(B, "positive") + Count(B, "negative")
    IN IF ~quorum \/ decisive = 0 THEN "unresolved"
       ELSE IF Count(B, "positive") * 10000 >= decisive * APPROVAL_THRESHOLD_BPS
       THEN "positive" ELSE "negative"

combined_review(ballots, s) ==
    IF \A d \in Dimensions : tally(ballots, s, d) = "positive" THEN "qualified"
    ELSE IF \A d \in Dimensions : tally(ballots, s, d) # "unresolved" THEN "complete"
    ELSE "incomplete"

-----------------------------------------------------------------------------
(* Writes *)

Idle(f) == call[f] = {}

\* One insert into the vote table: a replay, a conflict or a new row.
_insert_durable_vote_record(b, table) ==
    LET rows == table[1]  refused == table[2] IN
    IF (\E c \in ToSet(rows) : c.vote = b.vote) \/ b.vote \in refused
    THEN table
    ELSE IF \E c \in ToSet(rows) : SameSlot(c.vote, b.vote)
    THEN <<rows, refused \cup {b.vote}>>
    ELSE <<Append(rows, b), refused>>

\* A save writes memory over the document and its ballots into the table.
Save(f) ==
    LET table == FoldSet(_insert_durable_vote_record, <<accepted, rejected>>, mem[f])
    IN /\ document' = mem[f]
       /\ accepted' = table[1] /\ rejected' = table[2]

_schedule(type, seq) ==
    IF seq <= Len(COOLDOWN_EPOCHS[type])
    THEN [status |-> "COOLDOWN", epochs |-> COOLDOWN_EPOCHS[type][seq]]
    ELSE [status |-> "SUSPENDED", epochs |-> SUSPENSION_EPOCHS]

\* Mutant: escalation counts penalties that are still active.
ForgetfulOffense(w, type, key, epoch, epochs) ==
    LET seq == Cardinality({p \in active_penalties(w, epoch) : p.of[1] = type}) + 1
        sentence == _schedule(type, seq)
    IN [stage |-> "offense",
        offense |-> [wallet |-> w, type |-> type, key |-> key, seq |-> seq],
        penalty |-> {[wallet |-> w, status |-> sentence.status, start |-> epoch,
                      end |-> epoch + sentence.epochs, epochs |-> sentence.epochs,
                      of |-> <<type, key>>] : x \in {type} \cap ESCALATING_OFFENSE_TYPES}]

\* Mutant: a vote during a cooldown is charged with no length.
EmptyOffense(w, type, key, epoch, epochs) ==
    [stage |-> "offense",
     offense |-> [wallet |-> w, type |-> type, key |-> key, seq |-> 0],
     penalty |-> {[wallet |-> w, status |-> "COOLDOWN", start |-> epoch, end |-> epoch,
                   epochs |-> epochs, of |-> <<type, key>>]}]

\* The offense and the penalty to write, from what is stored now; epochs is
\* the length of the cooldown that a vote during it extends.
apply_verified_offense(w, type, key, epoch, epochs) ==
    LET active == active_penalties(w, epoch)
        suspended == active # {} /\ effective_status(w, epoch) = "SUSPENDED"
        seq == IF type \in ESCALATING_OFFENSE_TYPES
               THEN Cardinality({o \in offenses : o.wallet = w /\ o.type = type}) + 1
               ELSE 0
        Penalty(status, length, end) ==
            {[wallet |-> w, status |-> status, start |-> epoch, end |-> end,
              epochs |-> length, of |-> <<type, key>>]}
    IN [stage |-> "offense",
        offense |-> [wallet |-> w, type |-> type, key |-> key, seq |-> seq],
        penalty |->
            IF type \in ESCALATING_OFFENSE_TYPES /\ ~suspended
            THEN LET sentence == _schedule(type, seq)
                 IN Penalty(sentence.status, sentence.epochs, epoch + sentence.epochs)
            ELSE IF type = "VOTE_DURING_COOLDOWN"
            THEN Penalty("COOLDOWN", epochs,
                         Max({p.end : p \in active} \cup {epoch + epochs}))
            ELSE {}]

Identity(v) == <<v.sub, v.dim, v.choice, v.nonce>>
Incident(v) == <<v.sub, v.dim, "any", 0>>

-----------------------------------------------------------------------------
(* Steps of a request *)

\* Keep the vote as evidence and go on to the offense, if there is one.
Refuse(f, b, charges) ==
    /\ rejected' = IF \E c \in Rows : c.vote = b.vote THEN rejected
                   ELSE rejected \cup {b.vote}
    /\ call' = [call EXCEPT ![f] = charges]
    /\ UNCHANGED <<accepted, mem, excess>>

\* An attempt beyond the quota; the offense needs attempts the decision
\* itself had refused, and as many accepted votes as the quota.
record_rate_limit_excess(f, b, decided) ==
    LET w == b.vote.voter
        epoch == review_epoch(height)
        mine == {a \in excess \cup {[vote |-> b.vote, epoch |-> epoch, decided |-> decided]} :
                    a.vote.voter = w /\ a.epoch = epoch}
        proven == /\ \A a \in excess : a.vote # b.vote
                  /\ Cardinality(Used(w, epoch)) >= EpochLimit(b.status)
    IN \E T \in SUBSET mine :
        /\ Cardinality(T) = IF Cardinality(mine) >= RATE_LIMIT_EXCESS_THRESHOLD
                            THEN RATE_LIMIT_EXCESS_THRESHOLD ELSE 0
        /\ excess' = IF \E a \in excess : a.vote = b.vote THEN excess ELSE excess \cup mine
        /\ call' = [call EXCEPT ![f] =
              IF proven /\ T # {} /\ \A a \in T : a.decided
              THEN {apply_verified_offense(w, "RATE_LIMIT_ABUSE",
                        <<"any", "any", "any", epoch>>, epoch, 0)}
              ELSE {}]

\* What becomes of ballot b, whose voter may use limit submissions.
Judge(f, b, decided) ==
    LET v == b.vote  w == v.voter
        epoch == review_epoch(height)
        existing == {c \in mem[f] : SameSlot(c.vote, v)}
        spent == Cardinality({c \in _accepted_votes(w) : review_epoch(c.height) = epoch})
        full == spent >= EpochLimit(b.status)
        other == \E c \in mem[f] : /\ c.vote.voter = w /\ c.vote.sub = v.sub
                                   /\ c.vote.dim # v.dim
                                   /\ review_epoch(c.height) = epoch
    IN \/ /\ existing # {}
          /\ Refuse(f, b, IF \E c \in existing : c.vote.choice # v.choice
                          THEN {apply_verified_offense(w, "SIGNED_VOTE_EQUIVOCATION",
                                    Incident(v), epoch, 0)}
                          ELSE {})
       \/ /\ existing = {} /\ Creator[v.sub] = w
          /\ Refuse(f, b, {apply_verified_offense(w, "CREATOR_SELF_VOTE",
                               Identity(v), epoch, 0)})
       \/ /\ existing = {} /\ Creator[v.sub] # w /\ b.status \in PENALTY
          /\ \E p \in effective_penalty(w, epoch) :
                Refuse(f, b, {apply_verified_offense(w,
                    IF b.status = "COOLDOWN" THEN "VOTE_DURING_COOLDOWN"
                    ELSE "VOTE_DURING_SUSPENSION", Identity(v), epoch, p.epochs)})
       \/ /\ existing = {} /\ Creator[v.sub] # w /\ b.status = "NEW"
          /\ Refuse(f, b, {})
       \/ /\ existing = {} /\ Creator[v.sub] # w /\ b.status \in REVIEWING
          /\ full /\ ~other
          /\ rejected' = rejected \cup {v}
          /\ record_rate_limit_excess(f, b, decided)
          /\ UNCHANGED <<accepted, mem>>
       \/ /\ existing = {} /\ Creator[v.sub] # w /\ b.status \in REVIEWING
          /\ ~full \/ other
          /\ mem' = [mem EXCEPT ![f] = @ \cup {b}]
          /\ call' = [call EXCEPT ![f] = {[stage |-> "record", ballot |-> b]}]
          /\ UNCHANGED <<accepted, rejected, excess>>

\* A signed vote of the public interface; an exact retry changes nothing.
cast_signed_submission_vote_operation(f, v) ==
    LET r == reconcile(v.voter, height) IN
    /\ Idle(f) /\ \A c \in mem[f] : c.vote # v
    /\ v \notin rejected /\ \A c \in Rows : c.vote # v
    /\ reviewer' = [reviewer EXCEPT ![v.voter] = r]
    /\ Judge(f, [vote |-> v, height |-> height, status |-> r.status], TRUE)
    /\ UNCHANGED <<height, document, offenses, penalties, failures>>

\* The same vote from a peer whose snapshot agrees with this node.
receive_peer_vote(f, v) ==
    LET r == reconcile(v.voter, height) IN
    /\ Idle(f)
    /\ \A c \in mem[f] : SameSlot(c.vote, v) => c.vote.choice # v.choice
    /\ reviewer' = [reviewer EXCEPT ![v.voter] = r]
    /\ Judge(f, [vote |-> v, height |-> height, status |-> r.status], FALSE)
    /\ UNCHANGED <<height, document, offenses, penalties, failures>>

\* Mutant: the quota is only the one the decision saw.
InsertWithoutLimit(f) ==
    \E job \in call[f] :
        LET b == job.ballot
            table == _insert_durable_vote_record(b, <<accepted, rejected>>)
        IN /\ job.stage = "record"
           /\ accepted' = table[1] /\ rejected' = table[2]
           /\ call' = [call EXCEPT ![f] = {[stage |-> "save"]}]
           /\ UNCHANGED <<height, document, mem, reviewer, offenses, penalties,
                          excess, failures>>

\* The transaction that counts the quota and inserts the row.
record_durable_vote_with_epoch_limit(f) ==
    \E job \in call[f] :
        LET b == job.ballot  v == b.vote
            used == Used(v.voter, review_epoch(b.height))
            known == v \in rejected \/ \E c \in Rows : c.vote = v
            over == ~known /\ v.sub \notin used
                    /\ Cardinality(used) >= EpochLimit(b.status)
            table == _insert_durable_vote_record(b, <<accepted, rejected>>)
        IN /\ job.stage = "record"
           /\ \/ /\ over
                 /\ rejected' = rejected \cup {v}
                 /\ record_rate_limit_excess(f, b, FALSE)
                 /\ UNCHANGED accepted
              \/ /\ ~over
                 /\ accepted' = table[1] /\ rejected' = table[2]
                 /\ call' = [call EXCEPT ![f] =
                       IF v \in rejected' THEN {} ELSE {[stage |-> "save"]}]
                 /\ UNCHANGED excess
           /\ mem' = IF v \in rejected' THEN [mem EXCEPT ![f] = @ \ {b}] ELSE mem
           /\ UNCHANGED <<height, document, reviewer, offenses, penalties, failures>>

\* The request's own save, or the save of any other operation of the facade.
save_blockchain(f) ==
    /\ \/ Idle(f) /\ mem[f] # document
       \/ [stage |-> "save"] \in call[f]
    /\ Save(f)
    /\ call' = [call EXCEPT ![f] = {}]
    /\ UNCHANGED <<height, mem, reviewer, offenses, penalties, excess, failures>>

record_reviewer_offense(f) ==
    \E job \in call[f] :
        LET o == job.offense
            replay == \E q \in offenses :
                         q.wallet = o.wallet /\ q.type = o.type /\ q.key = o.key
        IN /\ job.stage = "offense"
           /\ offenses' = IF replay THEN offenses ELSE offenses \cup {o}
           /\ call' = [call EXCEPT ![f] =
                 IF replay THEN {} ELSE {[job EXCEPT !.stage = "penalty"]}]
           /\ UNCHANGED <<height, accepted, rejected, document, mem, reviewer,
                          penalties, excess, failures>>

\* The penalty, then the standing it implies at the finalized height.
record_reviewer_penalty(f) ==
    \E job \in call[f] :
        /\ job.stage = "penalty"
        /\ penalties' = penalties \cup job.penalty
        /\ UNCHANGED <<height, accepted, rejected, document, mem, offenses,
                       excess, failures>>
        /\ LET w == job.offense.wallet
           IN reviewer' = [reviewer EXCEPT ![w].status =
                 IF (active_penalties(w, review_epoch(height)) # {})'
                 THEN effective_status(w, review_epoch(height))' ELSE @]
        /\ call' = [call EXCEPT ![f] = {}]

\* A peer shows two signed choices of one wallet; h is the reference it names.
receive_reviewer_offense_evidence(f, v, u, h) ==
    /\ Idle(f) /\ SameSlot(v, u) /\ v.choice # u.choice
    /\ \A o \in offenses : o.wallet = v.voter => o.key # Incident(v)
    /\ reviewer' = [reviewer EXCEPT ![v.voter] = reconcile(v.voter, height)]
    /\ call' = [call EXCEPT ![f] =
          {apply_verified_offense(v.voter, "SIGNED_VOTE_EQUIVOCATION", Incident(v),
                                  review_epoch(h), 0)}]
    /\ UNCHANGED <<height, accepted, rejected, document, mem, offenses, penalties,
                   excess, failures>>

get_reviewer_status(f, w) ==
    /\ Idle(f) /\ reconcile(w, height) # reviewer[w]
    /\ reviewer' = [reviewer EXCEPT ![w] = reconcile(w, height)]
    /\ UNCHANGED <<height, accepted, rejected, document, mem, offenses, penalties,
                   excess, call, failures>>

\* A block is finalized and every reviewer brought up to date.
reconcile_canonical_reviewer_states ==
    /\ height < MaxHeight
    /\ height' = height + 1
    /\ reviewer' = [w \in Wallets |-> reconcile(w, height + 1)]
    /\ UNCHANGED <<accepted, rejected, document, mem, offenses, penalties, excess,
                   call, failures>>

load_blockchain(f) ==
    /\ Idle(f) /\ mem[f] # document
    /\ mem' = [mem EXCEPT ![f] = document]
    /\ UNCHANGED <<height, accepted, rejected, document, reviewer, offenses,
                   penalties, excess, call, failures>>

\* The process of f dies with its request half written, and restarts.
Crash(f) ==
    /\ "crash" \in Failures /\ failures < MaxFailures /\ ~Idle(f)
    /\ failures' = failures + 1
    /\ mem' = [mem EXCEPT ![f] = document]
    /\ call' = [call EXCEPT ![f] = {}]
    /\ UNCHANGED <<height, accepted, rejected, document, reviewer, offenses,
                   penalties, excess>>

\* The insert fails (a busy database): the request ends with an error.
Busy(f) ==
    /\ "busy" \in Failures /\ failures < MaxFailures
    /\ \E job \in call[f] : job.stage = "record"
    /\ failures' = failures + 1
    /\ call' = [call EXCEPT ![f] = {}]
    /\ UNCHANGED <<height, accepted, rejected, document, mem, reviewer, offenses,
                   penalties, excess>>

-----------------------------------------------------------------------------
Init ==
    /\ height = 0 /\ failures = 0
    /\ accepted = <<>> /\ rejected = {} /\ document = {}
    /\ mem = [f \in Facades |-> {}]
    /\ reviewer = [w \in Wallets |-> [status |-> "NEW", base |-> "NEW", at |-> Undated]]
    /\ offenses = {} /\ penalties = {} /\ excess = {}
    /\ call = [f \in Facades |-> {}]

Next ==
    \/ reconcile_canonical_reviewer_states
    \/ \E f \in Facades :
        \/ \E v \in Signed : \/ cast_signed_submission_vote_operation(f, v)
                             \/ receive_peer_vote(f, v)
        \/ record_durable_vote_with_epoch_limit(f)
        \/ save_blockchain(f) \/ load_blockchain(f)
        \/ record_reviewer_offense(f) \/ record_reviewer_penalty(f)
        \/ \E v, u \in Signed, h \in 0 .. height :
              receive_reviewer_offense_evidence(f, v, u, h)
        \/ \E w \in Wallets : get_reviewer_status(f, w)
        \/ Crash(f) \/ Busy(f)

Spec == Init /\ [][Next]_vars

-----------------------------------------------------------------------------
(* Properties *)

TypeOK ==
    /\ height \in 0 .. MaxHeight /\ failures \in 0 .. MaxFailures
    /\ accepted \in Seq(Ballot) /\ rejected \subseteq Vote
    /\ document \subseteq Ballot /\ mem \in [Facades -> SUBSET Ballot]
    /\ \A w \in Wallets :
        /\ reviewer[w].status \in REVIEWER_STATUSES
        /\ reviewer[w].base \in {"NEW"} \cup REVIEWING
        /\ reviewer[w].at \in Undated .. MaxHeight
    /\ \A p \in penalties : p.status \in PENALTY /\ p.start < p.end

\* Whatever facades race for the last place, a wallet's accepted rows of one
\* epoch never cover more submissions than its standing allows.
QuotaHolds ==
    \A w \in Wallets, e \in 0 .. review_epoch(MaxHeight) :
        LET mine == {b \in Rows : b.vote.voter = w /\ review_epoch(b.height) = e}
        IN /\ Cardinality(Used(w, e)) <= ESTABLISHED_MAX_VOTES_PER_EPOCH
           /\ (\A b \in mine : b.status = "PROBATIONARY_REVIEWER")
                => Cardinality(Used(w, e)) <= PROBATION_MAX_VOTES_PER_EPOCH

\* The stored document never shows a vote that the vote table does not have
\* as the one accepted vote of its wallet, submission and dimension.
DocumentVotesAreAccepted ==
    /\ {b.vote : b \in document} \subseteq {b.vote : b \in Rows}
    /\ \A i, j \in DOMAIN accepted :
          SameSlot(accepted[i].vote, accepted[j].vote) => i = j

\* An established standing that the policy did not grant was earned by
\* accepted votes on enough different submissions.
PromotionEarned ==
    \A w \in Wallets \ Bootstrap : reviewer[w].base = "ESTABLISHED_REVIEWER" =>
        Cardinality({b.vote.sub : b \in {c \in Rows : c.vote.voter = w}})
            >= PROBATION_MIN_VALID_VOTES_FOR_PROMOTION

\* A review the stored document calls qualified has, in each dimension,
\* enough wallets with an accepted row, an established one among them, and
\* never the creator.
QualifiedIsEarned ==
    \A s \in Submissions : combined_review(document, s) = "qualified" =>
        \A d \in Dimensions :
            LET voters == {b.vote.voter : b \in
                    {c \in Rows : c.vote.sub = s /\ c.vote.dim = d /\ c.status \in REVIEWING}}
            IN /\ Cardinality(voters \ {Creator[s]}) >= MIN_VALID_VOTES
               /\ Cardinality({b.vote.voter : b \in {c \in Rows :
                     c.vote.sub = s /\ c.status = "ESTABLISHED_REVIEWER"}})
                        >= MIN_ESTABLISHED_VOTES

\* The k-th offense of one type of a wallet is recorded as its k-th, and its
\* penalty is the k-th of the schedule or one for an active suspension.
EscalationFollowsHistory ==
    \A w \in Wallets, type \in ESCALATING_OFFENSE_TYPES :
        LET record == {o \in offenses : o.wallet = w /\ o.type = type}
        IN /\ {o.seq : o \in record} = 1 .. Cardinality(record)
           /\ \A o \in record, p \in penalties :
                 p.wallet = w /\ p.of = <<type, o.key>> =>
                     p.end - p.start = _schedule(type, o.seq).epochs

\* Every offense of an escalating type has its penalty or fell into a
\* suspension, unless a facade is still writing it.
\* The code does not keep this: README, section 5.
OffensesArePenalized ==
    \A o \in offenses : o.type \in ESCALATING_OFFENSE_TYPES =>
        \/ \E p \in penalties : p.wallet = o.wallet /\ p.of = <<o.type, o.key>>
        \/ \E p \in penalties : p.wallet = o.wallet /\ p.status = "SUSPENDED"
        \/ \E f \in Facades : \E job \in call[f] : job.stage = "penalty" /\ job.offense = o

\* An accepted vote is in the stored document, or a request is writing it:
\* an identical retry finds it.
\* The code does not keep this: README, section 5.
RetryFindsVote ==
    \A b \in Rows :
        \/ b \in document
        \/ \E f \in Facades : b \in mem[f] /\ ~Idle(f)

\* When a penalty expires, probation goes on from where it started.
\* The code does not keep this: README, section 5.
ExpiryKeepsProbation ==
    [][\A w \in Wallets :
          /\ reviewer[w].status \in PENALTY
          /\ reviewer[w].base = "PROBATIONARY_REVIEWER"
          /\ reviewer'[w].status = "PROBATIONARY_REVIEWER"
          => reviewer'[w].at = reviewer[w].at]_vars

\* The standing reconstructed at the reference of an accepted vote is the
\* one the vote recorded, as long as its voter has no penalty.
\* The code does not keep this: README, section 5.
RecordedStatusReconstructs ==
    \A b \in Rows :
        (\A p \in penalties : p.wallet # b.vote.voter) =>
            status_at_reference(b.vote.voter, b.height) = b.status
=============================================================================
