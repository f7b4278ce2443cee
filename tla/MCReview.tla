----------------------------- MODULE MCReview ------------------------------
(***************************************************************************)
(* Small instances of the review components: votes and standing,           *)
(* certificates, voter rewards. The components share no variables here, so *)
(* a behaviour explores one instance of one of them.                       *)
(***************************************************************************)
EXTENDS Naturals, TLC

CONSTANTS
    f1, f2, NONE

VARIABLES
    scenario,   \* the instance a behaviour explores
    \* ReviewVotes
    height, accepted, rejected, document, mem, reviewer, offenses, penalties,
    excess, call, failures,
    \* OriginalityCertificates
    now, tip, head, votes, certs, link, status, block, stops,
    \* VoterRewards
    today, day, suspended, ledger, cached, refused, pending, paidTips, minerTips,
    changes

\* The votes that reviewers sign in scenarios of ReviewVotes.
Votes(voters, subs, dims, choices) ==
    [voter : voters, sub : subs, dim : dims, choice : choices, nonce : {0}]
Positive(voters, subs, dims) == Votes(voters, subs, dims, {"positive"})
\* One reviewer votes for both submissions and changes its mind about some.
DoubleVotes(subs) == Positive({"w1"}, {"s1", "s2"}, {"originality"})
                         \cup Votes({"w1"}, subs, {"originality"}, {"positive", "negative"})
Both == {"originality", "admissibility"}
\* Everybody qualifies at once.
Early(wallets) == [w \in wallets |-> 0]
OneCooldown == [t \in {"SIGNED_VOTE_EQUIVOCATION", "CREATOR_SELF_VOTE", "RATE_LIMIT_ABUSE"} |-> <<1>>]
ByW3(subs) == [s \in subs |-> "w3"]

\* Two voters find the submission original, the third does not; w1 is
\* established by the policy, w2 from the second block on.
OneAgainst == [w1 |-> "original", w2 |-> "original", w3 |-> "not_original"]
Qualified == [w1 |-> 1, w2 |-> 1, w3 |-> 2]
Established == [w1 |-> 0, w2 |-> 2, w3 |-> 3]

\* Values of the constants that all scenarios share.
VoteChoices == {"positive", "negative"}
Nonces == {0}
PROBATION_MIN_DURATION_EPOCHS == 1
PROBATION_MIN_VALID_VOTES_FOR_PROMOTION == 2
ESTABLISHED_MAX_VOTES_PER_EPOCH == 2
RATE_LIMIT_EXCESS_THRESHOLD == 1
COOLDOWN_EPOCHS == OneCooldown
SUSPENSION_EPOCHS == 2
MIN_VALID_VOTES == 2
MIN_ESTABLISHED_VOTES == 1
Issuers == {"n1"}
Voters == {"w1", "w2", "w3"}
Choice == OneAgainst
EstablishedAt == Established
PENALTY_EPOCHS == 1
WindowEnd == 5
MEME_BLOCK_REWARD == 5
POOL_PER_DECISION == 3
MAX_PER_WALLET == 0
MIN_DECISIVE_VOTES == 1
APPROVAL_PERCENT == 70
DAILY_VOTES == 0
TipUnits == 4

\* Two facades race for the votes of one epoch, one may die on the way.
Quota == INSTANCE ReviewVotes WITH
    Facades <- {f1, f2}, Wallets <- {"w1", "w3"}, Submissions <- {"s1", "s2"},
    Creator <- ByW3({"s1", "s2"}), Dimensions <- {"originality"},
    Signed <- Positive({"w1"}, {"s1", "s2"}, {"originality"}), Bootstrap <- {},
    QualifiedAt <- Early({"w1", "w3"}), REVIEW_EPOCH_BLOCKS <- 1,
    PROBATION_MAX_VOTES_PER_EPOCH <- 1, APPROVAL_THRESHOLD_BPS <- 7000,
    Failures <- {"crash"}, MaxHeight <- 1, MaxFailures <- 1
\* A reviewer votes both ways on one submission at two facades.
Race == INSTANCE ReviewVotes WITH
    Facades <- {f1, f2}, Wallets <- {"w1", "w3"}, Submissions <- {"s1"},
    Creator <- ByW3({"s1"}), Dimensions <- {"originality"},
    Signed <- Votes({"w1"}, {"s1"}, {"originality"}, {"positive", "negative"}),
    Bootstrap <- {}, QualifiedAt <- Early({"w1", "w3"}),
    REVIEW_EPOCH_BLOCKS <- 1, PROBATION_MAX_VOTES_PER_EPOCH <- 1,
    APPROVAL_THRESHOLD_BPS <- 7000, Failures <- {"crash"}, MaxHeight <- 0,
    MaxFailures <- 1
\* A reviewer earns its promotion over three epochs.
Standing == INSTANCE ReviewVotes WITH
    Facades <- {"f"}, Wallets <- {"w1", "w3"}, Submissions <- {"s1", "s2"},
    Creator <- ByW3({"s1", "s2"}), Dimensions <- Both,
    Signed <- Positive({"w1"}, {"s1", "s2"}, Both), Bootstrap <- {},
    QualifiedAt <- Early({"w1", "w3"}), REVIEW_EPOCH_BLOCKS <- 1,
    PROBATION_MAX_VOTES_PER_EPOCH <- 2, APPROVAL_THRESHOLD_BPS <- 7000,
    Failures <- {}, MaxHeight <- 2, MaxFailures <- 0
\* Repeated double votes, from cooldown to suspension.
Escalation == INSTANCE ReviewVotes WITH
    Facades <- {"f"}, Wallets <- {"w1", "w3"}, Submissions <- {"s1", "s2"},
    Creator <- ByW3({"s1", "s2"}), Dimensions <- {"originality"},
    Signed <- DoubleVotes({"s1", "s2"}), Bootstrap <- {},
    QualifiedAt <- Early({"w1", "w3"}), REVIEW_EPOCH_BLOCKS <- 1,
    PROBATION_MAX_VOTES_PER_EPOCH <- 2, APPROVAL_THRESHOLD_BPS <- 7000,
    Failures <- {}, MaxHeight <- 1, MaxFailures <- 0
\* Everybody votes, the creator too, and a write may find the store busy.
Tally == INSTANCE ReviewVotes WITH
    Facades <- {"f"}, Wallets <- {"w1", "w2", "w3", "w4"}, Submissions <- {"s1"},
    Creator <- ByW3({"s1"}), Dimensions <- Both,
    Signed <- Positive({"w1", "w2", "w4"}, {"s1"}, Both) \cup Positive({"w3"}, {"s1"}, {"originality"}),
    Bootstrap <- {"w2"}, QualifiedAt <- Early({"w1", "w2", "w3", "w4"}),
    REVIEW_EPOCH_BLOCKS <- 1, PROBATION_MAX_VOTES_PER_EPOCH <- 1,
    APPROVAL_THRESHOLD_BPS <- 7000, Failures <- {"busy"}, MaxHeight <- 0,
    MaxFailures <- 1
\* One node evaluates, is cut off and evaluates again, over time.
Issuer == INSTANCE OriginalityCertificates WITH
    Nodes <- {"n1", "n2"}, QualifiedAt <- Qualified, REVIEW_EPOCH_BLOCKS <- 2,
    APPROVAL_THRESHOLD_BPS <- 6000, MinimumVotes <- [t \in 0..1 |-> 2],
    MaxHeight <- 3, MaxTime <- 1, MaxOffenses <- 0, MaxStops <- 1
\* A voter is penalised while the other node learns of votes and certificate.
Offenses == INSTANCE OriginalityCertificates WITH
    Nodes <- {"n1", "n2"}, QualifiedAt <- Qualified, REVIEW_EPOCH_BLOCKS <- 2,
    APPROVAL_THRESHOLD_BPS <- 6000, MinimumVotes <- [t \in 0..0 |-> 2],
    MaxHeight <- 3, MaxTime <- 0, MaxOffenses <- 1, MaxStops <- 0
\* A pool for two blocks, tips, and a voter that is suspended for a time.
Pool == INSTANCE VoterRewards WITH
    Nodes <- {"n1"}, Wallets <- {"w1", "w2", "w3"},
    Submissions <- <<"s1", "s2">>, Creator <- [s1 |-> "w3", s2 |-> "w1"],
    REWARD_POOL_SUPPLY <- 12, MaxTips <- 1, MaxChanges <- 1, MaxDays <- 1
\* Two nodes that know the same of the voters.
Agreed == INSTANCE VoterRewards WITH
    Nodes <- {"n1", "n2"}, Wallets <- {"w1", "w2", "w3"},
    Submissions <- <<"s1", "s2">>, Creator <- ByW3({"s1", "s2"}),
    REWARD_POOL_SUPPLY <- 20, MaxTips <- 0, MaxChanges <- 0, MaxDays <- 0

ASSUME QuotaAssumption == Quota!PolicyAssumption
ASSUME RaceAssumption == Race!PolicyAssumption
ASSUME StandingAssumption == Standing!PolicyAssumption
ASSUME EscalationAssumption == Escalation!PolicyAssumption
ASSUME TallyAssumption == Tally!PolicyAssumption
ASSUME IssuerAssumption == Issuer!CertificateAssumption
ASSUME OffensesAssumption == Offenses!CertificateAssumption
ASSUME PoolAssumption == Pool!RewardAssumption
ASSUME AgreedAssumption == Agreed!RewardAssumption

\* The state of the components a scenario leaves out.
Off == "off"
OnlyReviewVotes ==
    /\ now = Off /\ tip = Off /\ head = Off /\ votes = Off /\ certs = Off
    /\ link = Off /\ status = Off /\ block = Off /\ stops = Off /\ today = Off
    /\ day = Off /\ suspended = Off /\ ledger = Off /\ cached = Off
    /\ refused = Off /\ pending = Off /\ paidTips = Off /\ minerTips = Off
    /\ changes = Off
OnlyOriginalityCertificates ==
    /\ height = Off /\ accepted = Off /\ rejected = Off /\ document = Off
    /\ mem = Off /\ reviewer = Off /\ offenses = Off /\ excess = Off
    /\ call = Off /\ failures = Off /\ today = Off /\ day = Off
    /\ suspended = Off /\ ledger = Off /\ cached = Off /\ refused = Off
    /\ pending = Off /\ paidTips = Off /\ minerTips = Off /\ changes = Off
OnlyVoterRewards ==
    /\ accepted = Off /\ rejected = Off /\ document = Off /\ mem = Off
    /\ reviewer = Off /\ offenses = Off /\ penalties = Off /\ excess = Off
    /\ call = Off /\ failures = Off /\ now = Off /\ tip = Off /\ head = Off
    /\ certs = Off /\ link = Off /\ block = Off /\ stops = Off
othersReviewVotes ==
    <<scenario, now, tip, head, votes, certs, link, status, block, stops, today, day,
      suspended, ledger, cached, refused, pending, paidTips, minerTips, changes>>
othersOriginalityCertificates ==
    <<scenario, height, accepted, rejected, document, mem, reviewer, offenses, excess,
      call, failures, today, day, suspended, ledger, cached, refused, pending,
      paidTips, minerTips, changes>>
othersVoterRewards ==
    <<scenario, accepted, rejected, document, mem, reviewer, offenses, penalties, excess,
      call, failures, now, tip, head, certs, link, block, stops>>

vars ==
    <<scenario, height, accepted, rejected, document, mem, reviewer, offenses, penalties,
      excess, call, failures, now, tip, head, votes, certs, link, status, block,
      stops, today, day, suspended, ledger, cached, refused, pending, paidTips,
      minerTips, changes>>

Init ==
    \/ scenario = "quota" /\ Quota!Init /\ OnlyReviewVotes
    \/ scenario = "race" /\ Race!Init /\ OnlyReviewVotes
    \/ scenario = "standing" /\ Standing!Init /\ OnlyReviewVotes
    \/ scenario = "escalation" /\ Escalation!Init /\ OnlyReviewVotes
    \/ scenario = "tally" /\ Tally!Init /\ OnlyReviewVotes
    \/ scenario = "issuer" /\ Issuer!Init /\ OnlyOriginalityCertificates
    \/ scenario = "offenses" /\ Offenses!Init /\ OnlyOriginalityCertificates
    \/ scenario = "pool" /\ Pool!Init /\ OnlyVoterRewards
    \/ scenario = "agreed" /\ Agreed!Init /\ OnlyVoterRewards

Next ==
    \/ scenario = "quota" /\ Quota!Next /\ UNCHANGED othersReviewVotes
    \/ scenario = "race" /\ Race!Next /\ UNCHANGED othersReviewVotes
    \/ scenario = "standing" /\ Standing!Next /\ UNCHANGED othersReviewVotes
    \/ scenario = "escalation" /\ Escalation!Next /\ UNCHANGED othersReviewVotes
    \/ scenario = "tally" /\ Tally!Next /\ UNCHANGED othersReviewVotes
    \/ scenario = "issuer" /\ Issuer!Next /\ UNCHANGED othersOriginalityCertificates
    \/ scenario = "offenses" /\ Offenses!Next /\ UNCHANGED othersOriginalityCertificates
    \/ scenario = "pool" /\ Pool!Next /\ UNCHANGED othersVoterRewards
    \/ scenario = "agreed" /\ Agreed!Next /\ UNCHANGED othersVoterRewards

Spec == Init /\ [][Next]_vars

FacadeSymmetry == Permutations({f1, f2})

-----------------------------------------------------------------------------
(* Properties *)

\* Every component keeps its state well formed.
TypeOK ==
    /\ scenario = "quota" => Quota!TypeOK
    /\ scenario = "issuer" => Issuer!TypeOK
    /\ scenario = "pool" => Pool!TypeOK

\* Whatever facades race for the last place, a wallet's accepted rows of one
\* epoch never cover more submissions than its standing allows.
QuotaHolds == scenario = "quota" => Quota!QuotaHolds

\* The stored document never shows a vote the vote table refused, although table
\* and document are written in two transactions of two facades.
DocumentVotesAreAccepted == scenario = "race" => Race!DocumentVotesAreAccepted

\* An established standing that the policy did not grant was earned by accepted
\* votes on enough different submissions.
PromotionEarned == scenario = "standing" => Standing!PromotionEarned

\* The k-th offense of a wallet is recorded as its k-th and penalised by the k-th
\* entry of the schedule, whatever replays it.
EscalationFollowsHistory ==
    scenario = "escalation" => Escalation!EscalationFollowsHistory

\* A review the stored document calls qualified has enough accepted voters in
\* each dimension, an established one among them, never the creator.
QualifiedIsEarned == scenario = "tally" => Tally!QualifiedIsEarned

\* A submission has one certificate on all nodes, whatever evaluation is cut off
\* and repeated and whatever a peer sends back.
OneCertificate == scenario = "issuer" => Issuer!OneCertificate


\* A version-3 evaluation that was cut off between its two saves can be taken to
\* its end.
NotStuck == scenario = "issuer" => Issuer!NotStuck

\* A node approves nothing its own votes do not carry, even with a certificate of
\* a peer.
ApprovedByOwnVotes == scenario = "offenses" => Offenses!ApprovedByOwnVotes

\* Once a node has a certificate its votes do not change any more.
CertifiedVotesAreFrozen ==
    [][ /\ scenario = "issuer" => Issuer!KeepsCertifiedVotes
        /\ scenario = "offenses" => Offenses!KeepsCertifiedVotes ]_vars

\* No reward identifier is paid twice in the chain, in one block or in two.
PaidOnce == scenario = "pool" => Pool!PaidOnce

\* The reward pool of every prefix of the chain, computed again from its blocks,
\* is never overdrawn.
PoolNeverShort == scenario = "pool" => Pool!PoolNeverShort

\* A creator is never paid as a voter on its own submission, and only the side
\* the decision went to is paid.
OnlyTheMajorityIsPaid == scenario = "pool" => Pool!OnlyTheMajorityIsPaid

\* A due reward waits for the next block only if the block leaves too little in
\* the pool for it.
LeftOutDoesNotFit ==
    [][scenario = "pool" => Pool!LeavesOutOnlyForWant]_vars

\* Whatever is paid for one submission in all its blocks together is at most the
\* pool of one decision.
OnePoolPerDecision == scenario = "agreed" => Agreed!OnePoolPerDecision

\* A node that accepted a block never refuses its own chain afterwards, at a
\* restart or before the next block.
AcceptedStaysValid == scenario = "agreed" => Agreed!AcceptedStaysValid

\* A block one node mines is accepted by the others.
NodesAgree == scenario = "agreed" => Agreed!NodesAgree

=============================================================================
