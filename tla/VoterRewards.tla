---------------------------- MODULE VoterRewards ----------------------------
(***************************************************************************)
(* Creator and voter rewards, planned from the votes and settled in blocks *)
(* of legacy originality certificates.                                     *)
(*                                                                         *)
(* A reward plan is a function of the votes AND of what the node knows of  *)
(* the voters now: their access and how much they voted today.  The same   *)
(* function decides what a miner pays, and whether a block, mined now or   *)
(* long ago, is valid.  Nodes share votes, decisions and the one chain     *)
(* (fork choice is another module); access accounts are each node's own.   *)
(***************************************************************************)
EXTENDS Integers, Sequences, SequencesExt, FiniteSets, FiniteSetsExt

CONSTANTS
    Nodes, Wallets,
    Submissions,        \* their identifiers, in sorted order
    Creator,            \* wallet of each submission
    REWARD_POOL_SUPPLY, MEME_BLOCK_REWARD,
    POOL_PER_DECISION, MAX_PER_WALLET, MIN_DECISIVE_VOTES,
    APPROVAL_PERCENT,   \* share of original votes that approves
    DAILY_VOTES,        \* review votes a wallet may cast a day, 0: any number
    TipUnits,           \* tip of a pending legacy transaction
    MaxTips,            \* bound: such transactions
    MaxChanges,         \* bound: changes of access
    MaxDays             \* bound: days

RewardAssumption ==
    /\ Creator \in [Range(Submissions) -> Wallets]
    /\ {REWARD_POOL_SUPPLY, MEME_BLOCK_REWARD, POOL_PER_DECISION, MAX_PER_WALLET,
        MIN_DECISIVE_VOTES, DAILY_VOTES, MaxTips, MaxChanges, MaxDays} \subseteq Nat
    /\ APPROVAL_PERCENT \in 0..100 /\ TipUnits \in Nat /\ TipUnits % 4 = 0

VARIABLES
    votes,      \* choice of each wallet on each submission
    status,     \* of each submission
    today,      \* votes each wallet cast today
    day,
    suspended,  \* wallets whose access each node has suspended
    ledger,     \* the blocks, oldest first
    height,     \* how many of them each node holds
    cached,     \* _validated_chain_prefix_hashes of each node: their number
    refused,    \* nodes that refused a block or their own chain
    pending,    \* tipped legacy transactions not in a block
    paidTips,   \* how many there ever were
    minerTips,  \* tips credited to miners
    changes

vars == <<votes, status, today, day, suspended, ledger, height, cached, refused,
          pending, paidTips, minerTips, changes>>

Sub == Range(Submissions)
Side == {"original", "not_original"}
Record == [sub : Sub, wallet : Wallets, side : Side, amount : Nat]
Block == [sub : Sub, tips : Nat, rewards : SUBSET Record]
ChainOf(n) == SubSeq(ledger, 1, height[n])

TypeOK ==
    /\ votes \in [Sub -> [Wallets -> Side \union {"unsure", "none"}]]
    /\ status \in [Sub -> {"review", "approved", "rejected", "minted"}]
    /\ today \in [Wallets -> Nat] /\ day \in 0..MaxDays
    /\ suspended \in [Nodes -> SUBSET Wallets]
    /\ ledger \in Seq(Block)
    /\ height \in [Nodes -> 0..Len(ledger)] /\ cached \in [Nodes -> 0..Len(ledger)]
    /\ refused \subseteq Nodes
    /\ pending \in 0..MaxTips /\ paidTips \in 0..MaxTips /\ minerTips \in Nat
    /\ changes \in 0..MaxChanges

-----------------------------------------------------------------------------
(* The plan. *)

Casting(s, choice) == {w \in Wallets : votes[s][w] = choice}

\* A tip is split in halves, and one to three while the pool is below a quarter
\* of its supply.
TipShare(pool) == IF 4 * pool < REWARD_POOL_SUPPLY THEN 3 * (TipUnits \div 4)
                                                   ELSE TipUnits \div 2
AfterTips(pool, k) == FoldLeft(LAMBDA p, i : p + TipShare(p), pool, [i \in 1..k |-> i])
MinerShare(pool, k) == k * TipUnits - (AfterTips(pool, k) - pool)

Amount(rs) == MapThenSumSet(LAMBDA r : r.amount, rs)

\* The pool is paid out by a block's reward transactions before it gets the tips
\* of the transactions behind them.
recompute_reward_pool_balance(chain) ==
    FoldLeft(LAMBDA p, b : AfterTips(p - MEME_BLOCK_REWARD - Amount(b.rewards), b.tips),
             REWARD_POOL_SUPPLY, chain)

\* The side whose voters are paid, "none" while there is no decision.
get_submission_reward_decision(s) ==
    IF Cardinality(Casting(s, "original") \union Casting(s, "not_original")) < MIN_DECISIVE_VOTES
        THEN "none"
        ELSE CASE status[s] \in {"approved", "minted"} -> "original"
               [] status[s] = "rejected" -> "not_original"
               [] OTHER -> "none"

\* The plan asks what the node thinks of the voter now.
Eligible(n, w) ==
    /\ w \notin suspended[n]
    /\ DAILY_VOTES = 0 \/ today[w] < DAILY_VOTES

eligible_voter_reward_wallets(n, s) ==
    {w \in Casting(s, get_submission_reward_decision(s)) : w # Creator[s] /\ Eligible(n, w)}

PerWallet(count) ==
    LET share == POOL_PER_DECISION \div count
    IN  IF MAX_PER_WALLET > 0 THEN Min({share, MAX_PER_WALLET}) ELSE share

build_submission_voter_reward_plan(n, s) ==
    LET ws == eligible_voter_reward_wallets(n, s)
    IN  IF get_submission_reward_decision(s) = "none" \/ ws = {} \/ PerWallet(Cardinality(ws)) = 0
            THEN {}
            ELSE {[sub |-> s, wallet |-> w, side |-> get_submission_reward_decision(s),
                   amount |-> PerWallet(Cardinality(ws))] : w \in ws}

reward_id(r) == <<r.sub, r.wallet, r.side>>
settled_voter_reward_ids(chain) ==
    UNION {{reward_id(r) : r \in chain[i].rewards} : i \in DOMAIN chain}
Unsettled(rs, chain) == {r \in rs : reward_id(r) \notin settled_voter_reward_ids(chain)}
due_voter_reward_records(n, s) == Unsettled(build_submission_voter_reward_plan(n, s), ChainOf(n))

\* The voters of the submission being minted come first and must fit; the other
\* submissions follow in order, each as a whole or not at all.
NoRoom == [fits |-> FALSE, selected |-> {}]
select_voter_reward_records_for_block(n, s, available) ==
    LET room == available - MEME_BLOCK_REWARD
        first == due_voter_reward_records(n, s)
        Add(sel, t) == LET group == due_voter_reward_records(n, t)
                       IN  IF t = s \/ Amount(sel \union group) > room THEN sel
                                                                       ELSE sel \union group
    IN  CASE room <= 0 -> [fits |-> TRUE, selected |-> {}]
          [] room > 0 /\ Amount(first) > room -> NoRoom
          [] OTHER -> [fits |-> TRUE, selected |-> FoldLeft(Add, first, Submissions)]

-----------------------------------------------------------------------------
(* Validation. *)

\* Every reward of a block is one of the plan the node makes now for a submission
\* it knows, and new.
validate_voter_rewards(n, block, prior) ==
    \A r \in block.rewards :
        /\ r.sub \in Sub
        /\ r \in build_submission_voter_reward_plan(n, r.sub)
        /\ reward_id(r) \notin settled_voter_reward_ids(prior)

validate_block(n, block, prior) ==
    /\ validate_voter_rewards(n, block, prior)
    /\ \A i \in DOMAIN prior : prior[i].sub # block.sub

validate_chain(n, chain) ==
    \A i \in DOMAIN chain : validate_block(n, chain[i], SubSeq(chain, 1, i - 1))

\* Only the blocks behind the cached prefix are validated again.
_ensure_validated_chain_prefix(n) ==
    \A i \in (cached[n] + 1)..height[n] : validate_block(n, ledger[i], SubSeq(ledger, 1, i - 1))

-----------------------------------------------------------------------------
Init ==
    /\ votes = [s \in Sub |-> [w \in Wallets |-> "none"]]
    /\ status = [s \in Sub |-> "review"]
    /\ today = [w \in Wallets |-> 0] /\ day = 0
    /\ suspended = [n \in Nodes |-> {}]
    /\ ledger = <<>> /\ height = [n \in Nodes |-> 0] /\ cached = [n \in Nodes |-> 0]
    /\ refused = {} /\ pending = 0 /\ paidTips = 0 /\ minerTips = 0 /\ changes = 0

Chain == <<ledger, height, cached, refused, minerTips>>

\* A wallet every node finds eligible votes; the creator does not.
cast_submission_vote(w, s, choice) ==
    /\ status[s] = "review" /\ votes[s][w] = "none" /\ w # Creator[s]
    /\ \A n \in Nodes : Eligible(n, w)
    /\ votes' = [votes EXCEPT ![s][w] = choice]
    /\ today' = [today EXCEPT ![w] = @ + 1]
    /\ UNCHANGED <<status, day, suspended, pending, paidTips, changes, Chain>>

\* A tally ends in a certificate or in a rejection by vote.
evaluate_submission(s) ==
    LET yes == Cardinality(Casting(s, "original"))
        no == Cardinality(Casting(s, "not_original"))
    IN  /\ status[s] = "review" /\ yes + no >= 1
        /\ status' = [status EXCEPT ![s] =
               IF 100 * yes >= APPROVAL_PERCENT * (yes + no) THEN "approved" ELSE "rejected"]
        /\ UNCHANGED <<votes, today, day, suspended, pending, paidTips, changes, Chain>>

CarelessCandidate(n, s) ==
    LET pool == AfterTips(recompute_reward_pool_balance(ledger), pending)
        plan == select_voter_reward_records_for_block(n, s, pool)
    IN  [made |-> plan.fits,
         block |-> [sub |-> s, tips |-> pending, rewards |-> plan.selected]]

\* The pool with the tips of the pending transactions pays for the creator and
\* the voters, or there is no candidate.
build_candidate(n, s) ==
    LET pool == AfterTips(recompute_reward_pool_balance(ledger), pending)
        plan == select_voter_reward_records_for_block(n, s, pool)
    IN  [made |-> plan.fits /\ pool >= MEME_BLOCK_REWARD + Amount(plan.selected),
         block |-> [sub |-> s, tips |-> pending, rewards |-> plan.selected]]

PrefixAfterAppend(n) == height[n] + 1

\* The candidate is validated on top of the cached prefix; the miner gets its
\* share of the tips as the candidate split them.
accept_block_candidate(n, s) ==
    LET candidate == build_candidate(n, s)
    IN  /\ n \notin refused /\ height[n] = Len(ledger) /\ status[s] = "approved"
        /\ candidate.made
        /\ _ensure_validated_chain_prefix(n)
        /\ validate_block(n, candidate.block, ledger)
        /\ ledger' = Append(ledger, candidate.block)
        /\ height' = [height EXCEPT ![n] = @ + 1]
        /\ cached' = [cached EXCEPT ![n] = PrefixAfterAppend(n)]
        /\ status' = [status EXCEPT ![s] = "minted"]
        /\ minerTips' = minerTips + MinerShare(recompute_reward_pool_balance(ledger), pending)
        /\ pending' = 0
        /\ UNCHANGED <<votes, today, day, suspended, refused, paidTips, changes>>

\* A peer's block is validated with the whole chain before it: a node that finds
\* any reward of it different from its own plan refuses.
_validate_block_extends_chain(n) ==
    /\ n \notin refused /\ height[n] < Len(ledger)
    /\ LET longer == SubSeq(ledger, 1, height[n] + 1)
       IN  IF validate_chain(n, longer)
               THEN /\ height' = [height EXCEPT ![n] = @ + 1]
                    /\ UNCHANGED <<cached, refused>>
               ELSE /\ refused' = refused \union {n}
                    /\ UNCHANGED <<height, cached>>
    /\ UNCHANGED <<votes, status, today, day, suspended, ledger, pending, paidTips,
                   minerTips, changes>>

\* A restarted node validates its stored chain and does not start without.
load_blockchain(n) ==
    /\ n \notin refused
    /\ IF validate_chain(n, ChainOf(n))
           THEN /\ cached' = [cached EXCEPT ![n] = height[n]]
                /\ UNCHANGED refused
           ELSE /\ refused' = refused \union {n}
                /\ UNCHANGED cached
    /\ UNCHANGED <<votes, status, today, day, suspended, ledger, height, pending,
                   paidTips, minerTips, changes>>

\* An operator suspends a wallet's access account or activates it again.
set_account_status(n, w) ==
    /\ changes < MaxChanges /\ changes' = changes + 1
    /\ suspended' = [suspended EXCEPT ![n] = SymDiff(@, {w})]
    /\ UNCHANGED <<votes, status, today, day, pending, paidTips, Chain>>

current_day_window ==
    /\ day < MaxDays /\ day' = day + 1
    /\ today' = [w \in Wallets |-> 0]
    /\ UNCHANGED <<votes, status, suspended, pending, paidTips, changes, Chain>>

add_transaction ==
    /\ paidTips < MaxTips /\ paidTips' = paidTips + 1 /\ pending' = pending + 1
    /\ UNCHANGED <<votes, status, today, day, suspended, changes, Chain>>

Next ==
    \/ \E w \in Wallets, s \in Sub, c \in Side \union {"unsure"} : cast_submission_vote(w, s, c)
    \/ \E s \in Sub : evaluate_submission(s)
    \/ \E n \in Nodes, s \in Sub : accept_block_candidate(n, s)
    \/ \E n \in Nodes : _validate_block_extends_chain(n) \/ load_blockchain(n)
    \/ \E n \in Nodes, w \in Wallets : set_account_status(n, w)
    \/ current_day_window
    \/ add_transaction

Spec == Init /\ [][Next]_vars

-----------------------------------------------------------------------------
(* Properties. *)

\* No reward identifier is paid twice in the chain, in one block or in two: the
\* planner skips settled ones and validation refuses duplicates.
PaidOnce ==
    \A i, j \in DOMAIN ledger : \A r \in ledger[i].rewards, q \in ledger[j].rewards :
        reward_id(r) = reward_id(q) => i = j /\ r = q

\* The pool of every prefix of the chain, computed again from the blocks, is
\* never overdrawn, although the candidate counted the tips before the payments.
PoolNeverShort ==
    \A i \in 0..Len(ledger) : recompute_reward_pool_balance(SubSeq(ledger, 1, i)) >= 0

\* The voters of a decision share one pool: whatever is paid for a submission in
\* all its blocks together is at most the pool of one decision.
OnePoolPerDecision ==
    \A s \in Sub :
        Amount({r \in UNION {ledger[i].rewards : i \in DOMAIN ledger} : r.sub = s})
            <= POOL_PER_DECISION

\* A creator is never paid as a voter on its own submission, and only the side
\* the decision went to is paid.
OnlyTheMajorityIsPaid ==
    \A i \in DOMAIN ledger : \A r \in ledger[i].rewards :
        /\ r.wallet # Creator[r.sub]
        /\ votes[r.sub][r.wallet] = r.side
        /\ r.side = "not_original" => status[r.sub] = "rejected"

\* Rewards a block leaves out do not fit into what the block leaves in the pool:
\* a decision waits for the next block only for want of money.
LeavesOutOnlyForWant ==
    \A n \in Nodes :
      height'[n] > height[n] /\ Len(ledger') > Len(ledger) =>
        LET b == ledger'[Len(ledger')]
            left == AfterTips(recompute_reward_pool_balance(ledger), pending)
                      - MEME_BLOCK_REWARD - Amount(b.rewards)
        IN  \A s \in Sub :
              LET group == Unsettled(build_submission_voter_reward_plan(n, s), ledger')
              IN  group # {} => Amount(group) > left
LeftOutDoesNotFit == [][LeavesOutOnlyForWant]_vars

\* A node that once accepted a block never refuses its chain afterwards, neither
\* at a restart nor when the next block arrives.
AcceptedStaysValid == \A n \in Nodes : validate_chain(n, ChainOf(n))

\* A block one node mines is accepted by the others.
NodesAgree == refused = {}

\* The pool and the miners together get exactly the tips paid.
\* The code does not keep this: README, section 5.
TipsAreSplit ==
    minerTips + recompute_reward_pool_balance(ledger)
        + MEME_BLOCK_REWARD * Len(ledger)
        + Amount(UNION {ledger[i].rewards : i \in DOMAIN ledger})
      = REWARD_POOL_SUPPLY + TipUnits * (paidTips - pending)

\* The voters of an approved submission are paid in the block that pays its
\* creator, never in the block of another one.
\* The code does not keep this: README, section 5.
ApprovedPaidAtMint ==
    \A i \in DOMAIN ledger : \A r \in ledger[i].rewards :
        r.side = "original" => r.sub = ledger[i].sub
=============================================================================
