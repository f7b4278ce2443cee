--------------------------- MODULE EligibilityPage ---------------------------
(***************************************************************************)
(* What the node tells a wallet it may do, and what it then lets it do.    *)
(*                                                                         *)
(* GET /eligibility/status derives its answer and the list of rule checks  *)
(* that explains it along one path; the vote and submission endpoints      *)
(* decide along another.  Both read the access records in the memory of    *)
(* the API, which only some requests read again from the store the         *)
(* operator's command line writes, and the reviewer policy of the          *)
(* environment, which counts the submissions a wallet voted on in the last *)
(* day.  One wallet is modelled; its two accounts are the one it is bound  *)
(* to and one whose invite session its browser may also hold.              *)
(***************************************************************************)
EXTENDS Integers, Sequences, FiniteSets

CONSTANTS
    Submissions,
    Policies,       \* the reviewer policies to start from
    Gates,          \* the access settings to start from
    EpochLimit,     \* submissions a reviewer may vote on in a review epoch
    Entries,        \* the allowlist entries an operator may create
    MaxVotes, MaxSubmitted, MaxChallenges, MaxChanges      \* bounds

Dimensions == {"originality", "admissibility"}
Accounts == {"own", "guest"}
Modes == {"open", "allowlist", "activity", "hybrid"}
Features == {"app", "submissions", "votes", "rewards"}
Metrics == {"vote_count", "submission_count", "settled_balance_zoid"}

\* The environment's reviewer policy; a limit or threshold of 0 is none.
ReviewPolicyConfig ==
    [mode : Modes, limit : Nat, allowlisted : BOOLEAN, denylisted : BOOLEAN,
     threshold : [Metrics -> Nat]]

\* Features that require access, and whether access means a bound wallet.
AccessConfig == [required : SUBSET Features, enforced : BOOLEAN, network : BOOLEAN]

EligibilityAssumption ==
    /\ \A p \in Policies : p \in ReviewPolicyConfig
    /\ Gates \subseteq AccessConfig
    /\ \A e \in Entries : e[1] \in {"wallet", "own", "guest"}
    /\ {EpochLimit, MaxVotes, MaxSubmitted, MaxChallenges, MaxChanges} \subseteq Nat

VARIABLES
    policy, gate,   \* settings of the process
    store,          \* the access records, durable
    mem,            \* the access records in the memory of the API
    signedIn,       \* whether the wallet has a verified session
    invite,         \* the account of the browser's access session, or "none"
    votes,          \* the wallet's votes, in the order of their times
    dayFrom,        \* the first vote of the last 24 hours
    epochFrom,      \* the first vote of the review epoch
    standing,       \* whether canonical reviewer policy lets the wallet vote
    challenged,     \* vote challenges the wallet holds
    submitted,      \* submissions the wallet made
    balance,        \* its settled balance
    changes

vars == <<policy, gate, store, mem, signedIn, invite, votes, dayFrom, epochFrom,
          standing, challenged, submitted, balance, changes>>
settings == <<policy, gate>>
records == <<store, mem>>
session == <<signedIn, invite>>
activity == <<submitted, balance>>
voting == <<votes, dayFrom, epochFrom, challenged>>

Init ==
    /\ policy \in Policies /\ gate \in Gates
    /\ store = [binding |-> "none", account |-> [a \in Accounts |-> "active"], entries |-> {}]
    /\ mem = store
    /\ signedIn = FALSE /\ invite = "none"
    /\ votes = <<>> /\ dayFrom = 1 /\ epochFrom = 1
    /\ standing = TRUE
    /\ challenged = {}
    /\ submitted = 0 /\ balance = 0
    /\ changes = 0

-----------------------------------------------------------------------------
(* The access decision *)

Covering(scope) ==
    CASE scope = "access" -> {"access", "all_beta"}
      [] scope = "review" -> {"review", "all_beta"}
      [] OTHER -> {scope, "review", "all_beta"}

\* An active allowlist entry of these subjects for this scope.
Listed(acc, scope, subjects) ==
    \E e \in acc.entries : e[1] \in subjects /\ e[2] \in Covering(scope)

\* The account is found through the wallet's binding, a revoked one too.
Bound(acc) == acc.binding # "none"
HardBlocked(acc) == acc.binding = "revoked" \/ (Bound(acc) /\ acc.account["own"] # "active")
Subjects(acc) == {"wallet"} \cup {a \in {"own"} : Bound(acc)}

Gated(feature) == feature \in gate.required /\ gate.enforced

access_decision_for_wallet(acc, feature) ==
    Gated(feature) =>
        /\ ~HardBlocked(acc)
        /\ acc.binding = "active" \/ Listed(acc, "access", Subjects(acc))

-----------------------------------------------------------------------------
(* The reviewer policy of the environment *)

VotedSince(from) == {votes[i].submission : i \in from .. Len(votes)}

count_votes_by_wallet_since == Cardinality(VotedSince(dayFrom))

ActivitySummary ==
    [vote_count |-> Cardinality(VotedSince(1)), submission_count |-> submitted,
     settled_balance_zoid |-> balance]

\* The configured thresholds the wallet reaches; one of them is enough.
MetThresholds ==
    {m \in Metrics : policy.threshold[m] > 0 /\ ActivitySummary[m] >= policy.threshold[m]}

LimitReached == policy.limit > 0 /\ count_votes_by_wallet_since >= policy.limit

evaluate_review_eligibility ==
    IF policy.denylisted THEN "wallet_denylisted"
    ELSE IF LimitReached THEN "daily_vote_limit_reached"
    ELSE IF \/ policy.mode = "open"
            \/ policy.mode \in {"allowlist", "hybrid"} /\ policy.allowlisted
            \/ policy.mode \in {"activity", "hybrid"} /\ MetThresholds # {}
         THEN "eligible"
         ELSE "not_qualified"

\* An account's block outranks everything, an operator's override the policy.
_review_eligibility_for_wallet(acc, scope) ==
    IF HardBlocked(acc) THEN "hard_block"
    ELSE IF Listed(acc, scope, Subjects(acc)) THEN "allowlist_override"
    ELSE evaluate_review_eligibility

Eligible(reason) == reason \in {"eligible", "allowlist_override"}

VotedOther(s, d, from) ==
    \E i \in from .. Len(votes) : votes[i].submission = s /\ votes[i].dimension # d

\* The second dimension of a submission answered today is not held back.
SameDay(s, d) == VotedOther(s, d, dayFrom)

\* The canonical decision for a vote now.
Canonical(s, d) ==
    standing /\ (Cardinality(VotedSince(epochFrom)) < EpochLimit \/ VotedOther(s, d, epochFrom))

_enforce_review_policy(acc, s, d) ==
    LET reason == _review_eligibility_for_wallet(acc, "voting")
    IN /\ Eligible(reason) \/ (reason = "daily_vote_limit_reached" /\ SameDay(s, d))
       /\ gate.network => Canonical(s, d)

\* A vote request that reads the access records acc passes.
VotePasses(acc, s, d) ==
    access_decision_for_wallet(acc, "votes") /\ _enforce_review_policy(acc, s, d)

-----------------------------------------------------------------------------
(* GET /eligibility/status *)

\* The request reads binding, account and access decision from memory; with an
\* access session it then reads the records again, for all the rest.
Reread == IF invite = "none" THEN mem ELSE store

SessionEntry ==
    /\ invite # "none"
    /\ Reread.account[invite] = "active"
    /\ Listed(Reread, "access", {invite})

WalletBound == signedIn /\ mem.binding = "active" /\ mem.account["own"] = "active"

access_granted ==
    WalletBound \/ (signedIn /\ access_decision_for_wallet(mem, "app")) \/ SessionEntry

\* The required checks of the access section: [rule, passed].
AccessChecks ==
    LET account == IF signedIn /\ Bound(mem) THEN mem.account["own"]
                   ELSE IF invite # "none" THEN Reread.account[invite] ELSE "active"
    IN {<<"wallet_verified", signedIn>>,
        <<"wallet_binding_not_revoked", ~(signedIn /\ mem.binding = "revoked")>>,
        <<"access_account_active", account = "active">>}
       \cup {<<"access_approval_path", access_granted>> : x \in {"app"} \cap gate.required}

DecisionOfRewards(scope) ==
    _review_eligibility_for_wallet(Reread, IF scope = "voting" THEN "rewards" ELSE scope)

PageDecision(scope) == _review_eligibility_for_wallet(Reread, scope)

can_vote ==
    /\ signedIn /\ Eligible(PageDecision("voting"))
    /\ access_granted \/ "votes" \notin gate.required

LimitCheck(scope) ==
    {<<"voting_daily_limit", count_votes_by_wallet_since < policy.limit>>
        : x \in {s \in {"voting"} : s = scope /\ policy.limit > 0}}

\* The checks of the configured mode that are required.
ModeChecks(scope) ==
    LET override == Listed(Reread, scope, Subjects(Reread))
        passed == CASE policy.mode = "allowlist" -> policy.allowlisted \/ override
                    [] policy.mode = "activity" ->
                         Eligible(PageDecision(scope)) \/ MetThresholds # {}
                    [] policy.mode = "hybrid" ->
                         override \/ policy.allowlisted \/ MetThresholds # {}
                    [] OTHER -> TRUE
    IN {<<policy.mode, passed>>}

\* The required checks of a review section but its last, the decision itself.
ReviewChecks(scope) ==
    {<<"wallet_binding_not_revoked", Reread.binding # "revoked">>,
     <<"access_account_active", ~Bound(Reread) \/ Reread.account["own"] = "active">>,
     <<"denylist_check", ~policy.denylisted>>}
    \cup LimitCheck(scope) \cup ModeChecks(scope)

AllPass(checks) == \A c \in checks : c[2]

-----------------------------------------------------------------------------
(* Requests of the wallet *)

\* A session opens with a verified signature, and ends at its expiry or logout.
WalletSession ==
    /\ signedIn' = ~signedIn
    /\ challenged' = {}
    /\ UNCHANGED <<settings, records, invite, votes, dayFrom, epochFrom, standing, activity, changes>>

login_with_access_code(a) ==
    /\ invite = "none" /\ store.account[a] = "active"
    /\ invite' = a
    /\ mem' = store
    /\ UNCHANGED <<settings, store, signedIn, voting, standing, activity, changes>>

AccessSessionEnds ==
    /\ invite # "none" /\ invite' = "none"
    /\ UNCHANGED <<settings, records, signedIn, voting, standing, activity, changes>>

\* The status pages only read, but may refresh the memory of the API.
get_access_me ==
    /\ mem' = store
    /\ UNCHANGED <<settings, store, session, voting, standing, activity, changes>>

get_eligibility_status ==
    /\ mem' = Reread
    /\ UNCHANGED <<settings, store, session, voting, standing, activity, changes>>

\* The page and the submission requests share this decision; the requests take
\* it from memory as it is.
_submission_eligibility_for_wallet(acc) ==
    signedIn /\ access_decision_for_wallet(acc, "submissions")

submit_content ==
    /\ submitted < MaxSubmitted
    /\ _submission_eligibility_for_wallet(mem)
    /\ submitted' = submitted + 1
    /\ UNCHANGED <<settings, records, session, voting, standing, balance, changes>>

Voted(s, d) == \E i \in DOMAIN votes : votes[i].submission = s /\ votes[i].dimension = d

create_wallet_vote_challenge(s, d) ==
    /\ signedIn /\ ~Voted(s, d) /\ Cardinality(challenged) < MaxChallenges
    /\ VotePasses(store, s, d)
    /\ mem' = store
    /\ challenged' = challenged \cup {<<s, d>>}
    /\ UNCHANGED <<settings, store, session, votes, dayFrom, epochFrom, standing, activity, changes>>

\* opens: the vote begins the wallet's day on s, and no override let it pass.
Cast(s, d, local) ==
    votes' = Append(votes, [submission |-> s, dimension |-> d, local |-> local,
        opens |-> /\ local /\ s \notin VotedSince(dayFrom)
                  /\ ~Listed(store, "voting", Subjects(store))])

vote_on_submission(s, d) ==
    /\ <<s, d>> \in challenged /\ ~Voted(s, d) /\ Len(votes) < MaxVotes
    /\ signedIn /\ VotePasses(store, s, d)
    /\ mem' = store
    /\ Cast(s, d, TRUE)
    /\ challenged' = challenged \ {<<s, d>>}
    /\ UNCHANGED <<settings, store, session, dayFrom, epochFrom, standing, activity, changes>>

-----------------------------------------------------------------------------
(* The surroundings *)

\* A vote the wallet cast on another node, which has its own local settings.
receive_peer_vote(s, d) ==
    /\ ~Voted(s, d) /\ Len(votes) < MaxVotes
    /\ gate.network => Canonical(s, d)
    /\ Cast(s, d, FALSE)
    /\ UNCHANGED <<settings, records, session, dayFrom, epochFrom, challenged, standing, activity, changes>>

\* The oldest vote of the window becomes more than 24 hours old.
TimePasses ==
    /\ dayFrom <= Len(votes) /\ dayFrom' = dayFrom + 1
    /\ UNCHANGED <<settings, records, session, votes, epochFrom, challenged, standing, activity, changes>>

\* Blocks are finalized: another review epoch, another standing.
EpochPasses ==
    /\ changes < MaxChanges /\ changes' = changes + 1
    /\ epochFrom' = Len(votes) + 1
    /\ standing' \in BOOLEAN
    /\ UNCHANGED <<settings, records, session, votes, dayFrom, challenged, activity>>

BalanceChanges ==
    /\ changes < MaxChanges /\ changes' = changes + 1
    /\ balance' = 1 - balance
    /\ UNCHANGED <<settings, records, session, voting, standing, submitted>>

\* An operation on the access records: the API rereads the store and saves
\* both, the command line writes the store behind the API's back.
Administer(new, api) ==
    /\ changes < MaxChanges /\ changes' = changes + 1
    /\ new # store
    /\ store' = new
    /\ mem' = IF api THEN new ELSE mem
    /\ UNCHANGED <<settings, session, voting, standing, activity>>

bind_access_wallet ==
    /\ signedIn /\ invite = "own" /\ store.account["own"] = "active"
    /\ Administer([store EXCEPT !.binding = "active"], TRUE)

revoke_wallet_binding(api) ==
    Bound(store) /\ Administer([store EXCEPT !.binding = "revoked"], api)

update_access_account_status(a, status, api) ==
    Administer([store EXCEPT !.account[a] = status], api)

update_allowlist(e, api) ==
    \/ Administer([store EXCEPT !.entries = @ \cup {e}], api)
    \/ Administer([store EXCEPT !.entries = @ \ {e}], api)

Next ==
    \/ WalletSession \/ AccessSessionEnds \/ get_access_me \/ get_eligibility_status
    \/ submit_content
    \/ \E a \in Accounts : login_with_access_code(a)
    \/ \E s \in Submissions, d \in Dimensions :
          \/ create_wallet_vote_challenge(s, d)
          \/ vote_on_submission(s, d)
          \/ receive_peer_vote(s, d)
    \/ TimePasses \/ EpochPasses \/ BalanceChanges
    \/ bind_access_wallet
    \/ \E api \in BOOLEAN :
          \/ revoke_wallet_binding(api)
          \/ \E a \in Accounts, status \in {"active", "suspended"} :
                update_access_account_status(a, status, api)
          \/ \E e \in Entries : update_allowlist(e, api)

Spec == Init /\ [][Next]_vars

-----------------------------------------------------------------------------
(* Properties *)

\* Every variable has its type, and the windows end with the votes.
TypeOK ==
    /\ policy \in Policies /\ gate \in Gates
    /\ {store, mem} \subseteq [binding : {"none", "active", "revoked"},
                               account : [Accounts -> {"active", "suspended"}],
                               entries : SUBSET Entries]
    /\ signedIn \in BOOLEAN /\ invite \in Accounts \cup {"none"}
    /\ \A i \in DOMAIN votes : votes[i] \in
          [submission : Submissions, dimension : Dimensions, local : BOOLEAN, opens : BOOLEAN]
    /\ dayFrom \in 1 .. Len(votes) + 1 /\ epochFrom \in 1 .. Len(votes) + 1
    /\ standing \in BOOLEAN /\ balance \in 0 .. 1 /\ submitted \in 0 .. MaxSubmitted
    /\ challenged \subseteq Submissions \X Dimensions

NewSubmission(s) == \A d \in Dimensions : ~Voted(s, d)

\* When the page, read from current records, says that the wallet can vote,
\* a vote on a new submission passes; the exceptions are the canonical
\* policy, which the page leaves out, votes gated where the app is not, and
\* a browser that holds the access session of an allowlisted account.
PromisedVotesPass ==
    can_vote /\ mem = store =>
        \A s \in Submissions : NewSubmission(s) =>
            \/ VotePasses(store, s, "originality")
            \/ gate.network /\ ~Canonical(s, "originality")
            \/ Gated("votes") /\ (~Gated("app") \/ SessionEntry)

\* A vote on a new submission that would pass is one the page, read from
\* current records, tells the wallet it can cast.
PassingVotesAreShown ==
    signedIn /\ mem = store =>
        \A s \in Submissions : \A d \in Dimensions :
            NewSubmission(s) /\ VotePasses(store, s, d) => can_vote

\* The rule checks explain the decision on voting: without an override, the
\* wallet is eligible exactly when every other required check passes, and a
\* refusal always shows a failed one.
ChecksExplainVoting ==
    signedIn =>
        LET decision == PageDecision("voting")
        IN /\ AllPass(ReviewChecks("voting")) => Eligible(decision)
           /\ decision # "allowlist_override" /\ Eligible(decision) =>
                 AllPass(ReviewChecks("voting"))

\* Within 24 hours, a wallet without an override begins voting on this node on
\* no more submissions than the daily limit, however its votes here and on
\* other nodes, on one dimension and on the other, follow one another.
DailyLimitHolds ==
    policy.limit > 0 =>
        Cardinality({i \in dayFrom .. Len(votes) : votes[i].opens}) <= policy.limit

\* On a network node no local setting, override or second dimension carries
\* the wallet past the canonical number of submissions of a review epoch.
EpochLimitHolds ==
    gate.network => Cardinality(VotedSince(epochFrom)) <= EpochLimit

\* Denylist always wins (docs/milestone-5-task-5.1-current-state-audit.md).
\* The code does not keep this: README, section 5.
DenylistWins ==
    policy.denylisted =>
        \A s \in Submissions, d \in Dimensions : ~VotePasses(store, s, d)

\* A signed vote whose answer was lost may be sent again at once and is
\* answered like the first time (tests/api/test_review_policy_api.py).
\* The code does not keep this: README, section 5.
RetryIsAnswered ==
    votes # <<>> /\ signedIn /\ votes[Len(votes)].local =>
        VotePasses(store, votes[Len(votes)].submission, votes[Len(votes)].dimension)

\* A suspended account or revoked binding makes no submission where access is
\* required for submissions (docs/task-11-1-admin-allowlist-override-requests.md).
\* The code does not keep this: README, section 5.
SuspendedSubmitNothing ==
    [][submitted' # submitted /\ Gated("submissions") => ~HardBlocked(store)]_vars

\* Where the app is gated, access is granted only when the access checks that
\* the page shows as required pass.
\* The code does not keep this: README, section 5.
GrantedPassesChecks ==
    Gated("app") /\ signedIn /\ mem = store /\ access_granted => AllPass(AccessChecks)
=============================================================================
