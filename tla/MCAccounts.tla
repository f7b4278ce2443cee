---------------------------- MODULE MCAccounts -----------------------------
(***************************************************************************)
(* Small instances of what stands between a wallet and the node: its       *)
(* challenges and sessions, its access account, the page that says what it *)
(* may do, and the transfers it submits. A behaviour explores one instance *)
(* of one of them.                                                         *)
(***************************************************************************)
EXTENDS SingleUse, PaymentRecords, Integers, Sequences, FiniteSets, TLC

CONSTANTS
    w1, w2, s1, s2

VARIABLES
    scenario,   \* the instance a behaviour explores
    \* WalletSessions
    clock, items, dict, worker, answer, loggedOut, restarts,
    \* AccessControl
    store, mem, phase, minted, sessions, granted, handed, last, failures,
    \* EligibilityPage
    policy, gate, signedIn, invite, votes, dayFrom, epochFrom, standing,
    challenged, submitted, balance, changes,
    \* TransferSubmission
    payment, client, challenges, issued, flight, others, refused

Policy(mode, limit, allowlisted, denylisted, coins, counts) ==
    [mode |-> mode, limit |-> limit, allowlisted |-> allowlisted, denylisted |-> denylisted,
     threshold |-> [vote_count |-> 2 * counts, submission_count |-> counts,
                    settled_balance_zoid |-> coins]]

\* Every mode, with allowlist and without, with a threshold of the balance and
\* without; and the wallet denylisted where all the rest would let it vote.
PagePolicies ==
    {Policy(mode, 1, listed, FALSE, 1, 0) :
        mode \in {"open", "allowlist", "activity", "hybrid"}, listed \in BOOLEAN}
    \cup {Policy("activity", 1, FALSE, FALSE, 0, 0), Policy("hybrid", 0, TRUE, TRUE, 0, 0)}
CountPolicies == {Policy("open", 1, FALSE, FALSE, 0, 0), Policy("activity", 1, FALSE, FALSE, 0, 1)}

Gate(required, enforced, network) ==
    [required |-> required, enforced |-> enforced, network |-> network]
PageGates ==
    {Gate({"app"}, TRUE, FALSE), Gate({"votes"}, TRUE, FALSE), Gate({"app", "votes"}, TRUE, TRUE)}

Typed(amount, fee, blanks, capitals) ==
    [amount |-> amount, fee |-> fee,
     memo |-> [text |-> "rent", blanks |-> blanks],
     to |-> [who |-> "landlord", capitals |-> capitals]]

\* 1.5, typed in two ways; a payment with a fee; one with more digits than the
\* decimal context of four digits keeps; a round amount.
Plain   == {Typed(<<15, 1>>, <<0, 0>>, FALSE, FALSE), Typed(<<150, 2>>, <<0, 1>>, TRUE, TRUE)}
WithFee == {Typed(<<1, 0>>, <<5, 1>>, FALSE, TRUE)}
Long    == {Typed(<<12345, 0>>, <<0, 0>>, TRUE, FALSE)}
Round   == {Typed(<<10, 0>>, <<0, 0>>, FALSE, FALSE)}
LaterEdits == {Typed(<<12340, 0>>, <<0, 0>>, FALSE, FALSE), Typed(<<2, 0>>, <<0, 0>>, FALSE, FALSE)}

\* Values of the constants that all scenarios share.
MaxWallets == 1
MaxSessions == 1
EpochLimit == 1
Precision == 4
MaxPlaces == 2
Ttl == 1
MaxOthers == 1

\* A worker thread prunes and resolves while the event loop issues, uses and
\* drops.
Threads == INSTANCE WalletSessions WITH
    Wallets <- {w1}, Workers <- {"h1"},
    WalletDicts <- <<"login", "session", "vote">>, ChallengeTtl <- 1,
    SessionTtl <- 1, MaxItems <- 3, MaxClock <- 1, MaxRestarts <- 0
\* The event loop alone, every operation of which is one step.
Loop == INSTANCE WalletSessions WITH
    Wallets <- {w1, w2}, Workers <- {},
    WalletDicts <- <<"login", "session", "vote", "report">>, ChallengeTtl <- 2,
    SessionTtl <- 2, MaxItems <- 2, MaxClock <- 2, MaxRestarts <- 1
\* One process: a request, two accounts, saves that fail.
Access == INSTANCE AccessControl WITH
    Procs <- {"api"}, Requests <- {"r1"}, Wallets <- {w1}, MaxAccounts <- 2,
    MaxEntries <- 0, MaxFailures <- 1
\* The API and the command line change the records at once; reads fail.
Both == INSTANCE AccessControl WITH
    Procs <- {"api", "cli"}, Requests <- {}, Wallets <- {w1}, MaxAccounts <- 1,
    MaxEntries <- 0, MaxFailures <- 1
\* Operator overrides of two wallets that share an account.
Allow == INSTANCE AccessControl WITH
    Procs <- {"api"}, Requests <- {}, Wallets <- {w1, w2}, MaxAccounts <- 1,
    MaxEntries <- 1, MaxFailures <- 0
\* Every policy and gate, and what the page says under it.
Page == INSTANCE EligibilityPage WITH
    Submissions <- {s1}, Policies <- PagePolicies, Gates <- PageGates,
    Entries <- {<<"wallet", "voting">>, <<"wallet", "rewards">>, <<"guest", "all_beta">>},
    MaxVotes <- 1, MaxSubmitted <- 0, MaxChallenges <- 1, MaxChanges <- 2
\* Votes of several days and epochs, here and on other nodes.
Quota == INSTANCE EligibilityPage WITH
    Submissions <- {s1, s2}, Policies <- CountPolicies,
    Gates <- {Gate({}, FALSE, n) : n \in BOOLEAN},
    Entries <- {<<"wallet", "voting">>}, MaxVotes <- 3, MaxSubmitted <- 1,
    MaxChallenges <- 1, MaxChanges <- 1
\* Answers and requests are lost, late and repeated; the store fails.
Retry == INSTANCE TransferSubmission WITH
    Payments <- {{Typed(<<150, 2>>, <<0, 1>>, TRUE, TRUE)}}, Edits <- {},
    Funds <- 2, MaxChallenges <- 2, MaxFlight <- 2, MaxClock <- 1
\* The texts of a payment on their way from the form to a block.
AsTyped == INSTANCE TransferSubmission WITH
    Payments <- {Plain, WithFee, Long, Round}, Edits <- LaterEdits, Funds <- 12,
    MaxChallenges <- 1, MaxFlight <- 1, MaxClock <- 1

ASSUME ThreadsAssumption == Threads!SessionAssumption
ASSUME LoopAssumption == Loop!SessionAssumption
ASSUME AccessAssumption == Access!AccessAssumption
ASSUME BothAssumption == Both!AccessAssumption
ASSUME AllowAssumption == Allow!AccessAssumption
ASSUME PageAssumption == Page!EligibilityAssumption
ASSUME QuotaAssumption == Quota!EligibilityAssumption
ASSUME RetryAssumption == Retry!TransferAssumption
ASSUME AsTypedAssumption == AsTyped!TransferAssumption

\* The state of the components a scenario leaves out.
Off == "off"
OnlyWalletSessions ==
    /\ store = Off /\ mem = Off /\ phase = Off /\ minted = Off /\ sessions = Off
    /\ granted = Off /\ handed = Off /\ last = Off /\ failures = Off
    /\ policy = Off /\ gate = Off /\ signedIn = Off /\ invite = Off
    /\ votes = Off /\ dayFrom = Off /\ epochFrom = Off /\ standing = Off
    /\ challenged = Off /\ submitted = Off /\ balance = Off /\ changes = Off
    /\ payment = Off /\ client = Off /\ challenges = Off /\ issued = Off
    /\ flight = Off /\ records = <<>> /\ others = Off /\ refused = Off
OnlyAccessControl ==
    /\ clock = Off /\ items = Off /\ dict = Off /\ worker = Off /\ answer = Off
    /\ accepted = <<>> /\ loggedOut = Off /\ restarts = Off /\ policy = Off
    /\ gate = Off /\ signedIn = Off /\ invite = Off /\ votes = Off
    /\ dayFrom = Off /\ epochFrom = Off /\ standing = Off /\ challenged = Off
    /\ submitted = Off /\ balance = Off /\ changes = Off /\ payment = Off
    /\ client = Off /\ challenges = Off /\ issued = Off /\ flight = Off
    /\ records = <<>> /\ others = Off /\ refused = Off
OnlyEligibilityPage ==
    /\ clock = Off /\ items = Off /\ dict = Off /\ worker = Off /\ answer = Off
    /\ accepted = <<>> /\ loggedOut = Off /\ restarts = Off /\ phase = Off
    /\ minted = Off /\ sessions = Off /\ granted = Off /\ handed = Off
    /\ last = Off /\ failures = Off /\ payment = Off /\ client = Off
    /\ challenges = Off /\ issued = Off /\ flight = Off /\ records = <<>>
    /\ others = Off /\ refused = Off
OnlyTransferSubmission ==
    /\ items = Off /\ dict = Off /\ worker = Off /\ answer = Off
    /\ accepted = <<>> /\ loggedOut = Off /\ restarts = Off /\ store = Off
    /\ mem = Off /\ phase = Off /\ minted = Off /\ sessions = Off
    /\ granted = Off /\ handed = Off /\ last = Off /\ failures = Off
    /\ policy = Off /\ gate = Off /\ signedIn = Off /\ invite = Off
    /\ votes = Off /\ dayFrom = Off /\ epochFrom = Off /\ standing = Off
    /\ challenged = Off /\ submitted = Off /\ balance = Off /\ changes = Off
othersWalletSessions ==
    <<scenario, store, mem, phase, minted, sessions, granted, handed, last, failures,
      policy, gate, signedIn, invite, votes, dayFrom, epochFrom, standing,
      challenged, submitted, balance, changes, payment, client, challenges,
      issued, flight, records, others, refused>>
othersAccessControl ==
    <<scenario, clock, items, dict, worker, answer, accepted, loggedOut, restarts, policy,
      gate, signedIn, invite, votes, dayFrom, epochFrom, standing, challenged,
      submitted, balance, changes, payment, client, challenges, issued, flight,
      records, others, refused>>
othersEligibilityPage ==
    <<scenario, clock, items, dict, worker, answer, accepted, loggedOut, restarts, phase,
      minted, sessions, granted, handed, last, failures, payment, client,
      challenges, issued, flight, records, others, refused>>
othersTransferSubmission ==
    <<scenario, items, dict, worker, answer, accepted, loggedOut, restarts, store, mem,
      phase, minted, sessions, granted, handed, last, failures, policy, gate,
      signedIn, invite, votes, dayFrom, epochFrom, standing, challenged,
      submitted, balance, changes>>

vars ==
    <<scenario, clock, items, dict, worker, answer, accepted, loggedOut, restarts, store,
      mem, phase, minted, sessions, granted, handed, last, failures, policy,
      gate, signedIn, invite, votes, dayFrom, epochFrom, standing, challenged,
      submitted, balance, changes, payment, client, challenges, issued, flight,
      records, others, refused>>

Init ==
    \/ scenario = "threads" /\ Threads!Init /\ OnlyWalletSessions
    \/ scenario = "loop" /\ Loop!Init /\ OnlyWalletSessions
    \/ scenario = "access" /\ Access!Init /\ OnlyAccessControl
    \/ scenario = "both" /\ Both!Init /\ OnlyAccessControl
    \/ scenario = "allow" /\ Allow!Init /\ OnlyAccessControl
    \/ scenario = "page" /\ Page!Init /\ OnlyEligibilityPage
    \/ scenario = "quota" /\ Quota!Init /\ OnlyEligibilityPage
    \/ scenario = "retry" /\ Retry!Init /\ OnlyTransferSubmission
    \/ scenario = "texts" /\ AsTyped!Init /\ OnlyTransferSubmission

Next ==
    \/ scenario = "threads" /\ Threads!Next /\ UNCHANGED othersWalletSessions
    \/ scenario = "loop" /\ Loop!Next /\ UNCHANGED othersWalletSessions
    \/ scenario = "access" /\ Access!Next /\ UNCHANGED othersAccessControl
    \/ scenario = "both" /\ Both!Next /\ UNCHANGED othersAccessControl
    \/ scenario = "allow" /\ Allow!Next /\ UNCHANGED othersAccessControl
    \/ scenario = "page" /\ Page!Next /\ UNCHANGED othersEligibilityPage
    \/ scenario = "quota" /\ Quota!Next /\ UNCHANGED othersEligibilityPage
    \/ scenario = "retry" /\ Retry!Next /\ UNCHANGED othersTransferSubmission
    \/ scenario = "texts" /\ AsTyped!Next /\ UNCHANGED othersTransferSubmission

Spec == Init /\ [][Next]_vars

WalletSymmetry == Permutations({w1, w2}) \cup Permutations({s1, s2})

-----------------------------------------------------------------------------
(* Properties *)

\* Dictionaries, access records, policies and stored transfers stay well formed.
TypeOK ==
    /\ scenario = "threads" => Threads!TypeOK
    /\ scenario = "access" => Access!TypeOK
    /\ scenario = "page" => Page!TypeOK
    /\ scenario = "retry" => Retry!TypeOK

\* A token is accepted only before its expiry.
ResolvesOnlyLive ==
    [][scenario = "threads" => Threads!ResolvesLive]_vars

\* On the event loop, a request that arrives after the logout of its session is
\* refused.
LogoutSticks == scenario = "loop" => Loop!LogoutSticks

\* On the event loop, what was issued and is neither used, replaced, logged out
\* nor expired is found.
IssuedIsFound == scenario = "loop" => Loop!IssuedIsFound

\* A signature is accepted only within the lifetime of its challenge.
VerifiesOnlyLive ==
    [][scenario = "loop" => Loop!VerifiesLive]_vars

\* The wallets an account lists are the active bindings to it.
BindingsAgree == scenario = "access" => Access!BindingsAgree

\* An invite code an operator received belongs to a stored account, whatever save
\* failed.
HandedCodesExist == scenario = "access" => Access!HandedCodesExist

\* A redeemed invite code neither comes back nor yields another session.
RedeemedStaysRedeemed ==
    [][scenario = "access" => Access!KeepsRedeemed]_vars

\* Only an operator ends the suspension of an account, but for a save of the
\* process that has not read it yet; what both have read stays.
SuspensionSticks ==
    [][scenario = "both" => Both!KeepsSuspensions]_vars

\* No override admits a wallet with a revoked binding or a suspended account.
RevokedIsDenied == scenario = "allow" => Allow!RevokedIsDenied

\* A vote that the page promises passes, but for what the page leaves out.
PromisedVotesPass == scenario = "page" => Page!PromisedVotesPass

\* A vote on a new submission that would pass is one the page offers.
PassingVotesAreShown == scenario = "page" => Page!PassingVotesAreShown

\* The rule checks of the page explain its decision on voting.
ChecksExplainVoting == scenario = "page" => Page!ChecksExplainVoting

\* The daily limit holds over both dimensions and all nodes.
DailyLimitHolds == scenario = "quota" => Quota!DailyLimitHolds

\* No local setting carries a wallet past the canonical limit of a review epoch.
EpochLimitHolds == scenario = "quota" => Quota!EpochLimitHolds

\* A message that was refused never gets into the store, not even by a late copy.
RefusedIsUnrecorded == scenario = "retry" => Retry!RefusedIsUnrecorded

\* What is recorded is what the owner typed.
TypedIsRecorded == scenario = "texts" => AsTyped!TypedIsRecorded

\* No hop refuses what the hop before it made of the typed texts.
HopsAgree == scenario = "texts" => AsTyped!HopsAgree

=============================================================================
