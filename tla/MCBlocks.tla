----------------------------- MODULE MCBlocks ------------------------------
(***************************************************************************)
(* Small instances of what decides about blocks: the mint queue and the    *)
(* pages that show it, the evidence that branches bind, and the messages   *)
(* of peers. A behaviour explores one instance of one of them. The         *)
(* constants of MintEvidence say what the stored document has to promise   *)
(* in each.                                                                *)
(***************************************************************************)
EXTENDS MintEvidence, ReplayProtection, Integers, TLC

CONSTANTS
    f1, f2, None

VARIABLES
    scenario,   \* the instance a behaviour explores
    \* LifecyclePage
    mem, retry, bytes, disturbed,
    \* BranchEvidence
    disk, last,
    \* PeerMessages
    clock, out, raised, main, backup, active, job, stored, answer

\* s1 comes before s2 in the queue; both are by w2, who is a reviewer too.
InOrder(subs) == [s \in subs |-> IF s = "s1" THEN 2 ELSE 1]
ByW2(subs) == [s \in subs |-> "w2"]

\* Two branches that certify two submissions differently; the node follows
\* g - b1 - a1 - a2 - b2 - b3 in the order of fork choice.
Cert(s, e, r, n) == [sub |-> s, ev |-> e, ref |-> r, by |-> n]
TreeParent == [a1 |-> "g", a2 |-> "a1", b1 |-> "g", b2 |-> "b1", b3 |-> "b2"]
TreeRank == [g |-> 0, b1 |-> 1, a1 |-> 2, a2 |-> 3, b2 |-> 4, b3 |-> 5]
TreePays == [b \in DOMAIN TreeRank |->
               CASE b = "a2" -> Cert("t", "a1", "a1", "here")
                 [] b = "b2" -> Cert("s", "g", "g", "peer")
                 [] b = "b3" -> Cert("t", "b2", "b2", "peer")
                 [] OTHER -> None]
TreeCerts == {Cert("s", "g", "a1", "here"), Cert("s", "g", "g", "peer"),
              Cert("t", "a1", "a1", "here"), Cert("t", "a1", "a2", "here"),
              Cert("t", "g", "a2", "here"), Cert("t", "b2", "b2", "peer")}

\* Values of the constants that all scenarios share.
ActivationHeight == 2
ConfirmationDepth == 1
Objects == {"o1"}
Window == 1

\* Reports and disputes of one submission at two facades, the author among the
\* reporters.
Reports == INSTANCE LifecyclePage WITH
    Facades <- {f1, f2}, Submissions <- {"s1"}, Reporters <- {"w1", "w2", "w3"},
    Established <- {"w1"}, MinReports <- 2, Legacy <- {},
    Rank <- InOrder({"s1"}), Creator <- ByW2({"s1"}), MaxRetries <- 1,
    Disturbances <- 1
\* A legacy submission and a reviewed one around the activation height, at one
\* facade.
Mixed == INSTANCE LifecyclePage WITH
    Facades <- {"f"}, Submissions <- {"s1", "s2"}, Reporters <- {"w1", "w3"},
    Established <- {"w1"}, MinReports <- 2, Legacy <- {"s1"},
    Rank <- InOrder({"s1", "s2"}), Creator <- ByW2({"s1", "s2"}),
    MaxRetries <- 1, Disturbances <- 1
\* Each of two reports warns of the minted submission.
Warned == INSTANCE LifecyclePage WITH
    Facades <- {f1, f2}, Submissions <- {"s1"}, Reporters <- {"w1", "w3"},
    Established <- {"w1"}, MinReports <- 1, Legacy <- {},
    Rank <- InOrder({"s1"}), Creator <- ByW2({"s1"}), MaxRetries <- 0,
    Disturbances <- 1
\* Two facades mint the whole queue while peers finalize and reorganise.
Chain == INSTANCE LifecyclePage WITH
    Facades <- {f1, f2}, Submissions <- {"s1", "s2"}, Reporters <- {},
    Established <- {}, MinReports <- 2, Legacy <- {},
    Rank <- InOrder({"s1", "s2"}), Creator <- ByW2({"s1", "s2"}),
    MaxRetries <- 0, Disturbances <- 0
\* A node certifies on one branch, its peers on the other, better one.
Branches == INSTANCE BranchEvidence WITH
    Blocks <- DOMAIN TreeRank, Genesis <- "g", Parent <- TreeParent,
    Rank <- TreeRank, Subs <- {"s", "t"}, Media <- [s |-> "s", t |-> "t"],
    Certs <- TreeCerts, Pays <- TreePays,
    SubmitAt <- {"g", "a1", "a2", "b1", "b2"}, PeerMoves <- FALSE
\* The same node and peers that may change branch between two answers.
Moved == INSTANCE BranchEvidence WITH
    Blocks <- DOMAIN TreeRank, Genesis <- "g", Parent <- TreeParent,
    Rank <- TreeRank, Subs <- {"s", "t"}, Media <- [s |-> "s", t |-> "t"],
    Certs <- TreeCerts, Pays <- TreePays,
    SubmitAt <- {"g", "a1", "a2", "b1", "b2"}, PeerMoves <- TRUE
\* Two signed requests, the network repeats them, the receiver crashes twice.
Replay == INSTANCE PeerMessages WITH
    Nodes <- {"near", "fast"}, Published <- {"register", "vote"},
    SignedMode <- TRUE, Skew <- [near |-> 0, fast |-> 1], Faults <- {"crash"},
    MaxClock <- 3, MaxMessages <- 2, MaxFaults <- 1
\* The replay file is damaged once.
Repair == INSTANCE PeerMessages WITH
    Nodes <- {"near", "fast"}, Published <- {"register", "report"},
    SignedMode <- TRUE, Skew <- [near |-> 0, fast |-> 1], Faults <- {"corrupt"},
    MaxClock <- 3, MaxMessages <- 2, MaxFaults <- 1
\* A block goes out behind its certificate and its evidence, without signatures.
Legs == INSTANCE PeerMessages WITH
    Nodes <- {"fast"}, Published <- {"register", "block"}, SignedMode <- FALSE,
    Skew <- [fast |-> 1], Faults <- {"crash"}, MaxClock <- 0, MaxMessages <- 4,
    MaxFaults <- 0

ASSUME ReportsAssumption == Reports!PolicyAssumption
ASSUME MixedAssumption == Mixed!PolicyAssumption
ASSUME WarnedAssumption == Warned!PolicyAssumption
ASSUME ChainAssumption == Chain!PolicyAssumption
ASSUME ConfirmationAssumption == Chain!DepthAssumption
ASSUME ReplayAssumption == Replay!PeerAssumption
ASSUME RepairAssumption == Repair!PeerAssumption
ASSUME LegsAssumption == Legs!PeerAssumption

\* The state of the components a scenario leaves out; its document is empty.
Off == "off"
NoDocument == [sub |-> <<>>, queue |-> {}, chain |-> <<>>, final |-> 0, disputes |-> {}]
OnlyLifecyclePage ==
    /\ disk = Off /\ last = Off /\ clock = Off /\ sent = {} /\ out = Off
    /\ raised = Off /\ main = Off /\ backup = Off /\ active = Off /\ job = Off
    /\ stored = Off /\ handled = Off /\ answer = Off /\ faults = Off
OnlyBranchEvidence ==
    /\ durable = NoDocument /\ retry = Off /\ bytes = Off /\ disturbed = Off
    /\ clock = Off /\ sent = {} /\ out = Off /\ raised = Off /\ main = Off
    /\ backup = Off /\ active = Off /\ job = Off /\ stored = Off /\ handled = Off
    /\ answer = Off /\ faults = Off
OnlyPeerMessages ==
    /\ durable = NoDocument /\ mem = Off /\ retry = Off /\ bytes = Off
    /\ disturbed = Off /\ disk = Off /\ last = Off
othersLifecyclePage ==
    <<scenario, disk, last, clock, sent, out, raised, main, backup, active, job, stored,
      handled, answer, faults>>
othersBranchEvidence ==
    <<scenario, durable, retry, bytes, disturbed, clock, sent, out, raised, main, backup,
      active, job, stored, handled, answer, faults>>
othersPeerMessages ==
    <<scenario, durable, mem, retry, bytes, disturbed, disk, last>>

vars ==
    <<scenario, durable, mem, retry, bytes, disturbed, disk, last, clock, sent, out,
      raised, main, backup, active, job, stored, handled, answer, faults>>

Init ==
    \/ scenario = "reports" /\ Reports!Init /\ OnlyLifecyclePage
    \/ scenario = "mixed" /\ Mixed!Init /\ OnlyLifecyclePage
    \/ scenario = "warned" /\ Warned!Init /\ OnlyLifecyclePage
    \/ scenario = "chain" /\ Chain!Init /\ OnlyLifecyclePage
    \/ scenario = "branches" /\ Branches!Init /\ OnlyBranchEvidence
    \/ scenario = "moved" /\ Moved!Init /\ OnlyBranchEvidence
    \/ scenario = "replay" /\ Replay!Init /\ OnlyPeerMessages
    \/ scenario = "repair" /\ Repair!Init /\ OnlyPeerMessages
    \/ scenario = "legs" /\ Legs!Init /\ OnlyPeerMessages

Next ==
    \/ scenario = "reports" /\ Reports!Next /\ UNCHANGED othersLifecyclePage
    \/ scenario = "mixed" /\ Mixed!Next /\ UNCHANGED othersLifecyclePage
    \/ scenario = "warned" /\ Warned!Next /\ UNCHANGED othersLifecyclePage
    \/ scenario = "chain" /\ Chain!Next /\ UNCHANGED othersLifecyclePage
    \/ scenario = "branches" /\ Branches!Next /\ UNCHANGED othersBranchEvidence
    \/ scenario = "moved" /\ Moved!Next /\ UNCHANGED othersBranchEvidence
    \/ scenario = "replay" /\ Replay!Next /\ UNCHANGED othersPeerMessages
    \/ scenario = "repair" /\ Repair!Next /\ UNCHANGED othersPeerMessages
    \/ scenario = "legs" /\ Legs!Next /\ UNCHANGED othersPeerMessages

Spec == Init /\ [][Next]_vars

FacadeSymmetry == Permutations({f1, f2})

-----------------------------------------------------------------------------
(* Properties *)

\* Documents, memories, branches, messages and replay files stay well formed.
TypeOK ==
    /\ scenario = "reports" => Reports!TypeOK
    /\ scenario = "branches" => Branches!TypeOK
    /\ scenario = "replay" => Replay!TypeOK

\* A submission whose reports reached the threshold is in no later block,
\* whichever facade counted the reports and whichever mints.
ReportedStaysOut == scenario = "reports" => Reports!ReportedStaysOut

\* Every block holds a submission whose certificate the rules of its height
\* accept.
BlocksAreEvidenced == scenario = "mixed" => Mixed!BlocksAreEvidenced

\* The page of a submission, the list of blocks and the mint status tell one
\* story of one state.
ReadersAgree == scenario = "mixed" => Mixed!ReadersAgree

\* A submission that its page calls eligible for the next block is one the node
\* can mint.
EligibleIsMinted == scenario = "mixed" => Mixed!EligibleIsMinted

\* A facade that counts enough reports shows the submission as reported at every
\* stage.
ReportedIsShown == scenario = "reports" => Reports!ReportedIsShown

\* The warning on a minted, disputed submission never goes away.
WarningStays ==
    [][ /\ scenario = "reports" => Reports!KeepsWarning
        /\ scenario = "warned" => Warned!KeepsWarning ]_vars

\* A page that calls a block final is right on every facade: no reorganisation
\* takes the block away.
FinalPagesAreTrue == scenario = "chain" => Chain!FinalPagesAreTrue

\* A submission shown as final is never shown at an earlier stage by the same
\* facade.
FinalStageStays ==
    [][ /\ scenario = "reports" => Reports!KeepsFinalStage
        /\ scenario = "mixed" => Mixed!KeepsFinalStage ]_vars

\* As long as a dispatched request would pass the freshness check, the replay
\* state a restart loads knows it.
FreshIsRemembered == scenario = "replay" => Replay!FreshIsRemembered

\* After crashes, or one damaged file, the replay state is readable again for the
\* next request.
ReplayStateReadable ==
    /\ scenario = "replay" => Replay!ReplayStateReadable
    /\ scenario = "repair" => Repair!ReplayStateReadable

\* A peer that has the block of an object has its certificate and its evidence,
\* whatever leg was lost or late.
BlockAfterItsEvidence == scenario = "legs" => Legs!BlockAfterItsEvidence

\* Across local blocks, blocks of peers, adopted branches and restarts a
\* submission is minted exactly when the node's own chain mints it.
MintedOnChain == scenario = "branches" => Branches!MintedOnChain

\* A submission approved or queued has an active certificate whose evidence is on
\* the node's chain: nothing stays ready on the strength of a branch that was
\* left.
ReadyIsCertified == scenario = "branches" => Branches!ReadyIsCertified

\* The mint queue holds the queued submissions and no other, also after a
\* reorganisation took certificates away.
QueueMatchesStatus == scenario = "branches" => Branches!QueueMatchesStatus

\* Only a refused synchronisation leaves a memory that the store refuses, also
\* with peers that change branch between two answers.
OnlyRefusedSyncBlocksSaves ==
    [][ /\ scenario = "branches" => Branches!SavesStayPossible
        /\ scenario = "moved" => Moved!SavesStayPossible ]_vars

=============================================================================
