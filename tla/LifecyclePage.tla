--------------------------- MODULE LifecyclePage ---------------------------
(***************************************************************************)
(* What the public pages say of a submission: the stage of its lifecycle,  *)
(* its mint and certificate status, its quarantine, its block.             *)
(*                                                                         *)
(* The pages keep no state.  Each is computed from the memory of the       *)
(* facade that answers, by several readers of the same record that were    *)
(* written at different times; the module puts these readers beside the    *)
(* operations of AdmissionMint and asks whether they agree with each       *)
(* other, with what that facade would do, and with the stored document.    *)
(***************************************************************************)
EXTENDS AdmissionMint

CONSTANTS
    ConfirmationDepth   \* blocks above one that is called confirmed

DepthAssumption == ConfirmationDepth \in Nat

-----------------------------------------------------------------------------
(* The readers of a document d *)

\* Mutant: enough blocks above it finalize a block.
FinalByDepth(d, s) == s \in ToSet(SubSeq(d.chain, 1, Len(d.chain) - ConfirmationDepth))

\* Whether the state of the block of s says `finalized`.
block_chain_state(d, s) == s \in ToSet(Finalized(d))

\* Whether it says `confirmed`: a distance to the tip, not a promise.
Confirmed(d, s) ==
    \E i \in DOMAIN d.chain : d.chain[i] = s /\ Len(d.chain) - i >= ConfirmationDepth

\* The `phase` of the state of the block of s.
block_status(d, s) ==
    CASE block_chain_state(d, s)                    -> "finalized"
      [] Confirmed(d, s) /\ ~block_chain_state(d, s) -> "confirmed"
      [] Minted(d, s) /\ ~Confirmed(d, s) /\ ~block_chain_state(d, s) -> "canonical"
      [] OTHER                                      -> "none"

dispute_status(d, s) == report_tally({w \in Reporters : <<w, s>> \in d.disputes})

certificate_valid(d, s) == d.sub[s].cert /\ bytes[s]

AwaitingAttestation(d, s) == d.sub[s].status # "minted" /\ Activated(d)

admission_status(d, s) ==
    LET r == d.sub[s] IN
    CASE ~r.current /\ AwaitingAttestation(d, s)  -> "awaiting_attestation"
      [] ~r.current /\ ~AwaitingAttestation(d, s) -> "legacy_pre_activation"
      [] r.current /\ r.status \in {"minted", "quarantined"} -> r.status
      [] r.current /\ Open(r.status) /\ r.cert ->
            IF ~bytes[s] THEN "quarantined"
            ELSE IF r.status = "queued" THEN "mintable" ELSE "admission_qualified"
      [] OTHER ->
            IF ~bytes[s] THEN "invalid_attestation"
            ELSE CASE r.review = "rejected"  -> "review_rejected"
                   [] r.review = "qualified" -> "review_qualified"
                   [] OTHER                  -> "awaiting_review"

\* The mint status looks at everything before the certificate's mintability.
Unsettled(d, s) ==
    /\ ~Minted(d, s) /\ d.sub[s].status \notin {"minted", "rejected", "quarantined"}
    /\ ~d.sub[s].blocked /\ certificate_valid(d, s)

\* Whether computing the mint status raises: the resolver of a mintable
\* certificate refuses evidence the block to build would not accept.
Raises(d, s) == Unsettled(d, s) /\ ~require_valid_certificate_for_submission(d, s)

mint_status(d, s) ==
    IF Minted(d, s) \/ d.sub[s].status = "minted" THEN "minted"
    ELSE IF d.sub[s].status \in {"rejected", "quarantined"} THEN "rejected"
    ELSE IF d.sub[s].blocked THEN "blocked"
    ELSE IF Unsettled(d, s) THEN "mint_eligible" ELSE "not_ready"

\* The phase of get_submission_protocol_v1_lifecycle.
phase(d, s) ==
    CASE block_chain_state(d, s)                          -> "finalized"
      [] Confirmed(d, s) /\ ~block_chain_state(d, s)      -> "confirmed"
      [] Minted(d, s) /\ ~Confirmed(d, s) /\ ~block_chain_state(d, s) -> "canonical"
      [] OTHER ->
            CASE mint_status(d, s) = "mint_eligible"      -> "mint-eligible"
              [] certificate_valid(d, s) /\ mint_status(d, s) # "mint_eligible" -> "certified"
              [] ~certificate_valid(d, s) /\ d.sub[s].status \in {"rejected", "quarantined"} -> "rejected"
              [] OTHER                                    -> "voting"

stage(d, s) ==
    IF block_chain_state(d, s)
    THEN IF dispute_status(d, s) THEN "post_mint_disputed" ELSE "finalized"
    ELSE IF mint_status(d, s) = "minted" THEN "minted" ELSE admission_status(d, s)

\* The page of one submission.
_public_submission_lifecycle(d, s) ==
    [stage       |-> stage(d, s),
     mint        |-> mint_status(d, s),
     phase       |-> phase(d, s),
     finality    |-> block_status(d, s),
     certificate |-> IF certificate_valid(d, s) THEN "valid"
                     ELSE IF d.sub[s].cert THEN "invalid" ELSE "missing",
     quarantined |-> d.sub[s].status = "quarantined" \/ admission_status(d, s) = "quarantined"]

\* Mutant: the block's page shows a dispute as soon as somebody raised one.
AnyDispute(d, s) ==
    IF block_status(d, s) = "finalized" /\ \E w \in Reporters : <<w, s>> \in d.disputes
    THEN "disputed" ELSE block_status(d, s)

\* The page of the block of s: the phase of its state, and the dispute of a
\* finalized one.
_serialize_block(d, s) ==
    IF block_status(d, s) = "finalized" /\ dispute_status(d, s)
    THEN "disputed" ELSE block_status(d, s)

Present(d) == {s \in Submissions : d.sub[s].status # "absent"}

\* The list of a facade has every record of its memory, or none: one page
\* that raises ends the request.
get_submissions(f) ==
    IF \E s \in Present(mem[f]) : Raises(mem[f], s) THEN {}
    ELSE {<<s, _public_submission_lifecycle(mem[f], s)>> : s \in Present(mem[f])}

Final(page) == page.stage \in {"finalized", "post_mint_disputed"}

FinalAt(f, s) == Final(_public_submission_lifecycle(mem[f], s))
DisputedAt(f, s) == stage(mem[f], s) = "post_mint_disputed"

-----------------------------------------------------------------------------
(* Properties *)

\* What any facade's list shows as final lies in the finalized prefix of the
\* stored chain, however old that facade's memory is and however many blocks it
\* counts above it, and a shown dispute is stored there.
FinalPagesAreTrue ==
    \A f \in Facades : \A entry \in get_submissions(f) :
        /\ Final(entry[2]) => entry[1] \in ToSet(Finalized(durable))
        /\ entry[2].stage = "post_mint_disputed" => dispute_status(durable, entry[1])

\* The stage, the mint status, the phase, the finality and the page of the block
\* are computed apart and name the same fate: a block that is not final may be
\* called canonical or confirmed, and both mean the stage `minted`.
ReadersAgree ==
    \A f \in Facades : \A entry \in get_submissions(f) :
        LET s == entry[1]  page == entry[2]  block == _serialize_block(mem[f], s) IN
        /\ page.mint = "minted" <=> page.stage \in {"minted", "finalized", "post_mint_disputed"}
        /\ page.phase \in {"canonical", "confirmed"} <=> page.stage = "minted"
        /\ page.phase = "finalized" <=> Final(page)
        /\ page.finality = IF page.mint = "minted" THEN page.phase ELSE "none"
        /\ block = "disputed" <=> page.stage = "post_mint_disputed"
        /\ block # "disputed" => block = page.finality

\* A submission shown as eligible for the mint is minted when the facade that
\* shows it, and works on what is stored, is asked to.
EligibleIsMinted ==
    \A f \in Facades : \A entry \in get_submissions(f) :
        /\ entry[2].mint = "mint_eligible" /\ mem[f] = durable
        => \/ mintable(durable, entry[1])
           \/ addable(durable, entry[1])

\* A submission whose reports, as a facade knows them, reach the threshold is
\* shown as quarantined by each of its readers, whatever certificate it has.
ReportedIsShown ==
    \A f \in Facades : \A entry \in get_submissions(f) :
        report_tally(mem[f].sub[entry[1]].reports) =>
            /\ entry[2].quarantined /\ entry[2].stage = "quarantined"
            /\ entry[2].mint = "rejected"

\* A facade never takes a final stage back, through stale saves, retries,
\* reloads and restarts.
KeepsFinalStage ==
    \A f \in Facades : \A s \in Submissions : FinalAt(f, s) => FinalAt(f, s)'
FinalStageStays == [][KeepsFinalStage]_vars

\* Nor does it take back the warning that finalized media are disputed.
KeepsWarning ==
    \A f \in Facades : \A s \in Submissions : DisputedAt(f, s) => DisputedAt(f, s)'
WarningStays == [][KeepsWarning]_vars

\* `GET /submissions` and `GET /submissions/{submission_id}` add this
\* `lifecycle` object (docs/milestone-6-task-6.10-api-frontend-integration.md):
\* the list has every submission of the facade.
\* The code does not keep this: README, section 5.
ListAnswers ==
    \A f \in Facades : {entry[1] : entry \in get_submissions(f)} = Present(mem[f])

\* A mintable submission is eligible for the current mint queue
\* (zoidbergcoin-ui/src/utils/mediaLifecycle.js): the stage and the mint
\* status of one page agree on that.
\* The code does not keep this: README, section 5.
MintableIsEligible ==
    \A f \in Facades : \A entry \in get_submissions(f) :
        entry[2].stage = "mintable" => entry[2].mint = "mint_eligible"

\* The page derives from durable report state (the same document): what the
\* reports have quarantined is not shown as able to mint.
\* The code does not keep this: README, section 5.
QuarantineIsShown ==
    \A f \in Facades : \A entry \in get_submissions(f) :
        report_tally(durable.sub[entry[1]].reports) => entry[2].mint # "mint_eligible"
=============================================================================
