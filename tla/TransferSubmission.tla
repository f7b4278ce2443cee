------------------------- MODULE TransferSubmission -------------------------
(***************************************************************************)
(* One payment of a wallet, from the amount its owner types to the record  *)
(* that peers and blocks accept.                                           *)
(*                                                                         *)
(* The API process issues a challenge (the exact message to sign, with the *)
(* next nonce), keeps it in memory until it expires, and takes it once.    *)
(* The client submits the signed message together with the typed texts;    *)
(* requests and answers may be late, repeated or lost, so the client sends *)
(* the same message again until it hears a definite answer, and asks for   *)
(* another challenge only when it was refused.                             *)
(*                                                                         *)
(* Every hop writes the texts anew from what it parsed: the challenge, the *)
(* preview of a submission, the stored record, the gossip message and the  *)
(* block.  The transaction id is the hash of the canonical texts, so it is *)
(* those texts.  Signatures are the wallet's own.  An amount is its digits *)
(* and how many of them are decimal places: 1.50 is <<150, 2>>.            *)
(***************************************************************************)
EXTENDS PaymentRecords, Integers, FiniteSets, FiniteSetsExt

CONSTANTS
    Payments,     \* sets of typed requests, each set one intended payment
    Edits,        \* what a page may submit after its form was changed
    Precision,    \* digits of the decimal context (28)
    MaxPlaces,    \* NATIVE_ZOID_MAX_DECIMAL_PLACES
    Funds,        \* balance of the wallet on the chain, in whole coins
    Ttl,          \* challenge_ttl_seconds
    MaxChallenges, MaxFlight, MaxOthers, MaxClock     \* bounds

TransferAssumption ==
    /\ \A p \in Payments : p # {} /\ \A q, r \in p :
          q.amount[1] * 10^r.amount[2] = r.amount[1] * 10^q.amount[2]
    /\ Precision \in Nat \ {0} /\ MaxPlaces \in Nat
    /\ Funds \in Nat /\ Funds * 10^MaxPlaces < 10^Precision
    /\ Ttl \in Nat \ {0}
    /\ {MaxChallenges, MaxFlight, MaxOthers, MaxClock} \subseteq Nat

VARIABLES
    payment,      \* what the owner of the wallet wants to pay, as texts
    client,       \* the signed message the client holds, and what it heard
    challenges,   \* challenges in the memory of the API process
    issued,       \* number of challenges; a challenge's timestamp is its number
    flight,       \* submissions on their way, some twice
    others,       \* nonces of live transfers the wallet made elsewhere
    refused,      \* history: refusals of submissions, with their cause
    clock

vars == <<payment, client, challenges, issued, flight, records, others,
          refused, clock>>

None == [version |-> 0]

-----------------------------------------------------------------------------
(* Texts *)

Digits(n) == Min({d \in 1 .. 9 : n < 10^d})

\* The decimal context rounds half to even.
Rounded(n) ==
    LET unit == IF Digits(n) <= Precision THEN 1 ELSE 10^(Digits(n) - Precision)
        q    == n \div unit
        rest == 2 * (n % unit)
    IN  IF rest > unit \/ (rest = unit /\ q % 2 = 1)
        THEN (q + 1) * unit ELSE q * unit

\* parse_native_zoid_amount: what it makes of an accepted text.
parse_native_zoid_amount(a) ==
    LET n == Rounded(a[1])
        p == Min({k \in 0 .. a[2] : n % 10^(a[2] - k) = 0})
    IN  <<n \div 10^(a[2] - p), p>>

\* parse_native_zoid_amount: the texts it accepts.
AmountText(a, allow_zero) == a[2] <= MaxPlaces /\ (allow_zero \/ a[1] > 0)

\* A memo is its text and whether blanks surround it.
normalize_memo(memo) == [memo EXCEPT !.blanks = FALSE]

\* Capitals in an address carry a checksum.
normalize_wallet_address(to) == [to EXCEPT !.capitals = FALSE]

\* "Z" becomes an offset.
parse_transfer_timestamp(time) == [time EXCEPT !.form = "offset"]

Texts(q, version, nonce, time) ==
    [version |-> version, nonce |-> nonce, time |-> time, amount |-> q.amount,
     fee |-> q.fee, memo |-> q.memo, to |-> q.to]

WellFormed(t) == AmountText(t.amount, FALSE) /\ AmountText(t.fee, TRUE)

\* build_protocol_v1_native_transfer_payload
Payload(t) ==
    [t EXCEPT !.amount = parse_native_zoid_amount(@),
              !.fee = parse_native_zoid_amount(@),
              !.memo = normalize_memo(@),
              !.to = normalize_wallet_address(@),
              !.time = parse_transfer_timestamp(@)]

\* parse_protocol_v1_native_transfer_message: the message must be the one
\* its own fields build.
ParsesAsV1(msg) == msg.version = 1 /\ WellFormed(msg) /\ msg = Payload(msg)

\* parse_transfer_signing_message, for the text of an older client.
ParsesAsLegacy(msg) == msg.version = 2 /\ WellFormed(msg)

\* compute_transaction_id
TxId(t) == Payload(t)

\* _build_submitted_native_transaction_preview
PreviewFits(msg, q) ==
    /\ ParsesAsV1(msg) \/ ParsesAsLegacy(msg)
    /\ WellFormed(q)
    /\ normalize_wallet_address(q.to) = Payload(msg).to
    /\ parse_native_zoid_amount(q.amount) = Payload(msg).amount
    /\ parse_native_zoid_amount(q.fee) = Payload(msg).fee
    /\ [q.memo EXCEPT !.blanks = FALSE] = Payload(msg).memo

\* Mutant: the record keeps the status of the message it was read from.
BuiltAsDraft(msg, status) ==
    [id |-> TxId(msg), fields |-> Payload(msg), text |-> msg, status |-> "draft"]

\* build_native_transaction of a signed message
Built(msg, status) ==
    [id |-> TxId(msg), fields |-> Payload(msg), text |-> msg, status |-> status]

\* _canonical_transaction_fields_v1
CanonicalFields(r) == Payload(r.fields)

\* validate_transaction_shape
ShapeFits(r) == WellFormed(r.fields) /\ r.id = TxId(CanonicalFields(r))

\* NativeTransactionValidationService.validate_identity
IdentityHolds(r) ==
    /\ ShapeFits(r)
    /\ r.fields.version = 1
    /\ r.text = Payload(CanonicalFields(r))

\* _serialize_peer_transaction_payload, as far as a receiver keeps it
Wire(r) == [id |-> r.id, fields |-> r.fields, text |-> r.text]

\* serialize_native_transaction_for_block
InBlock(r) == [id |-> r.id, fields |-> r.fields, text |-> r.text]

-----------------------------------------------------------------------------
(* The ledger of the wallet *)

Live == {"signed_pending", "mempool", "settled"}
LiveRecords == {t \in DOMAIN records : records[t].status \in Live}

Held == others \cup {t.nonce : t \in LiveRecords}

\* get_next_nonce
NextNonce == Min((1 .. Cardinality(Held) + 1) \ Held)

\* A transfer made elsewhere pays one coin.  In units of the last place.
Available ==
    (Funds - Cardinality(others)) * 10^MaxPlaces
    - MapThenSumSet(LAMBDA t : t.amount[1] * 10^(MaxPlaces - t.amount[2]),
                    LiveRecords)

\* validate_admission_state
Admissible(t) ==
    /\ t.nonce = NextNonce
    /\ t.amount[1] * 10^(MaxPlaces - t.amount[2]) <= Available

-----------------------------------------------------------------------------
(* Challenges and the client *)

Init ==
    /\ payment \in Payments
    /\ client = [msg |-> None, paid |-> FALSE]
    /\ challenges = {}
    /\ issued = 0
    /\ flight = {}
    /\ records = [t \in {} |-> None]
    /\ others = {}
    /\ refused = {}
    /\ clock = 0

\* prune_expired
Unexpired == {c \in challenges : c.exp > clock}

\* issue_transfer_challenge
Issued(msg) ==
    Unexpired \cup {[msg |-> msg, exp |-> clock + Ttl, used |-> FALSE]}

\* create_wallet_transfer_challenge; its answer may be lost.
Ask(q, heard) ==
    LET msg == Payload(Texts(q, 1, NextNonce, [at |-> issued + 1, form |-> "Z"]))
    IN  /\ client = [msg |-> None, paid |-> FALSE]
        /\ issued < MaxChallenges
        /\ WellFormed(q)
        /\ challenges' = Issued(msg)
        /\ issued' = issued + 1
        /\ client' = IF heard THEN [client EXCEPT !.msg = msg] ELSE client
        /\ UNCHANGED <<payment, flight, records, others, refused, clock>>

\* An older client builds and signs the text itself
\* (build_transfer_signing_message).
SignLegacy(q) ==
    /\ client = [msg |-> None, paid |-> FALSE]
    /\ issued < MaxChallenges
    /\ client' = [client EXCEPT !.msg =
                     Texts(q, 2, NextNonce, [at |-> issued + 1, form |-> "Z"])]
    /\ issued' = issued + 1
    /\ UNCHANGED <<payment, challenges, flight, records, others, refused, clock>>

\* The client submits, for the first time or again.
Send(q) ==
    LET free == (1 .. MaxFlight) \ {r.copy : r \in flight}
    IN  /\ client.msg # None /\ ~client.paid
        /\ free # {}
        /\ flight' = flight \cup
               {[msg |-> client.msg, form |-> q, copy |-> Min(free)]}
        /\ UNCHANGED <<payment, client, challenges, issued, records, others,
                       refused, clock>>

Lose(r) ==
    /\ flight' = flight \ {r}
    /\ UNCHANGED <<payment, client, challenges, issued, records, others,
                   refused, clock>>

-----------------------------------------------------------------------------
(* Submissions: one step of the event loop each *)

\* Mutant: the store is asked after the challenge has been verified.
RecordedAfterVerifying(msg) ==
    /\ TxId(msg) \in DOMAIN records
    /\ \E c \in Unexpired : c.msg = msg /\ ~c.used

\* submit_signed_transfer_operation: get_durable_native_transaction_record
AlreadyRecorded(msg) == TxId(msg) \in DOMAIN records

\* verify_transfer_signature
Verifies(r) ==
    /\ \E c \in Unexpired : c.msg = r.msg /\ ~c.used
    /\ r.msg = Payload(r.msg)
    /\ Payload(Texts(r.form, 1, r.msg.nonce, r.msg.time)) = r.msg

Taken(msg) ==
    {IF c.msg = msg THEN [c EXCEPT !.used = TRUE] ELSE c : c \in Unexpired}

Refuse(r, why, heard) ==
    /\ flight' = flight \ {r}
    /\ refused' = refused \cup {[msg |-> r.msg, form |-> r.form, why |-> why]}
    /\ client' = IF heard /\ client.msg = r.msg
                 THEN [client EXCEPT !.msg = None] ELSE client
    /\ UNCHANGED <<payment, issued, records, others, clock>>

Confirm(r, heard) ==
    /\ flight' = flight \ {r}
    /\ client' = [client EXCEPT !.paid = @ \/ heard]
    /\ UNCHANGED <<payment, issued, others, refused, clock>>

SubmitMismatch(r, heard) ==
    /\ ~PreviewFits(r.msg, r.form)
    /\ Refuse(r, "texts", heard)
    /\ UNCHANGED challenges

\* "Transaction already recorded."
SubmitAgain(r, heard) ==
    /\ PreviewFits(r.msg, r.form)
    /\ AlreadyRecorded(r.msg)
    /\ Confirm(r, heard)
    /\ UNCHANGED <<challenges, records>>

\* No challenge, an expired one or one that was used.
SubmitUnverified(r, heard) ==
    /\ PreviewFits(r.msg, r.form)
    /\ ~AlreadyRecorded(r.msg)
    /\ ~Verifies(r)
    /\ Refuse(r, "challenge", heard)
    /\ challenges' = Unexpired

Verified(r) ==
    PreviewFits(r.msg, r.form) /\ ~AlreadyRecorded(r.msg) /\ Verifies(r)

Acceptable(r) == r.msg.fee[1] = 0 /\ Admissible(r.msg)

\* A fee, a nonce taken meanwhile or an insufficient balance.
SubmitRefused(r, heard) ==
    /\ Verified(r)
    /\ ~Acceptable(r)
    /\ Refuse(r, "ledger", heard)
    /\ challenges' = Taken(r.msg)

\* admit_signed_transfer
Recorded(msg, status) ==
    [t \in DOMAIN records \cup {TxId(msg)} |->
        IF t = TxId(msg) THEN Built(msg, status) ELSE records[t]]

\* submit_signed_transfer_operation with _admit_signed_transfer_durably
SubmitNew(r, status, heard) ==
    /\ Verified(r) /\ Acceptable(r)
    /\ records' = Recorded(r.msg, status)
    /\ challenges' = Taken(r.msg)
    /\ Confirm(r, heard)

\* The storage transaction fails, before COMMIT or with an unknown outcome;
\* the client is told of a server error and knows nothing.
SubmitFails(r, committed) ==
    /\ Verified(r) /\ Acceptable(r)
    /\ records' = IF committed THEN Recorded(r.msg, "signed_pending") ELSE records
    /\ challenges' = Taken(r.msg)
    /\ Confirm(r, FALSE)

-----------------------------------------------------------------------------
(* The rest of the node, and time *)

\* Another device of the owner, through a peer.
OtherTransfer ==
    /\ Cardinality(others) < MaxOthers
    /\ Available >= 10^MaxPlaces
    /\ others' = others \cup {NextNonce}
    /\ UNCHANGED <<payment, client, challenges, issued, flight, records,
                   refused, clock>>

\* Revalidation rejects it again.
OtherRejected(n) ==
    /\ others' = others \ {n}
    /\ UNCHANGED <<payment, client, challenges, issued, flight, records,
                   refused, clock>>

\* update_native_transaction_status
Advance(t, status) ==
    /\ \/ records[t].status = "signed_pending" /\ status \in {"mempool", "rejected"}
       \/ records[t].status = "mempool" /\ status \in {"settled", "rejected"}
    /\ records' = [records EXCEPT ![t].status = status]
    /\ UNCHANGED <<payment, client, challenges, issued, flight, others,
                   refused, clock>>

\* Challenges live in memory only.
Restart ==
    /\ challenges # {}
    /\ challenges' = {}
    /\ UNCHANGED <<payment, client, issued, flight, records, others,
                   refused, clock>>

Tick ==
    /\ clock < MaxClock
    /\ clock' = clock + 1
    /\ UNCHANGED <<payment, client, challenges, issued, flight, records,
                   others, refused>>

Next ==
    \/ \E q \in payment, heard \in BOOLEAN : Ask(q, heard)
    \/ \E q \in payment : SignLegacy(q)
    \/ \E q \in payment \cup Edits : Send(q)
    \/ \E r \in flight, heard \in BOOLEAN :
          \/ SubmitMismatch(r, heard) \/ SubmitAgain(r, heard)
          \/ SubmitUnverified(r, heard) \/ SubmitRefused(r, heard)
          \/ \E status \in {"signed_pending", "mempool"} :
                SubmitNew(r, status, heard)
    \/ \E r \in flight, committed \in BOOLEAN : SubmitFails(r, committed)
    \/ \E r \in flight : Lose(r)
    \/ OtherTransfer
    \/ \E n \in others : OtherRejected(n)
    \/ \E t \in DOMAIN records, status \in {"mempool", "settled", "rejected"} :
          Advance(t, status)
    \/ Restart
    \/ Tick

Spec == Init /\ [][Next]_vars

-----------------------------------------------------------------------------
(* Properties *)

\* Records are stored under their own id and statuses are of the lifecycle;
\* challenges and flights hold messages of their formats.
TypeOK ==
    /\ \A t \in DOMAIN records : records[t].id = t
          /\ records[t].status \in Live \cup {"rejected"}
    /\ \A c \in challenges : c.msg.version = 1 /\ c.used \in BOOLEAN
    /\ \A r \in flight : r.form \in payment \cup Edits
    /\ issued \in 0 .. MaxChallenges /\ clock \in 0 .. MaxClock

\* A message whose submission was refused is not in the store and never gets
\* there, even by a copy of the request that arrives after the cause of the
\* refusal is gone (verify_transfer_signature takes the challenge first).
RefusedIsUnrecorded ==
    \A x \in refused : TxId(x.msg) \notin DOMAIN records

\* What is recorded is worth what the owner typed, to whom and with the memo
\* the owner typed, though every hop rewrote the texts
\* (parse_native_zoid_amount and its rounding, build_native_transaction).
TypedIsRecorded ==
    \A t \in DOMAIN records : \E q \in payment :
        /\ q.amount[1] * 10^t.amount[2] = t.amount[1] * 10^q.amount[2]
        /\ q.fee[1] = 0 /\ t.fee[1] = 0
        /\ q.memo.text = t.memo.text /\ q.to.who = t.to.who

\* The hops agree: no submission of the typed texts is refused because they
\* differ from the message they led to, and what the store keeps passes the identity
\* check of a peer and of a block's validator under the same id
\* (validate_identity, compute_transaction_id).
HopsAgree ==
    /\ \A x \in refused : x.why = "texts" => x.form \notin payment
    /\ \A t \in DOMAIN records :
          IdentityHolds(Wire(records[t])) /\ IdentityHolds(InBlock(records[t]))

=============================================================================
