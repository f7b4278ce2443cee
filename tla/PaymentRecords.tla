--------------------------- MODULE PaymentRecords ---------------------------
(***************************************************************************)
(* What the owner of a wallet counts on who wants to pay once.             *)
(***************************************************************************)
EXTENDS Naturals, FiniteSets

VARIABLE records    \* the store: transaction id -> record of this payment

\* A client that repeats a submission until it hears a definite answer, and
\* asks for a new challenge only after a refusal, pays once, whatever is
\* lost, late, repeated or half failed (submit_signed_transfer_operation).
PaidOnce == Cardinality(DOMAIN records) <= 1
=============================================================================
