----------------------------- MODULE SlotSigner -----------------------------
(***************************************************************************)
(* What a safe validator key promises, whatever crashes or is restored: it *)
(* never signs two payloads for one slot, and hands out only payloads it   *)
(* has signed.                                                             *)
(***************************************************************************)
CONSTANTS Slots, Payloads

VARIABLES signatures, released

Message == [slot : Slots, payload : Payloads]

SignerInit == signatures = {} /\ released = {}

SignSlot(m) ==
    /\ \A n \in signatures : n.slot = m.slot => n = m
    /\ signatures' = signatures \cup {m}
    /\ UNCHANGED released

ReleaseMessage(m) ==
    /\ m \in signatures
    /\ released' = released \cup {m}
    /\ UNCHANGED signatures

SignerNext == \E m \in Message : SignSlot(m) \/ ReleaseMessage(m)

SafeSigner == SignerInit /\ [][SignerNext]_<<signatures, released>>

=============================================================================
