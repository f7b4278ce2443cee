--------------------------- MODULE DurableSigner ---------------------------
(***************************************************************************)
(* The durable BFT signer of isolated_bft717j (height 1, round 0).         *)
(*                                                                         *)
(* Reserve -> witness -> sign -> store -> witness -> release.  The signer  *)
(* keeps an append-only journal in one database and a high-water mark      *)
(* (generation and journal head) in a separate witness database; there is  *)
(* no transaction across the two.  Every durable commit is a step of its   *)
(* own, the process may die or fail between any two of them, and the       *)
(* journal database may be replaced by an older copy of itself.            *)
(*                                                                         *)
(* An event of the journal stores the complete state after it, and its     *)
(* identifier commits to all events before, so the journal is a sequence   *)
(* of states and a head is the sequence itself.                            *)
(***************************************************************************)
EXTENDS Naturals, Sequences

CONSTANTS
    Values,         \* block hashes of the pinned catalogue
    Valid,          \* those whose validation record says VALID
    Proposed,       \* values an authenticated proposal exists for
    Polkas,         \* payloads three authenticated prevotes exist for
    IsProposer,     \* this key is the scheduled proposer of round 0
    Nil,            \* the nil vote
    None,           \* absent
    MaxGeneration   \* the largest fence generation

ASSUME EvidenceAssumption ==
    /\ Valid \subseteq Values /\ Proposed \subseteq Values
    /\ Polkas \subseteq Values \cup {Nil}
    /\ IsProposer \in BOOLEAN
    /\ Nil \notin Values /\ None \notin Values \cup {Nil}
    /\ MaxGeneration \in Nat \ {0}

VARIABLES
    journal,    \* the events of the signer database
    witness,    \* [gen, head] of the witness database
    pc,         \* where the owning process is
    gen,        \* the owner's fence generation
    avail,      \* the owner's available flag
    request,    \* the message the owner is signing
    loaded,     \* the journal the owner has last reconciled
    signatures, \* every message the key has signed
    released    \* every message handed to a caller

vars == <<journal, witness, pc, gen, avail, request, loaded, signatures, released>>

-----------------------------------------------------------------------------
(* Data *)

Slots    == {"propose", "prevote", "precommit"}
Payloads == Values \cup {Nil}
Message  == [slot : Slots, payload : Payloads]

\* The authoritative state: phase and lock of the round, the slot rows, the
\* slots whose signature is stored, the pending slot and the fence.
State == [started : BOOLEAN, phase : Slots,
          locked : Values \cup {None},
          row : [Slots -> Payloads \cup {None}],
          stored : SUBSET Slots,
          pending : Slots \cup {None},
          fence : 1 .. MaxGeneration]

initial == [started |-> FALSE, phase |-> "propose", locked |-> None,
            row |-> [s \in Slots |-> None], stored |-> {}, pending |-> None,
            fence |-> 1]

Current(log) == log[Len(log)]

IsPrefixOf(s, t) == Len(s) <= Len(t) /\ \A i \in 1 .. Len(s) : s[i] = t[i]

-----------------------------------------------------------------------------
(* The reducer *)

\* The guards of START (proposer), L22, L36 and L44 at round 0.
Enabled(s, m) ==
    /\ s.pending = None
    /\ \/ /\ m.slot = "propose" /\ IsProposer
          /\ ~s.started /\ s.phase = "propose"
          /\ m.payload \in Valid
       \/ /\ m.slot = "prevote" /\ s.started /\ s.phase = "propose"
          /\ \E w \in Proposed :
                m.payload = IF w \in Valid /\ s.locked \in {None, w} THEN w ELSE Nil
       \/ /\ m.slot = "precommit" /\ s.started /\ s.phase = "prevote"
          /\ m.payload \in Polkas
          /\ m.payload = Nil \/ m.payload \in Valid \cap Proposed

\* Mutant: the lock is left to a later write.
PlanWithoutLock(s, m) ==
    [started |-> TRUE, phase |-> m.slot, locked |-> s.locked,
     row |-> [s.row EXCEPT ![m.slot] = m.payload],
     stored |-> s.stored, pending |-> m.slot, fence |-> s.fence]

\* The state that reserves the slot: phase, lock and reservation at once.
plan(s, m) ==
    [started |-> TRUE,
     phase   |-> m.slot,
     locked  |-> IF m.slot = "precommit" /\ m.payload # Nil THEN m.payload ELSE s.locked,
     row     |-> [s.row EXCEPT ![m.slot] = m.payload],
     stored  |-> s.stored,
     pending |-> m.slot,
     fence   |-> s.fence]

stored_state(s, m) ==
    [started |-> s.started, phase |-> s.phase, locked |-> s.locked, row |-> s.row,
     stored |-> s.stored \cup {m.slot}, pending |-> None, fence |-> s.fence]

start_nonproposer(s) ==
    [started |-> TRUE, phase |-> s.phase, locked |-> s.locked, row |-> s.row,
     stored |-> s.stored, pending |-> s.pending, fence |-> s.fence]

Fenced(s, g) ==
    [started |-> s.started, phase |-> s.phase, locked |-> s.locked, row |-> s.row,
     stored |-> s.stored, pending |-> s.pending, fence |-> g]

-----------------------------------------------------------------------------
(* The witness *)

\* The witnessed head is a point of the journal; the witness then moves to
\* the end of it.
Reconciles == IsPrefixOf(witness.head, journal)
Reconciled == [gen |-> witness.gen, head |-> journal]

\* _recover without a claim: reconcile, and no other owner has fenced.
Recovers ==
    /\ Reconciles
    /\ witness.gen = gen
    /\ Current(journal).fence = gen

-----------------------------------------------------------------------------

\* Bootstrap: both databases created, the creating process owns them.
Init ==
    /\ journal = <<initial>>
    /\ witness = [gen |-> 1, head |-> <<initial>>]
    /\ pc = "idle"
    /\ gen = 1
    /\ avail = TRUE
    /\ request = None
    /\ loaded = <<initial>>
    /\ signatures = {}
    /\ released = {}

\* Mutant: the claim trusts the journal it finds.
ClaimUnreconciled ==
    /\ pc = "down"
    /\ witness.gen < MaxGeneration
    /\ witness' = [gen |-> witness.gen + 1, head |-> journal]
    /\ gen' = witness.gen + 1
    /\ pc' = "claimed"
    /\ UNCHANGED <<journal, avail, request, loaded, signatures, released>>

\* Reopening under the OS lock: the claim commits in the witness first.
OpenClaim ==
    /\ pc = "down"
    /\ Reconciles
    /\ Current(journal).fence <= witness.gen
    /\ witness.gen < MaxGeneration
    /\ witness' = [gen |-> witness.gen + 1, head |-> journal]
    /\ gen' = witness.gen + 1
    /\ pc' = "claimed"
    /\ UNCHANGED <<journal, avail, request, loaded, signatures, released>>

\* ... then the FENCE event commits in the journal ...
OpenFence ==
    /\ pc = "claimed"
    /\ journal' = Append(journal, Fenced(Current(journal), gen))
    /\ pc' = "fenced"
    /\ UNCHANGED <<witness, gen, avail, request, loaded, signatures, released>>

\* ... and the witness follows.
OpenReconcile ==
    /\ pc = "fenced"
    /\ Reconciles
    /\ witness' = Reconciled
    /\ pc' = "idle"
    /\ avail' = TRUE
    /\ UNCHANGED <<journal, gen, request, loaded, signatures, released>>

\* recover(): revalidate and make the owner available again.
Recover ==
    /\ pc = "idle"
    /\ Recovers
    /\ witness' = Reconciled
    /\ avail' = TRUE
    /\ UNCHANGED <<journal, pc, gen, request, loaded, signatures, released>>

\* start(): a validator that does not propose arms the propose timeout.
Start ==
    /\ pc = "idle" /\ avail
    /\ Reconciles /\ witness.gen = gen
    /\ ~IsProposer /\ ~Current(journal).started /\ Current(journal).pending = None
    /\ witness' = Reconciled
    /\ journal' = Append(journal, start_nonproposer(Current(journal)))
    /\ pc' = "started"
    /\ UNCHANGED <<gen, avail, request, loaded, signatures, released>>

StartRecover ==
    /\ pc = "started"
    /\ Recovers
    /\ witness' = Reconciled
    /\ pc' = "idle"
    /\ UNCHANGED <<journal, gen, avail, request, loaded, signatures, released>>

\* sign(): the first transaction reconciles, then reserves the slot, finds the
\* same message reserved or stored already, or refuses the request.
SignReserve(m) ==
    /\ pc = "idle" /\ avail
    /\ Reconciles /\ witness.gen = gen
    /\ witness' = Reconciled
    /\ request' = m
    /\ LET s == Current(journal) IN
       \/ /\ s.row[m.slot] = None /\ Enabled(s, m)
          /\ journal' = Append(journal, plan(s, m))
          /\ pc' = "reserved"
       \/ /\ s.row[m.slot] = m.payload /\ m.slot \notin s.stored
          /\ pc' = "reserved"
          /\ UNCHANGED journal
       \/ /\ s.row[m.slot] = m.payload /\ m.slot \in s.stored
          /\ pc' = "release"
          /\ UNCHANGED journal
       \/ /\ \/ s.row[m.slot] \notin {None, m.payload}
             \/ s.row[m.slot] = None /\ ~Enabled(s, m)
          /\ pc' = "idle"
          /\ UNCHANGED journal
    /\ UNCHANGED <<gen, avail, loaded, signatures, released>>

\* The committed reservation is reread and witnessed.
SignWitness ==
    /\ pc = "reserved"
    /\ Recovers
    /\ witness' = Reconciled
    /\ loaded' = journal
    /\ pc' = "witnessed"
    /\ UNCHANGED <<journal, gen, avail, request, signatures, released>>

\* The key signs what the witness holds at this owner's generation.
SignKey ==
    /\ pc = "witnessed"
    /\ witness.gen = gen /\ witness.head = loaded
    /\ signatures' = signatures \cup {request}
    /\ pc' = "signed"
    /\ UNCHANGED <<journal, witness, gen, avail, request, loaded, released>>

\* The second transaction: same head, same reservation.
SignStore ==
    /\ pc = "signed"
    /\ Reconciles /\ witness.gen = gen
    /\ journal = loaded
    /\ witness' = Reconciled
    /\ journal' = Append(journal, stored_state(Current(journal), request))
    /\ pc' = "stored"
    /\ UNCHANGED <<gen, avail, request, loaded, signatures, released>>

SignRecover ==
    /\ pc = "stored"
    /\ Recovers
    /\ witness' = Reconciled
    /\ pc' = "release"
    /\ UNCHANGED <<journal, gen, avail, request, loaded, signatures, released>>

Release ==
    /\ pc = "release"
    /\ released' = released \cup {request}
    /\ pc' = "idle"
    /\ UNCHANGED <<journal, witness, gen, avail, request, loaded, signatures>>

\* Any failure that is not a refusal: the owner stops until it recovers.
Fail ==
    /\ pc \notin {"down", "claimed", "fenced"}
    /\ avail' = FALSE
    /\ pc' = "idle"
    /\ UNCHANGED <<journal, witness, gen, request, loaded, signatures, released>>

\* Process death, close(), or a failed open.
Crash ==
    /\ pc # "down"
    /\ pc' = "down"
    /\ avail' = FALSE
    /\ UNCHANGED <<journal, witness, gen, request, loaded, signatures, released>>

\* The signer database alone is replaced by an older copy of itself while no
\* process owns it.
RestoreBackup(k) ==
    /\ pc = "down"
    /\ k < Len(journal)
    /\ journal' = SubSeq(journal, 1, k)
    /\ UNCHANGED <<witness, pc, gen, avail, request, loaded, signatures, released>>

Next ==
    \/ OpenClaim \/ OpenFence \/ OpenReconcile
    \/ Recover \/ Start \/ StartRecover
    \/ \E m \in Message : SignReserve(m)
    \/ SignWitness \/ SignKey \/ SignStore \/ SignRecover \/ Release
    \/ Fail \/ Crash
    \/ \E k \in 1 .. Len(journal) : RestoreBackup(k)

Spec == Init /\ [][Next]_vars

-----------------------------------------------------------------------------
(* Properties *)

\* The two databases and the owner hold well-formed values, and no generation
\* beyond the last is ever claimed.
TypeOK ==
    /\ journal \in Seq(State) /\ Len(journal) > 0
    /\ witness \in [gen : 1 .. MaxGeneration, head : Seq(State)]
    /\ pc \in {"down", "claimed", "fenced", "idle", "started", "reserved",
               "witnessed", "signed", "stored", "release"}
    /\ gen \in 1 .. MaxGeneration
    /\ avail \in BOOLEAN
    /\ request \in Message \cup {None}
    /\ loaded \in Seq(State)
    /\ signatures \subseteq Message /\ released \subseteq Message

\* The key signs only what the surviving witness can prove was reserved, so a
\* crash or an older signer database never makes a second payload signable.
SignedIsWitnessed ==
    \A m \in signatures : Current(witness.head).row[m.slot] = m.payload

\* A caller holds only messages whose signature the witnessed journal stores.
ReleasedIsWitnessed ==
    \A m \in released : m.slot \in Current(witness.head).stored

\* A signed precommit for a value is locked in the same journal.
PrecommitIsLocked ==
    \A m \in signatures :
        m.slot = "precommit" /\ m.payload # Nil
            => Current(witness.head).locked = m.payload

\* A signer whose journal fell behind its witness never signs again.
StaleJournalNeverReserves ==
    [][~Reconciles => (Len(journal') <= Len(journal) /\ witness' = witness)]_vars

\* The journal signer implements the safe key.
Safe == INSTANCE SlotSigner

\* No crash, failure or restored journal makes the key sign two payloads for a
\* slot or hand out a message it has not signed (sign, _recover and authorize).
SafeSigner == Safe!SafeSigner

=============================================================================
