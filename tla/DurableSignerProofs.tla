------------------------ MODULE DurableSignerProofs ------------------------
(***************************************************************************)
(* The durable signer is a safe key for every set of values, every         *)
(* evidence and every number of generations.                               *)
(***************************************************************************)
EXTENDS DurableSigner, TLAPS

-----------------------------------------------------------------------------
(* The inductive invariant *)

\* What every later state of a journal keeps of an earlier one.
Keeps(s, t) ==
    /\ \A k \in Slots : s.row[k] # None => t.row[k] = s.row[k]
    /\ s.stored \subseteq t.stored

\* A stored slot has a signature, and a precommitted value is locked.
StateOK(s, sigs) ==
    /\ \A k \in s.stored : /\ s.row[k] # None
                           /\ [slot |-> k, payload |-> s.row[k]] \in sigs
    /\ s.row["precommit"] \in Values => s.locked = s.row["precommit"]

LogOK(log, sigs) ==
    /\ log \in Seq(State) /\ Len(log) > 0
    /\ \A i \in 1 .. Len(log) : StateOK(log[i], sigs)
    /\ \A i, j \in 1 .. Len(log) : i <= j => Keeps(log[i], log[j])

WitnessOK(head, sigs, rel) ==
    /\ head \in Seq(State) /\ Len(head) > 0
    /\ StateOK(Current(head), sigs)
    /\ \A m \in sigs : Current(head).row[m.slot] = m.payload
    /\ \A m \in rel : m.slot \in Current(head).stored

\* The request is the reservation of the last state of the log.
Reserved(log) ==
    /\ request \in Message
    /\ Current(log).row[request.slot] = request.payload

\* What the owner may rely on between two commits.
OwnerInv ==
    /\ pc # "down" => Reconciles
    /\ pc = "reserved" => Reserved(journal)
    /\ pc \in {"witnessed", "signed"} =>
          Reserved(journal) /\ loaded = journal /\ witness.head = journal
    /\ pc \in {"signed", "stored", "release"} => request \in signatures
    /\ pc = "stored" => request.slot \in Current(journal).stored
    /\ pc = "release" => request.slot \in Current(witness.head).stored

SignerInv ==
    /\ TypeOK
    /\ LogOK(journal, signatures)
    /\ WitnessOK(witness.head, signatures, released)
    /\ OwnerInv

-----------------------------------------------------------------------------
(* Journals *)

\* The last state of a journal is a state.
LEMMA CurrentType ==
    ASSUME NEW log \in Seq(State), Len(log) > 0
    PROVE  Current(log) \in State
BY DEF Current

\* Keeping is transitive.
LEMMA KeepsTrans ==
    ASSUME NEW r \in State, NEW s \in State, NEW t \in State,
           Keeps(r, s), Keeps(s, t)
    PROVE  Keeps(r, t)
BY DEF Keeps, State

\* Every state keeps itself.
LEMMA KeepsRefl ==
    ASSUME NEW s \in State
    PROVE  Keeps(s, s)
BY DEF Keeps

\* Appending a state that keeps the last one (_append).
LEMMA LogAppend ==
    ASSUME NEW log, NEW sigs, NEW t \in State,
           LogOK(log, sigs), Keeps(Current(log), t), StateOK(t, sigs)
    PROVE  /\ LogOK(Append(log, t), sigs)
           /\ Current(Append(log, t)) = t
<1> DEFINE new == Append(log, t)
<1>1. /\ log \in Seq(State) /\ Len(log) > 0 /\ Len(log) \in Nat
      /\ new \in Seq(State) /\ Len(new) = Len(log) + 1
      /\ new[Len(new)] = t
      /\ \A i \in 1 .. Len(log) : new[i] = log[i]
  BY DEF LogOK
<1>2. \A i \in 1 .. Len(log) : log[i] \in State /\ Keeps(log[i], Current(log))
  BY <1>1 DEF LogOK, Current
<1>3. \A i \in 1 .. Len(log) : Keeps(log[i], t)
  BY <1>1, <1>2, CurrentType, KeepsTrans
<1>4. \A i \in 1 .. Len(new) : StateOK(new[i], sigs)
  BY <1>1 DEF LogOK
<1>5. \A i, j \in 1 .. Len(new) : i <= j => Keeps(new[i], new[j])
  <2> SUFFICES ASSUME NEW i \in 1 .. Len(new), NEW j \in 1 .. Len(new), i <= j
               PROVE  Keeps(new[i], new[j])
    OBVIOUS
  <2>1. CASE j \in 1 .. Len(log)
    BY <1>1, <2>1 DEF LogOK
  <2>2. CASE j = Len(new) /\ i \in 1 .. Len(log)
    BY <1>1, <1>3, <2>2
  <2>3. CASE j = Len(new) /\ i = Len(new)
    BY <1>1, <2>3, KeepsRefl
  <2> QED BY <1>1, <2>1, <2>2, <2>3
<1> QED BY <1>1, <1>4, <1>5 DEF LogOK, Current

\* An older copy of a journal is a journal (a restored signer database).
LEMMA LogPrefix ==
    ASSUME NEW log, NEW sigs, LogOK(log, sigs), NEW k \in 1 .. Len(log)
    PROVE  LogOK(SubSeq(log, 1, k), sigs)
<1> DEFINE new == SubSeq(log, 1, k)
<1>1. log \in Seq(State) /\ Len(log) \in Nat
  BY DEF LogOK
<1>2. /\ new \in Seq(State) /\ Len(new) = k
      /\ \A i \in 1 .. k : new[i] = log[i] /\ i \in 1 .. Len(log)
  BY <1>1
<1> HIDE DEF new
<1>3. \A i \in 1 .. Len(new) : StateOK(new[i], sigs)
  BY <1>2 DEF LogOK
<1>4. \A i, j \in 1 .. Len(new) : i <= j => Keeps(new[i], new[j])
  BY <1>2 DEF LogOK
<1>5. LogOK(new, sigs)
  BY <1>2, <1>3, <1>4 DEF LogOK
<1> QED BY <1>5 DEF new

\* A signature more never disturbs a journal.
LEMMA LogSigns ==
    ASSUME NEW log, NEW sigs, NEW more, LogOK(log, sigs), sigs \subseteq more
    PROVE  LogOK(log, more)
BY DEF LogOK, StateOK

\* Prefixes survive an append.
LEMMA PrefixAppend ==
    ASSUME NEW head \in Seq(State), NEW log \in Seq(State), NEW t \in State,
           IsPrefixOf(head, log)
    PROVE  IsPrefixOf(head, Append(log, t))
BY DEF IsPrefixOf

\* The witness may move from a point of the journal to its end (reconcile).
LEMMA WitnessAdvance ==
    ASSUME NEW log, NEW head, NEW sigs \in SUBSET Message, NEW rel \in SUBSET Message,
           LogOK(log, sigs), WitnessOK(head, sigs, rel), IsPrefixOf(head, log)
    PROVE  WitnessOK(log, sigs, rel)
<1>1. /\ log \in Seq(State) /\ Len(log) > 0 /\ Len(log) \in Nat
      /\ head \in Seq(State) /\ Len(head) > 0 /\ Len(head) \in Nat
  BY DEF LogOK, WitnessOK
<1>2. /\ Len(head) \in 1 .. Len(log) /\ Len(log) \in 1 .. Len(log)
      /\ Len(head) <= Len(log)
      /\ Current(head) = log[Len(head)]
  BY <1>1 DEF IsPrefixOf, Current
<1>3. Keeps(Current(head), Current(log))
  BY <1>2 DEF LogOK, Current
<1>4. StateOK(Current(log), sigs)
  BY <1>2 DEF LogOK, Current
<1>5. \A m \in sigs : Current(log).row[m.slot] = m.payload
  <2> SUFFICES ASSUME NEW m \in sigs PROVE Current(log).row[m.slot] = m.payload
    OBVIOUS
  <2>1. m.slot \in Slots /\ m.payload # None
    BY EvidenceAssumption DEF Message, Payloads
  <2> QED BY <1>3, <2>1 DEF Keeps, WitnessOK
<1>6. \A m \in rel : m.slot \in Current(log).stored
  BY <1>3 DEF Keeps, WitnessOK
<1> QED BY <1>1, <1>4, <1>5, <1>6 DEF WitnessOK

-----------------------------------------------------------------------------
(* The reducer *)

\* A reservation of a free slot keeps every row and locks what it precommits.
LEMMA PlanOK ==
    ASSUME NEW s \in State, NEW m \in Message, NEW sigs,
           s.row[m.slot] = None, StateOK(s, sigs)
    PROVE  /\ plan(s, m) \in State
           /\ Keeps(s, plan(s, m))
           /\ StateOK(plan(s, m), sigs)
           /\ plan(s, m).row[m.slot] = m.payload
<1>1. m.slot \in Slots /\ m.payload \in Payloads
  BY DEF Message
<1>2. plan(s, m) \in State
  BY <1>1 DEF plan, State, Payloads, Slots
<1>3. /\ plan(s, m).row[m.slot] = m.payload
      /\ \A k \in Slots : k # m.slot => plan(s, m).row[k] = s.row[k]
      /\ plan(s, m).stored = s.stored
  BY <1>1 DEF plan, State
<1>4. Keeps(s, plan(s, m))
  BY <1>3 DEF Keeps
<1>5. \A k \in s.stored : k \in Slots /\ k # m.slot
  BY DEF StateOK, State
<1>6. plan(s, m).row["precommit"] \in Values
         => plan(s, m).locked = plan(s, m).row["precommit"]
  <2>1. CASE m.slot = "precommit"
    BY <1>3, <2>1, EvidenceAssumption DEF plan
  <2>2. CASE m.slot # "precommit"
    BY <1>3, <2>2 DEF plan, StateOK, Slots
  <2> QED BY <2>1, <2>2
<1>7. StateOK(plan(s, m), sigs)
  BY <1>3, <1>5, <1>6 DEF StateOK
<1> QED BY <1>2, <1>3, <1>4, <1>7

\* Storing the signature of the reserved message.
LEMMA StoredOK ==
    ASSUME NEW s \in State, NEW m \in Message, NEW sigs, m \in sigs,
           s.row[m.slot] = m.payload, StateOK(s, sigs)
    PROVE  /\ stored_state(s, m) \in State
           /\ Keeps(s, stored_state(s, m))
           /\ StateOK(stored_state(s, m), sigs)
           /\ m.slot \in stored_state(s, m).stored
<1>1. /\ m.slot \in Slots /\ m.payload # None
      /\ m = [slot |-> m.slot, payload |-> m.payload]
  BY EvidenceAssumption DEF Message, Payloads
<1>2. stored_state(s, m) \in State /\ Keeps(s, stored_state(s, m))
  BY <1>1 DEF stored_state, State, Keeps
<1>3. StateOK(stored_state(s, m), sigs)
  BY <1>1 DEF stored_state, StateOK
<1> QED BY <1>2, <1>3 DEF stored_state

\* Starting a non-proposer and fencing leave rows, lock and stored alone.
LEMMA FencedOK ==
    ASSUME NEW s \in State, NEW sigs, StateOK(s, sigs), NEW g \in 1 .. MaxGeneration
    PROVE  /\ Fenced(s, g) \in State
           /\ Keeps(s, Fenced(s, g)) /\ StateOK(Fenced(s, g), sigs)
           /\ start_nonproposer(s) \in State
           /\ Keeps(s, start_nonproposer(s)) /\ StateOK(start_nonproposer(s), sigs)
BY DEF Fenced, start_nonproposer, State, Keeps, StateOK

-----------------------------------------------------------------------------
(* The invariant is inductive *)

\* Bootstrap establishes the invariant.
LEMMA SignerInit ==
    Init => SignerInv
<1> SUFFICES ASSUME Init PROVE SignerInv
  OBVIOUS
<1>1. initial \in State
  BY EvidenceAssumption DEF initial, State, Slots
<1>2. StateOK(initial, {}) /\ Keeps(initial, initial)
  BY EvidenceAssumption DEF initial, StateOK, Keeps, Slots
<1>3. /\ <<initial>> \in Seq(State) /\ Len(<<initial>>) = 1
      /\ <<initial>>[1] = initial
  BY <1>1
<1>4. TypeOK
  BY <1>3, EvidenceAssumption DEF Init, TypeOK
<1>5. LogOK(journal, signatures)
  BY <1>2, <1>3 DEF Init, LogOK
<1>6. WitnessOK(witness.head, signatures, released)
  BY <1>2, <1>3 DEF Init, WitnessOK, Current
<1>7. OwnerInv
  BY <1>3 DEF Init, OwnerInv, Reconciles, IsPrefixOf
<1> QED BY <1>4, <1>5, <1>6, <1>7 DEF SignerInv

\* What the invariant says of the last states and of the witness's next move.
LEMMA Facts ==
    ASSUME SignerInv
    PROVE  /\ journal \in Seq(State) /\ Len(journal) \in Nat \ {0}
           /\ witness.head \in Seq(State)
           /\ Current(journal) \in State /\ StateOK(Current(journal), signatures)
           /\ Reconciles => WitnessOK(journal, signatures, released)
           /\ IsPrefixOf(journal, journal)
           /\ \A t \in State : IsPrefixOf(journal, Append(journal, t))
<1>1. /\ journal \in Seq(State) /\ Len(journal) \in Nat \ {0}
      /\ witness.head \in Seq(State)
  BY DEF SignerInv, LogOK, WitnessOK
<1>2. Current(journal) \in State /\ StateOK(Current(journal), signatures)
  BY <1>1, CurrentType DEF SignerInv, LogOK, Current
<1>3. signatures \in SUBSET Message /\ released \in SUBSET Message
  BY DEF SignerInv, TypeOK
<1>4. Reconciles => WitnessOK(journal, signatures, released)
  BY <1>3, WitnessAdvance DEF SignerInv, Reconciles
<1>5. IsPrefixOf(journal, journal)
  BY <1>1 DEF IsPrefixOf
<1> QED BY <1>1, <1>2, <1>4, <1>5, PrefixAppend

\* Opening: the claim, the FENCE event and the reconciliation.
LEMMA OpenSteps ==
    ASSUME SignerInv, OpenClaim \/ OpenFence \/ OpenReconcile
    PROVE  SignerInv'
<1> USE Facts
<1>0. witness \in [gen : 1 .. MaxGeneration, head : Seq(State)] /\ gen \in 1 .. MaxGeneration
  BY DEF SignerInv, TypeOK
<1>1. CASE OpenClaim
  <2>1. TypeOK'
    BY <1>0, <1>1, EvidenceAssumption DEF SignerInv, TypeOK, OpenClaim
  <2>2. LogOK(journal, signatures)' /\ WitnessOK(witness.head, signatures, released)'
    BY <1>1 DEF SignerInv, OpenClaim
  <2>3. OwnerInv'
    BY <1>1 DEF OwnerInv, OpenClaim, Reconciles, IsPrefixOf
  <2> QED BY <2>1, <2>2, <2>3 DEF SignerInv
<1>2. CASE OpenFence
  <2>1. /\ Fenced(Current(journal), gen) \in State
        /\ LogOK(journal', signatures)
    BY <1>0, <1>2, FencedOK, LogAppend DEF SignerInv, OpenFence
  <2>2. TypeOK'
    BY <1>2, <2>1 DEF SignerInv, TypeOK, OpenFence, LogOK
  <2>3. Reconciles'
    BY <1>2, <2>1, PrefixAppend DEF SignerInv, OwnerInv, OpenFence, Reconciles
  <2>4. OwnerInv'
    BY <1>2, <2>3 DEF OwnerInv, OpenFence
  <2> QED BY <1>2, <2>1, <2>2, <2>4 DEF SignerInv, OpenFence
<1>3. CASE OpenReconcile
  <2>1. TypeOK'
    BY <1>0, <1>3 DEF SignerInv, TypeOK, OpenReconcile, Reconciled
  <2>2. LogOK(journal, signatures)' /\ WitnessOK(witness.head, signatures, released)'
    BY <1>3 DEF SignerInv, OpenReconcile, Reconciled
  <2>3. OwnerInv'
    BY <1>3 DEF OwnerInv, OpenReconcile, Reconciled, Reconciles, IsPrefixOf
  <2> QED BY <2>1, <2>2, <2>3 DEF SignerInv
<1> QED BY <1>1, <1>2, <1>3

\* A step that reconciles the witness and leaves the journal alone.
LEMMA ReconcileStep ==
    ASSUME SignerInv, Reconciles, witness' = Reconciled,
           UNCHANGED <<journal, gen, signatures, released>>,
           avail' \in BOOLEAN, loaded' \in Seq(State),
           request' \in Message \cup {None}
    PROVE  /\ LogOK(journal, signatures)' /\ WitnessOK(witness.head, signatures, released)'
           /\ Reconciles' /\ witness'.head = journal
           /\ pc' \in {"idle", "reserved", "witnessed", "release"} => TypeOK'
<1> USE Facts
<1>1. LogOK(journal, signatures)' /\ WitnessOK(witness.head, signatures, released)'
  BY DEF SignerInv, Reconciled
<1>2. Reconciles' /\ witness'.head = journal
  BY DEF Reconciles, Reconciled
<1>3. pc' \in {"idle", "reserved", "witnessed", "release"} => TypeOK'
  BY DEF SignerInv, TypeOK, Reconciled
<1> QED BY <1>1, <1>2, <1>3

\* A step that reconciles the witness and appends one state.
LEMMA AppendStep ==
    ASSUME SignerInv, Reconciles, witness' = Reconciled,
           NEW t \in State, Keeps(Current(journal), t), StateOK(t, signatures),
           journal' = Append(journal, t),
           UNCHANGED <<gen, avail, loaded, signatures, released>>,
           request' \in Message \cup {None}
    PROVE  /\ LogOK(journal, signatures)' /\ WitnessOK(witness.head, signatures, released)'
           /\ Reconciles' /\ Current(journal') = t
           /\ pc' \in {"started", "reserved", "stored"} => TypeOK'
<1> USE Facts
<1>1. LogOK(journal', signatures) /\ Current(journal') = t
  BY LogAppend DEF SignerInv
<1>2. WitnessOK(witness.head, signatures, released)'
  BY DEF Reconciled
<1>3. Reconciles'
  BY DEF Reconciles, Reconciled
<1>4. pc' \in {"started", "reserved", "stored"} => TypeOK'
  BY <1>1 DEF SignerInv, TypeOK, Reconciled, LogOK
<1> QED BY <1>1, <1>2, <1>3, <1>4

\* recover() and start().
LEMMA StartSteps ==
    ASSUME SignerInv, Recover \/ Start \/ StartRecover
    PROVE  SignerInv'
<1> USE Facts
<1>0. /\ avail \in BOOLEAN /\ loaded \in Seq(State) /\ request \in Message \cup {None}
      /\ gen \in 1 .. MaxGeneration
  BY DEF SignerInv, TypeOK
<1>1. CASE Recover \/ StartRecover
  <2>1. /\ Reconciles /\ witness' = Reconciled /\ pc' = "idle"
        /\ UNCHANGED <<journal, gen, request, loaded, signatures, released>>
        /\ avail' \in BOOLEAN
    BY <1>0, <1>1 DEF Recover, StartRecover, Recovers
  <2>2. /\ LogOK(journal, signatures)' /\ WitnessOK(witness.head, signatures, released)'
        /\ Reconciles' /\ TypeOK'
    BY <1>0, <2>1, ReconcileStep
  <2>3. OwnerInv'
    BY <2>1, <2>2 DEF OwnerInv
  <2> QED BY <2>2, <2>3 DEF SignerInv
<1>2. CASE Start
  <2>1. /\ LogOK(journal, signatures)' /\ WitnessOK(witness.head, signatures, released)'
        /\ Reconciles' /\ TypeOK'
    BY <1>0, <1>2, FencedOK, AppendStep DEF Start
  <2>2. OwnerInv'
    BY <1>2, <2>1 DEF OwnerInv, Start
  <2> QED BY <2>1, <2>2 DEF SignerInv
<1> QED BY <1>1, <1>2

\* The first transaction of sign().
LEMMA ReserveStep ==
    ASSUME SignerInv, NEW m \in Message, SignReserve(m)
    PROVE  SignerInv'
<1> USE Facts
<1> DEFINE s == Current(journal)
<1>0. /\ avail \in BOOLEAN /\ loaded \in Seq(State) /\ request' \in Message \cup {None}
      /\ Reconciles /\ witness' = Reconciled /\ request' = m
      /\ UNCHANGED <<gen, avail, loaded, signatures, released>>
  BY DEF SignerInv, TypeOK, SignReserve
<1>1. CASE s.row[m.slot] = None /\ journal' = Append(journal, plan(s, m)) /\ pc' = "reserved"
  <2>1. /\ plan(s, m) \in State /\ Keeps(s, plan(s, m))
        /\ StateOK(plan(s, m), signatures) /\ plan(s, m).row[m.slot] = m.payload
    BY <1>1, PlanOK
  <2>2. /\ LogOK(journal, signatures)' /\ WitnessOK(witness.head, signatures, released)'
        /\ Reconciles' /\ TypeOK' /\ Current(journal') = plan(s, m)
    BY <1>0, <1>1, <2>1, AppendStep
  <2>3. OwnerInv'
    BY <1>0, <1>1, <2>1, <2>2 DEF OwnerInv, Reserved
  <2> QED BY <2>2, <2>3 DEF SignerInv
<1>2. CASE /\ UNCHANGED journal
           /\ \/ pc' = "reserved" /\ s.row[m.slot] = m.payload
              \/ pc' = "release" /\ s.row[m.slot] = m.payload /\ m.slot \in s.stored
              \/ pc' = "idle"
  <2>1. /\ LogOK(journal, signatures)' /\ WitnessOK(witness.head, signatures, released)'
        /\ Reconciles' /\ TypeOK' /\ witness'.head = journal
    BY <1>0, <1>2, ReconcileStep
  <2>2. OwnerInv'
    <3>1. CASE pc' = "reserved" /\ s.row[m.slot] = m.payload
      BY <1>0, <1>2, <2>1, <3>1 DEF OwnerInv, Reserved
    <3>2. CASE pc' = "release" /\ s.row[m.slot] = m.payload /\ m.slot \in s.stored
      <4>1. m = [slot |-> m.slot, payload |-> m.payload]
        BY DEF Message
      <4>2. m \in signatures
        BY <3>2, <4>1 DEF StateOK
      <4> QED BY <1>0, <1>2, <2>1, <3>2, <4>2 DEF OwnerInv
    <3>3. CASE pc' = "idle"
      BY <2>1, <3>3 DEF OwnerInv
    <3> QED BY <1>2, <3>1, <3>2, <3>3
  <2> QED BY <2>1, <2>2 DEF SignerInv
<1> QED BY <1>1, <1>2 DEF SignReserve

\* The witness of the reservation, and the witness of the stored signature.
LEMMA WitnessSteps ==
    ASSUME SignerInv, SignWitness \/ SignRecover
    PROVE  SignerInv'
<1> USE Facts
<1>0. /\ avail \in BOOLEAN /\ loaded \in Seq(State) /\ request \in Message \cup {None}
      /\ loaded' \in Seq(State)
      /\ Reconciles /\ witness' = Reconciled
      /\ UNCHANGED <<journal, gen, avail, request, signatures, released>>
      /\ pc' \in {"witnessed", "release"}
  BY DEF SignerInv, TypeOK, SignWitness, SignRecover, Recovers
<1>1. /\ LogOK(journal, signatures)' /\ WitnessOK(witness.head, signatures, released)'
      /\ Reconciles' /\ TypeOK' /\ witness'.head = journal
  BY <1>0, ReconcileStep
<1>2. CASE SignWitness
  <2>1. OwnerInv'
    BY <1>0, <1>1, <1>2 DEF SignerInv, OwnerInv, SignWitness, Reserved
  <2> QED BY <1>1, <2>1 DEF SignerInv
<1>3. CASE SignRecover
  <2>1. OwnerInv'
    BY <1>0, <1>1, <1>3 DEF SignerInv, OwnerInv, SignRecover
  <2> QED BY <1>1, <2>1 DEF SignerInv
<1> QED BY <1>2, <1>3

\* The key signs; the witness already holds the reservation.
LEMMA KeyStep ==
    ASSUME SignerInv, SignKey
    PROVE  SignerInv'
<1> USE Facts
<1>1. /\ Reserved(journal) /\ loaded = journal /\ witness.head = journal /\ Reconciles
      /\ request \in Message
      /\ signatures' = signatures \cup {request} /\ pc' = "signed"
      /\ UNCHANGED <<journal, witness, gen, avail, request, loaded, released>>
  BY DEF SignerInv, OwnerInv, SignKey, Reserved
<1>2. TypeOK'
  BY <1>1 DEF SignerInv, TypeOK
<1>3. LogOK(journal, signatures)'
  BY <1>1, LogSigns DEF SignerInv
<1>4. WitnessOK(witness.head, signatures, released)'
  <2>1. StateOK(Current(journal), signatures')
    BY <1>1 DEF StateOK
  <2> QED BY <1>1, <2>1 DEF SignerInv, WitnessOK, Reserved
<1>5. OwnerInv'
  BY <1>1 DEF OwnerInv, Reserved, Reconciles
<1> QED BY <1>2, <1>3, <1>4, <1>5 DEF SignerInv

\* The second transaction of sign().
LEMMA StoreStep ==
    ASSUME SignerInv, SignStore
    PROVE  SignerInv'
<1> USE Facts
<1> DEFINE t == stored_state(Current(journal), request)
<1>1. /\ Reserved(journal) /\ Reconciles /\ request \in signatures
      /\ witness' = Reconciled /\ pc' = "stored" /\ journal' = Append(journal, t)
      /\ UNCHANGED <<gen, avail, request, loaded, signatures, released>>
  BY DEF SignerInv, OwnerInv, SignStore
<1>2. request \in Message /\ Current(journal).row[request.slot] = request.payload
  BY <1>1 DEF Reserved
<1>3. /\ t \in State /\ Keeps(Current(journal), t) /\ StateOK(t, signatures)
      /\ request.slot \in t.stored
  BY <1>1, <1>2, StoredOK
<1>4. /\ LogOK(journal, signatures)' /\ WitnessOK(witness.head, signatures, released)'
      /\ Reconciles' /\ TypeOK' /\ Current(journal') = t
  BY <1>1, <1>2, <1>3, AppendStep
<1>5. OwnerInv'
  BY <1>1, <1>3, <1>4 DEF OwnerInv
<1> QED BY <1>4, <1>5 DEF SignerInv

\* Release, failure, death, and a restored signer database.
LEMMA OtherSteps ==
    ASSUME SignerInv,
           Release \/ Fail \/ Crash \/ \E k \in 1 .. Len(journal) : RestoreBackup(k)
    PROVE  SignerInv'
<1> USE Facts
<1>1. CASE Release
  <2>1. request \in signatures /\ request.slot \in Current(witness.head).stored
    BY <1>1 DEF SignerInv, OwnerInv, Release
  <2>2. TypeOK'
    BY <1>1, <2>1 DEF SignerInv, TypeOK, Release
  <2>3. LogOK(journal, signatures)' /\ WitnessOK(witness.head, signatures, released)'
    BY <1>1, <2>1 DEF SignerInv, WitnessOK, Release
  <2>4. OwnerInv'
    BY <1>1 DEF SignerInv, OwnerInv, Release, Reconciles
  <2> QED BY <2>2, <2>3, <2>4 DEF SignerInv
<1>2. CASE Fail \/ Crash
  <2>1. TypeOK'
    BY <1>2 DEF SignerInv, TypeOK, Fail, Crash
  <2>2. LogOK(journal, signatures)' /\ WitnessOK(witness.head, signatures, released)'
    BY <1>2 DEF SignerInv, Fail, Crash
  <2>3. OwnerInv'
    BY <1>2 DEF SignerInv, OwnerInv, Fail, Crash, Reconciles
  <2> QED BY <2>1, <2>2, <2>3 DEF SignerInv
<1>3. CASE \E k \in 1 .. Len(journal) : RestoreBackup(k)
  <2>1. PICK k \in 1 .. Len(journal) : RestoreBackup(k)
    BY <1>3
  <2>2. LogOK(journal', signatures)
    BY <2>1, LogPrefix DEF SignerInv, RestoreBackup
  <2>3. TypeOK'
    BY <2>1, <2>2 DEF SignerInv, TypeOK, RestoreBackup, LogOK
  <2>4. OwnerInv'
    BY <2>1 DEF OwnerInv, RestoreBackup
  <2> QED BY <2>1, <2>2, <2>3, <2>4 DEF SignerInv, RestoreBackup
<1> QED BY <1>1, <1>2, <1>3

\* Every step keeps the invariant.
LEMMA SignerStep ==
    SignerInv /\ [Next]_vars => SignerInv'
<1> SUFFICES ASSUME SignerInv, [Next]_vars PROVE SignerInv'
  OBVIOUS
<1>1. CASE UNCHANGED vars
  BY <1>1 DEF SignerInv, OwnerInv, TypeOK, Reconciles, Reserved, vars
<1>2. CASE OpenClaim \/ OpenFence \/ OpenReconcile
  BY <1>2, OpenSteps
<1>3. CASE Recover \/ Start \/ StartRecover
  BY <1>3, StartSteps
<1>4. CASE \E m \in Message : SignReserve(m)
  BY <1>4, ReserveStep
<1>5. CASE SignWitness \/ SignRecover
  BY <1>5, WitnessSteps
<1>6. CASE SignKey
  BY <1>6, KeyStep
<1>7. CASE SignStore
  BY <1>7, StoreStep
<1>8. CASE Release \/ Fail \/ Crash \/ \E k \in 1 .. Len(journal) : RestoreBackup(k)
  BY <1>8, OtherSteps
<1> QED BY <1>1, <1>2, <1>3, <1>4, <1>5, <1>6, <1>7, <1>8 DEF Next

-----------------------------------------------------------------------------
(* What it gives *)

\* The invariant holds in every state of the durable signer.
THEOREM SignerInvariant == Spec => []SignerInv
BY SignerInit, SignerStep, PTL DEF Spec

\* Both databases and the owner hold well-formed values, and no generation
\* beyond the last is claimed (claim of the witness).
THEOREM TypeCorrect == Spec => []TypeOK
  BY SignerInvariant, PTL DEF SignerInv

\* The key signs only what the witness can prove was reserved: crashes and
\* older copies of the signer database never free a signed slot.
THEOREM SignedWitnessed == Spec => []SignedIsWitnessed
<1>1. SignerInv => SignedIsWitnessed
  BY DEF SignerInv, WitnessOK, SignedIsWitnessed
<1> QED BY <1>1, SignerInvariant, PTL

\* A caller only ever holds messages whose signature the witness covers.
THEOREM ReleasedWitnessed == Spec => []ReleasedIsWitnessed
<1>1. SignerInv => ReleasedIsWitnessed
  BY DEF SignerInv, WitnessOK, ReleasedIsWitnessed
<1> QED BY <1>1, SignerInvariant, PTL

\* A signed precommit for a value is locked in the witnessed journal.
THEOREM PrecommitLocked == Spec => []PrecommitIsLocked
<1>1. SignerInv => PrecommitIsLocked
  <2> SUFFICES ASSUME SignerInv, NEW m \in signatures,
                      m.slot = "precommit", m.payload # Nil
               PROVE  Current(witness.head).locked = m.payload
    BY DEF PrecommitIsLocked
  <2>1. m.payload \in Values
    BY DEF SignerInv, TypeOK, Message, Payloads
  <2> QED BY <2>1 DEF SignerInv, WitnessOK, StateOK
<1> QED BY <1>1, SignerInvariant, PTL

\* A signer whose journal fell behind its witness appends nothing and moves no
\* witness: it can only stop, or lose more of its journal.
THEOREM StaleJournalStops == Spec => StaleJournalNeverReserves
<1>1. SignerInv /\ [Next]_vars
         => [~Reconciles => Len(journal') <= Len(journal) /\ witness' = witness]_vars
  <2> SUFFICES ASSUME SignerInv, [Next]_vars, ~Reconciles
               PROVE  Len(journal') <= Len(journal) /\ witness' = witness
    OBVIOUS
  <2>1. pc = "down" /\ journal \in Seq(State) /\ Len(journal) \in Nat
    BY DEF SignerInv, OwnerInv, LogOK
  <2>2. CASE UNCHANGED vars
    BY <2>1, <2>2 DEF vars
  <2>3. CASE \E k \in 1 .. Len(journal) : RestoreBackup(k)
    <3>1. PICK k \in 1 .. Len(journal) : RestoreBackup(k)
      BY <2>3
    <3>2. Len(SubSeq(journal, 1, k)) = k
      BY <2>1
    <3> QED BY <2>1, <3>1, <3>2 DEF RestoreBackup
  <2>4. CASE ~ UNCHANGED vars /\ ~ \E k \in 1 .. Len(journal) : RestoreBackup(k)
    BY <2>1, <2>4 DEF Next, OpenClaim, OpenFence, OpenReconcile, Recover, Start,
                      StartRecover, SignReserve, SignWitness, SignKey, SignStore,
                      SignRecover, Release, Fail, Crash
  <2> QED BY <2>2, <2>3, <2>4
<1> QED BY <1>1, SignerInvariant, PTL DEF Spec, StaleJournalNeverReserves

\* The durable signer implements the safe key: whatever crashes, fails or is
\* restored, it never signs two payloads for one slot and hands out only what
\* it signed.
THEOREM SignerIsSafe == Spec => SafeSigner
<1>1. Init => Safe!SignerInit
  BY DEF Init, Safe!SignerInit
<1>2. SignerInv /\ [Next]_vars => [Safe!SignerNext]_<<signatures, released>>
  <2> SUFFICES ASSUME SignerInv, [Next]_vars,
                      ~ UNCHANGED <<signatures, released>>
               PROVE  Safe!SignerNext
    OBVIOUS
  <2>1. CASE SignKey
    <3>1. /\ request \in Message
          /\ Current(witness.head).row[request.slot] = request.payload
      BY <2>1 DEF SignerInv, OwnerInv, SignKey, Reserved
    <3>2. \A n \in signatures : n \in Message /\ Current(witness.head).row[n.slot] = n.payload
      BY DEF SignerInv, TypeOK, WitnessOK
    <3>3. \A n \in signatures : n.slot = request.slot => n = request
      BY <3>1, <3>2 DEF Message
    <3>4. Safe!SignSlot(request)
      BY <2>1, <3>3 DEF SignKey, Safe!SignSlot
    <3> QED BY <3>1, <3>4 DEF Safe!SignerNext, Safe!Message, Message
  <2>2. CASE Release
    <3>1. request \in signatures /\ request \in Message
      BY <2>2 DEF SignerInv, OwnerInv, TypeOK, Release
    <3>2. Safe!ReleaseMessage(request)
      BY <2>2, <3>1 DEF Release, Safe!ReleaseMessage
    <3> QED BY <3>1, <3>2 DEF Safe!SignerNext, Safe!Message, Message
  <2>3. CASE ~(SignKey \/ Release)
    BY <2>3 DEF Next, vars, OpenClaim, OpenFence, OpenReconcile, Recover, Start,
                StartRecover, SignReserve, SignWitness, SignStore, SignRecover,
                Fail, Crash, RestoreBackup
  <2> QED BY <2>1, <2>2, <2>3
<1> QED BY <1>1, <1>2, SignerInvariant, PTL DEF Spec, SafeSigner, Safe!SafeSigner

=============================================================================
