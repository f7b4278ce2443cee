-------------------------- MODULE NativeOutboxProofs --------------------------
(***************************************************************************)
(* Proofs about NativeOutbox, for any transactions, peers, workers, tokens *)
(* and timings.                                                            *)
(*                                                                         *)
(* That an acknowledged row is recorded at its receiver depends on where   *)
(* answers come from: an answer can be applied only by the worker that     *)
(* sent the request, to the row it claimed, because a token names one      *)
(* request from the claim to the end of the exchange.                      *)
(***************************************************************************)
EXTENDS NativeOutbox, TLAPS

-----------------------------------------------------------------------------
(* The inductive invariant *)

\* The rows of the outbox: a claim has a token of its own and was counted.
Rows(box) ==
    /\ box \in [Row -> Entry]
    /\ \A r \in Row : box[r].token # None <=> box[r].state = "in_flight"
    /\ \A r, s \in Row : box[r].token = box[s].token /\ box[r].token # None => r = s
    /\ \A r \in Row : box[r].state = "in_flight" => box[r].tries >= 1

Working == [pc : {"claimed", "sent"}, row : Row, token : Tokens,
            clock : 0 .. Timeout, slow : BOOLEAN]

\* Every worker is idle or has a row and a token that no other worker has.
WorkersTyped ==
    /\ worker \in [Workers -> {Idle} \cup Working]
    /\ \A v, w \in Workers : worker[v].token = worker[w].token /\ worker[v] # Idle => v = w

\* Requests and answers with a token are those of a worker that waits for them.
MessagesOwned ==
    /\ net \subseteq [row : Row, token : Tokens \cup {None}]
    /\ replies \subseteq [row : Row, token : Tokens, answer : {"ack", "already_settled", "retry", "permanent"}]
    /\ \A m \in net \cup replies : m.token # None =>
          \E w \in Workers : /\ worker[w].pc = "sent"
                             /\ worker[w].token = m.token /\ worker[w].row = m.row

\* A request has one answer, and once it has been answered it is not under way.
AnsweredOnce ==
    /\ \A a, b \in replies : a.token = b.token => a = b
    /\ \A q \in net, a \in replies : q.token # a.token

\* Answers tell what the receiver has done.
AnswersTrue ==
    /\ \A r \in received : rx[r] # "none"
    /\ \A a \in replies : /\ a.answer = "ack" => a.row \in received
                          /\ a.answer = "already_settled" => rx[a.row] = "settled"
                          /\ a.answer = "permanent" => a.row \in blamed

OutboxInv ==
    /\ TypeOK /\ Rows(outbox)
    /\ WorkersTyped /\ MessagesOwned /\ AnsweredOnce /\ AnswersTrue
    /\ AcknowledgedIsRecorded /\ GivenUpForCause

-----------------------------------------------------------------------------
(* Rows *)

\* The back-off is a delay of at most MaxDelay.
LEMMA DelayBounded ==
    ASSUME NEW n \in 1 .. MaxTries
    PROVE  delay_seconds(n) \in 0 .. MaxDelay
<1>1. n - 1 \in 0 .. MaxTries /\ InitialDelay \in Nat /\ MaxDelay \in Nat
    BY OutboxAssumption
<1>2. PICK d : d = InitialDelay * 2^(n - 1)
    OBVIOUS
<1>3. d \in Nat
    BY <1>1, <1>2, PowerAssumption
<1>4. delay_seconds(n) = IF d < MaxDelay THEN d ELSE MaxDelay
    BY <1>2 DEF delay_seconds
<1>. QED BY <1>1, <1>3, <1>4

\* A worker that is not idle has a row and a token.
LEMMA BusyWorker ==
    ASSUME WorkersTyped, NEW w \in Workers, worker[w].pc # "idle"
    PROVE  /\ worker[w] \in Working /\ worker[w].row \in Row
           /\ worker[w].token \in Tokens /\ worker[w].token # None
BY OutboxAssumption DEF WorkersTyped, Working, Idle

\* Only an owner's row changes when a worker fails, and it gives up its claim.
LEMMA FailKeepsRows ==
    ASSUME Rows(outbox), WorkersTyped, NEW w \in Workers, worker[w].pc # "idle",
           NEW state \in {"retry_wait", "permanent_failure"}, NEW wait,
           Owns(w) => wait \in 0 .. MaxDelay,
           Fail(w, state, wait)
    PROVE  /\ Rows(outbox)'
           /\ \A r \in Row : outbox'[r] # outbox[r] =>
                 Owns(w) /\ r = worker[w].row /\ outbox'[r].state = state
<1>. DEFINE r == worker[w].row
<1>1. r \in Row
    BY BusyWorker
<1>2. CASE ~Owns(w)
    <2>1. outbox' = outbox
        BY <1>2 DEF Fail
    <2>. QED BY <2>1 DEF Rows
<1>3. CASE Owns(w)
    <2>1. outbox' = [outbox EXCEPT ![r] = Done(state, wait, outbox[r].tries)]
        BY <1>3 DEF Fail
    <2>2. Done(state, wait, outbox[r].tries) \in Entry
        BY <1>1, <1>3, OutboxAssumption DEF Done, Entry, Open, Rows
    <2>. HIDE DEF r
    <2>3. /\ outbox' \in [Row -> Entry]
          /\ \A s \in Row : outbox'[s] = IF s = r THEN Done(state, wait, outbox[r].tries) ELSE outbox[s]
        BY <1>1, <2>1, <2>2 DEF Rows
    <2>4. Rows(outbox)'
        BY <2>3 DEF Rows, Done
    <2>. QED BY <1>1, <1>3, <2>3, <2>4 DEF Done, r
<1>. QED BY <1>2, <1>3

LEMMA RetryKeepsRows ==
    ASSUME Rows(outbox), WorkersTyped, NEW w \in Workers, worker[w].pc # "idle", _retry(w)
    PROVE  /\ Rows(outbox)'
           /\ \A r \in Row : outbox'[r] # outbox[r] =>
                 Owns(w) /\ r = worker[w].row /\ outbox'[r].state = "retry_wait"
<1>. DEFINE d == delay_seconds(outbox[worker[w].row].tries)
            wait == IF worker[w].clock < d THEN d - worker[w].clock ELSE 0
<1>1. Fail(w, "retry_wait", wait)
    BY DEF _retry
<1>2. ASSUME Owns(w) PROVE wait \in 0 .. MaxDelay
    <2>1. outbox[worker[w].row].tries \in 1 .. MaxTries
        BY <1>2, BusyWorker, OutboxAssumption DEF Rows, Owns, Entry
    <2>2. d \in 0 .. MaxDelay
        BY <2>1, DelayBounded
    <2>3. worker[w].clock \in Nat /\ MaxDelay \in Nat
        BY BusyWorker, OutboxAssumption DEF Working
    <2>. QED BY <2>2, <2>3
<1>. HIDE DEF wait
<1>. QED BY <1>1, <1>2, FailKeepsRows

LEMMA AcknowledgeKeepsRows ==
    ASSUME Rows(outbox), WorkersTyped, NEW w \in Workers, worker[w].pc # "idle", Acknowledge(w)
    PROVE  /\ Rows(outbox)'
           /\ \A r \in Row : outbox'[r] # outbox[r] =>
                 Owns(w) /\ r = worker[w].row /\ outbox'[r].state = "acknowledged"
<1>. DEFINE r == worker[w].row
<1>1. r \in Row
    BY BusyWorker
<1>2. CASE outbox[r].state = "acknowledged"
    <2>1. outbox' = outbox
        BY <1>2 DEF Acknowledge
    <2>. QED BY <2>1 DEF Rows
<1>3. CASE outbox[r].state # "acknowledged" /\ Owns(w)
    <2>1. outbox' = [outbox EXCEPT ![r] = Done("acknowledged", 0, outbox[r].tries)]
        BY <1>3 DEF Acknowledge
    <2>2. Done("acknowledged", 0, outbox[r].tries) \in Entry
        BY <1>1, OutboxAssumption DEF Done, Entry, Open, Rows
    <2>. HIDE DEF r
    <2>3. /\ outbox' \in [Row -> Entry]
          /\ \A s \in Row : outbox'[s] = IF s = r THEN Done("acknowledged", 0, outbox[r].tries) ELSE outbox[s]
        BY <1>1, <2>1, <2>2 DEF Rows
    <2>4. Rows(outbox)'
        BY <2>3 DEF Rows, Done
    <2>. QED BY <1>1, <1>3, <2>3, <2>4 DEF Done, r
<1>4. CASE outbox[r].state # "acknowledged" /\ ~Owns(w)
    <2>1. outbox' = outbox
        BY <1>4 DEF Acknowledge, Fail
    <2>. QED BY <2>1 DEF Rows
<1>. QED BY <1>2, <1>3, <1>4

LEMMA SettledKeepsRows ==
    ASSUME Rows(outbox), WorkersTyped, NEW w \in Workers, worker[w].pc # "idle",
           AcknowledgeSettled(w)
    PROVE  /\ Rows(outbox)'
           /\ \A r \in Row : outbox'[r] # outbox[r] =>
                 Owns(w) /\ r = worker[w].row /\ outbox'[r].state = "acknowledged"
<1>1. CASE outbox[worker[w].row].state # "acknowledged" /\ Owns(w)
    BY <1>1, AcknowledgeKeepsRows DEF AcknowledgeSettled, Acknowledge
<1>2. CASE ~Owns(w)
    BY <1>2 DEF AcknowledgeSettled, Rows
<1>. QED BY <1>1, <1>2 DEF Owns

\* Insertion touches absent rows only.
LEMMA InsertKeepsRows ==
    ASSUME NEW box, Rows(box), NEW txs, NEW peers
    PROVE  /\ Rows(Insert(box, txs, peers))
           /\ \A r \in Row : Insert(box, txs, peers)[r] # box[r] =>
                 box[r].state = "absent" /\ Insert(box, txs, peers)[r].state = "queued"
<1>. DEFINE new == Insert(box, txs, peers)
            queued == [NoEntry EXCEPT !.state = "queued"]
<1>1. /\ queued \in Entry /\ queued.token = None /\ queued.state = "queued"
    BY OutboxAssumption DEF NoEntry, Entry, Open
<1>. HIDE DEF queued
<1>2. \A r \in Row : new[r] = IF r.tx \in txs /\ r.peer \in peers /\ box[r].state = "absent"
                              THEN queued ELSE box[r]
    BY DEF Insert, queued
<1>3. new = [r \in Row |-> new[r]]
    BY DEF Insert
<1>. HIDE DEF new
<1>4. new \in [Row -> Entry]
    BY <1>1, <1>2, <1>3 DEF Rows
<1>5. Rows(new)
    BY <1>1, <1>2, <1>4 DEF Rows
<1>. QED BY <1>1, <1>2, <1>5 DEF new

\* Expiry returns claims to retry_wait.
LEMMA ExpiredKeepsRows ==
    ASSUME NEW box, Rows(box)
    PROVE  /\ Rows(Expired(box))
           /\ \A r \in Row : /\ Expired(box)[r].token \in {box[r].token, None}
                             /\ Expired(box)[r] # box[r] =>
                                   /\ box[r].state = "in_flight" /\ box[r].lease = 0
                                   /\ Expired(box)[r].state = "retry_wait"
<1>. DEFINE new == Expired(box)
<1>1. \A r \in Row : new[r] = IF box[r].state = "in_flight" /\ box[r].lease = 0
                   THEN [box[r] EXCEPT !.state = "retry_wait", !.token = None]
                   ELSE box[r]
    BY DEF Expired
<1>2. new = [r \in Row |-> new[r]]
    BY DEF Expired
<1>. HIDE DEF new
<1>3. \A r \in Row : new[r] \in Entry
    BY <1>1 DEF Rows, Entry, Open
<1>4. new \in [Row -> Entry]
    BY <1>2, <1>3
<1>5. \A r \in Row : /\ new[r].token \in {box[r].token, None}
                     /\ new[r].token # None <=> new[r].state = "in_flight"
                     /\ new[r].tries = box[r].tries
                     /\ new[r].state = "in_flight" => box[r].state = "in_flight"
    BY <1>1 DEF Rows, Entry
<1>6. Rows(new)
    BY <1>4, <1>5 DEF Rows
<1>7. \A r \in Row : new[r] # box[r] => /\ box[r].state = "in_flight" /\ box[r].lease = 0
                                        /\ new[r].state = "retry_wait"
    BY <1>1 DEF Rows, Entry
<1>. QED BY <1>5, <1>6, <1>7 DEF new

\* The rows a pass over the outbox may leave behind.
LEMMA ClaimKeepsRows ==
    ASSUME NEW box, Rows(box), NEW r \in Row, NEW k \in Tokens,
           k \notin {box[s].token : s \in Row},
           NEW new,
           new = [box EXCEPT ![r] =
                    [state |-> "in_flight", token |-> k, wait |-> 0, lease |-> Lease,
                     tries |-> IF box[r].tries < MaxTries THEN box[r].tries + 1 ELSE MaxTries]]
    PROVE  Rows(new)
<1>. DEFINE claimed == [state |-> "in_flight", token |-> k, wait |-> 0, lease |-> Lease,
                        tries |-> IF box[r].tries < MaxTries THEN box[r].tries + 1 ELSE MaxTries]
<1>1. box[r] \in Entry
    BY DEF Rows
<1>2. /\ claimed \in Entry /\ claimed.tries >= 1
      /\ claimed.state = "in_flight" /\ claimed.token = k /\ k # None
    BY <1>1, OutboxAssumption DEF Entry, Open
<1>. HIDE DEF claimed
<1>3. /\ new \in [Row -> Entry]
      /\ \A s \in Row : new[s] = IF s = r THEN claimed ELSE box[s]
    BY <1>2 DEF Rows, claimed
<1>. QED BY <1>2, <1>3 DEF Rows

\* Ending waits and letting time pass change no state and no claim.
LEMMA WaitsKeepRows ==
    ASSUME NEW box, Rows(box), NEW new \in [Row -> Entry],
           \A r \in Row : /\ new[r].state = box[r].state /\ new[r].token = box[r].token
                          /\ new[r].tries = box[r].tries
    PROVE  Rows(new)
BY DEF Rows

-----------------------------------------------------------------------------
(* Messages *)

\* A worker's claim under a token of its own leaves the others as they are.
LEMMA WorkersKeep ==
    ASSUME WorkersTyped, NEW w \in Workers, NEW s \in {Idle} \cup Working,
           worker' = [worker EXCEPT ![w] = s],
           s # Idle => \A v \in Workers \ {w} : worker[v].token # s.token
    PROVE  WorkersTyped'
<1>1. worker' \in [Workers -> {Idle} \cup Working]
    BY DEF WorkersTyped
<1>2. \A v \in Workers : worker'[v] = IF v = w THEN s ELSE worker[v]
    BY DEF WorkersTyped
<1>3. \A x \in {Idle} \cup Working : x # Idle => x.token # Idle.token
    BY OutboxAssumption DEF Idle, Working
<1>4. ASSUME NEW u \in Workers, NEW v \in Workers, worker'[u].token = worker'[v].token,
             worker'[u] # Idle
      PROVE  u = v
    <2>1. CASE u # w /\ v # w
        BY <2>1, <1>2, <1>4 DEF WorkersTyped
    <2>2. CASE u = w /\ v # w
        BY <2>2, <1>2, <1>4
    <2>3. CASE u # w /\ v = w
        <3>1. s # Idle
            BY <2>3, <1>2, <1>3, <1>4 DEF WorkersTyped
        <3>. QED BY <3>1, <2>3, <1>2, <1>4
    <2>. QED BY <2>1, <2>2, <2>3
<1>. QED BY <1>1, <1>4 DEF WorkersTyped

\* A worker that gives up its exchange closes it.
LEMMA CloseKeeps ==
    ASSUME WorkersTyped, MessagesOwned, AnsweredOnce, AnswersTrue,
           NEW w \in Workers, worker[w].pc # "idle",
           Close({worker[w].token}), worker' = [worker EXCEPT ![w] = Idle],
           UNCHANGED <<rx, received, blamed>>
    PROVE  WorkersTyped' /\ MessagesOwned' /\ AnsweredOnce' /\ AnswersTrue'
<1>. DEFINE k == worker[w].token
<1>1. WorkersTyped'
    BY WorkersKeep
<1>2. k \in Tokens /\ k # None
    BY BusyWorker
<1>. HIDE DEF k
<1>3. /\ net' = {IF q.token = k THEN [row |-> q.row, token |-> None] ELSE q : q \in net}
      /\ replies' = {a \in replies : a.token # k}
    BY DEF Close, k
<1>4. \A q \in net' : q.token # None => q \in net /\ q.token # k
    BY <1>3
<1>5. MessagesOwned'
    <2>1. net' \subseteq [row : Row, token : Tokens \cup {None}]
        BY <1>3 DEF MessagesOwned
    <2>2. replies' \subseteq replies
        BY <1>3
    <2>3. ASSUME NEW m \in net' \cup replies', m.token # None
          PROVE  \E v \in Workers : /\ worker'[v].pc = "sent"
                                    /\ worker'[v].token = m.token /\ worker'[v].row = m.row
        <3>1. m \in net \cup replies /\ m.token # k
            BY <1>3, <1>4, <2>3
        <3>2. PICK v \in Workers : /\ worker[v].pc = "sent"
                                   /\ worker[v].token = m.token /\ worker[v].row = m.row
            BY <3>1, <2>3 DEF MessagesOwned
        <3>3. v # w
            BY <3>1, <3>2 DEF k
        <3>. QED BY <3>2, <3>3 DEF WorkersTyped
    <2>. QED BY <2>1, <2>2, <2>3 DEF MessagesOwned
<1>6. AnsweredOnce'
    <2>1. \A a \in replies' : a \in replies /\ a.token \in Tokens
        BY <1>3 DEF MessagesOwned
    <2>2. \A a, b \in replies' : a.token = b.token => a = b
        BY <2>1 DEF AnsweredOnce
    <2>3. \A q \in net', a \in replies' : q.token # a.token
        BY <2>1, <1>4, OutboxAssumption DEF AnsweredOnce
    <2>. QED BY <2>2, <2>3 DEF AnsweredOnce
<1>7. AnswersTrue'
    BY <1>3 DEF AnswersTrue
<1>. QED BY <1>1, <1>5, <1>6, <1>7

\* Only rx, received and blamed grow: answers stay true.
LEMMA TruthKeeps ==
    ASSUME AnswersTrue, AcknowledgedIsRecorded, GivenUpForCause,
           UNCHANGED <<outbox, replies>>,
           received \subseteq received', blamed \subseteq blamed',
           \A r \in received' : rx'[r] # "none",
           \A r \in Row : rx[r] = "settled" => rx'[r] = "settled", MessagesOwned
    PROVE  AnswersTrue' /\ AcknowledgedIsRecorded' /\ GivenUpForCause'
<1>1. \A a \in replies : a.row \in Row
    BY DEF MessagesOwned
<1>. QED BY <1>1 DEF AnswersTrue, AcknowledgedIsRecorded, GivenUpForCause

-----------------------------------------------------------------------------
(* The invariant is inductive *)

\* Actions that leave the rows, the workers and the messages alone.
LEMMA ReceiverKeeps ==
    ASSUME OutboxInv, UNCHANGED <<sender, outbox, worker, net, replies, reachable, blamed>>,
           rx' \in [Row -> {"none", "mempool", "settled", "rejected"}],
           received \subseteq received', received' \subseteq Row,
           \A r \in received' : rx'[r] # "none",
           \A r \in Row : rx[r] = "settled" => rx'[r] = "settled"
    PROVE  OutboxInv'
<1>. USE DEF OutboxInv, sender
<1>1. TypeOK' /\ Rows(outbox)'
    BY DEF TypeOK, Rows
<1>2. WorkersTyped' /\ MessagesOwned' /\ AnsweredOnce'
    BY DEF WorkersTyped, MessagesOwned, AnsweredOnce
<1>3. AnswersTrue' /\ AcknowledgedIsRecorded' /\ GivenUpForCause'
    BY TruthKeeps
<1>. QED BY <1>1, <1>2, <1>3

\* Actions on the sender's own tables: rows are added, their waits end.
LEMMA TablesKeep ==
    ASSUME OutboxInv, UNCHANGED <<worker, net, replies, reachable, receiver, blamed>>,
           mempool' \subseteq admitted', admitted' \subseteq Txs,
           active' \subseteq Peers, fresh' \subseteq Peers, observed' \in BOOLEAN,
           Rows(outbox'),
           \A r \in Row : outbox'[r].state \in {outbox[r].state, "queued"}
    PROVE  OutboxInv'
<1>. USE DEF OutboxInv, receiver
<1>1. TypeOK'
    BY DEF TypeOK, Rows
<1>2. WorkersTyped' /\ MessagesOwned' /\ AnsweredOnce' /\ AnswersTrue'
    BY DEF WorkersTyped, MessagesOwned, AnsweredOnce, AnswersTrue
<1>3. AcknowledgedIsRecorded' /\ GivenUpForCause'
    BY DEF AcknowledgedIsRecorded, GivenUpForCause
<1>. QED BY <1>1, <1>2, <1>3 DEF Rows

\* Actions of workers: a row of theirs may be decided.
LEMMA DecisionsKeep ==
    ASSUME OutboxInv, UNCHANGED <<sender, reachable, receiver>>,
           Rows(outbox)', WorkersTyped', MessagesOwned', AnsweredOnce', AnswersTrue',
           blamed \subseteq blamed', blamed' \subseteq Row,
           \A r \in Row : outbox'[r].state = "acknowledged" =>
               outbox[r].state = "acknowledged" \/ r \in received \/ rx[r] = "settled",
           \A r \in Row : outbox'[r].state = "permanent_failure" =>
               outbox[r].state = "permanent_failure" \/ r \in blamed'
    PROVE  OutboxInv'
<1>. USE DEF OutboxInv, sender, receiver
<1>1. TypeOK'
    BY DEF TypeOK, Rows, MessagesOwned, WorkersTyped, Idle
<1>2. AcknowledgedIsRecorded' /\ GivenUpForCause'
    BY DEF AcknowledgedIsRecorded, GivenUpForCause, AnswersTrue
<1>. QED BY <1>1, <1>2

LEMMA InvInit == Init => OutboxInv
<1>. SUFFICES ASSUME Init PROVE OutboxInv
    OBVIOUS
<1>. USE DEF Init
<1>1. NoEntry \in Entry /\ NoEntry.token = None /\ NoEntry.state = "absent"
    BY OutboxAssumption DEF NoEntry, Entry
<1>2. Rows(outbox)
    BY <1>1 DEF Rows
<1>3. TypeOK
    BY <1>1, <1>2 DEF TypeOK, Rows, Idle
<1>4. WorkersTyped /\ MessagesOwned /\ AnsweredOnce
    BY DEF WorkersTyped, MessagesOwned, AnsweredOnce
<1>5. AnswersTrue /\ AcknowledgedIsRecorded /\ GivenUpForCause
    BY <1>1 DEF AnswersTrue, AcknowledgedIsRecorded, GivenUpForCause
<1>. QED BY <1>2, <1>3, <1>4, <1>5 DEF OutboxInv

LEMMA AdmitKeeps ==
    ASSUME OutboxInv, NEW t \in Txs, Admit(t)
    PROVE  OutboxInv'
<1>1. Rows(outbox') /\ \A r \in Row : outbox'[r].state \in {outbox[r].state, "queued"}
    BY InsertKeepsRows DEF Admit, OutboxInv
<1>. QED BY <1>1, TablesKeep DEF Admit, OutboxInv, TypeOK

LEMMA LeaveKeeps ==
    ASSUME OutboxInv, NEW t \in Txs, Leave(t)
    PROVE  OutboxInv'
<1>1. Rows(outbox')
    BY DEF Leave, OutboxInv
<1>. QED BY <1>1, TablesKeep DEF Leave, OutboxInv, TypeOK

LEMMA BroadcastKeeps ==
    ASSUME OutboxInv, NEW t \in Txs, Broadcast(t)
    PROVE  OutboxInv'
<1>1. Rows(outbox') /\ \A r \in Row : outbox'[r].state \in {outbox[r].state, "queued"}
    BY InsertKeepsRows DEF Broadcast, OutboxInv
<1>. QED BY <1>1, TablesKeep DEF Broadcast, OutboxInv, TypeOK, sender

LEMMA ReconcileKeeps ==
    ASSUME OutboxInv, NEW w \in Workers, reconcile_pending_transactions(w)
    PROVE  OutboxInv'
<1>. DEFINE box == Insert(outbox, FirstPage, active)
<1>1. /\ Rows(box)
      /\ \A r \in Row : box[r].state \in {outbox[r].state, "queued"}
    BY InsertKeepsRows DEF OutboxInv
<1>2. outbox' = [r \in Row |-> IF /\ w = Loop /\ observed /\ r.peer \in fresh \cap active
                                 /\ box[r].state = "retry_wait"
                               THEN [box[r] EXCEPT !.wait = 0] ELSE box[r]]
    BY DEF reconcile_pending_transactions
<1>. HIDE DEF box
<1>3. \A e \in Entry : /\ [e EXCEPT !.wait = 0] \in Entry
                       /\ [e EXCEPT !.wait = 0].state = e.state
                       /\ [e EXCEPT !.wait = 0].token = e.token
                       /\ [e EXCEPT !.wait = 0].tries = e.tries
    BY OutboxAssumption DEF Entry
<1>4. \A r \in Row : box[r] \in Entry
    BY <1>1 DEF Rows
<1>5. /\ outbox' \in [Row -> Entry]
      /\ \A r \in Row : /\ outbox'[r].state = box[r].state /\ outbox'[r].token = box[r].token
                        /\ outbox'[r].tries = box[r].tries
    BY <1>2, <1>3, <1>4
<1>6. Rows(outbox')
    BY <1>1, <1>5, WaitsKeepRows
<1>7. \A r \in Row : outbox'[r].state \in {outbox[r].state, "queued"}
    BY <1>1, <1>5
<1>8. /\ UNCHANGED <<mempool, admitted, active, worker, net, replies, reachable, receiver, blamed>>
      /\ fresh' \subseteq fresh /\ observed' \in BOOLEAN
    BY DEF reconcile_pending_transactions, OutboxInv, TypeOK
<1>. QED BY <1>6, <1>7, <1>8, TablesKeep DEF OutboxInv, TypeOK

LEMMA ClaimKeeps ==
    ASSUME OutboxInv, NEW w \in Workers, claim_native_transaction_outbox(w)
    PROVE  OutboxInv'
<1>. DEFINE box == Expired(outbox)
<1>1. /\ Rows(box)
      /\ \A r \in Row : box[r].state \in {outbox[r].state, "retry_wait"}
    BY ExpiredKeepsRows DEF OutboxInv
<1>2. PICK r \in Due(box), k \in Tokens :
        /\ k \notin {box[s].token : s \in Row} \cup {worker[v].token : v \in Workers}
        /\ outbox' = [box EXCEPT ![r] =
              [state |-> "in_flight", token |-> k, wait |-> 0, lease |-> Lease,
               tries |-> IF box[r].tries < MaxTries THEN box[r].tries + 1 ELSE MaxTries]]
        /\ worker' = [worker EXCEPT ![w] =
              [pc |-> "claimed", row |-> r, token |-> k, clock |-> 0, slow |-> FALSE]]
    BY DEF claim_native_transaction_outbox
<1>3. r \in Row
    BY DEF Due
<1>. HIDE DEF box
<1>4. Rows(outbox')
    BY <1>1, <1>2, <1>3, ClaimKeepsRows
<1>5. \A s \in Row : outbox'[s].state \in {outbox[s].state, "retry_wait", "in_flight"}
    BY <1>1, <1>2, <1>3 DEF Rows
<1>6. UNCHANGED <<sender, net, replies, reachable, receiver, blamed>> /\ worker[w].pc = "idle"
    BY DEF claim_native_transaction_outbox
<1>7. WorkersTyped'
    <2>. DEFINE s == [pc |-> "claimed", row |-> r, token |-> k, clock |-> 0, slow |-> FALSE]
    <2>1. s \in Working
        BY <1>3, OutboxAssumption DEF Working
    <2>. QED BY <2>1, <1>2, WorkersKeep DEF OutboxInv
<1>8. MessagesOwned'
    <2>1. \A v \in Workers : worker[v].pc = "sent" => v # w /\ worker'[v] = worker[v]
        BY <1>2, <1>6 DEF OutboxInv, WorkersTyped
    <2>. QED BY <2>1, <1>6 DEF OutboxInv, MessagesOwned
<1>9. AnsweredOnce' /\ AnswersTrue'
    BY <1>6 DEF OutboxInv, AnsweredOnce, AnswersTrue, receiver
<1>. QED BY <1>4, <1>5, <1>6, <1>7, <1>8, <1>9, DecisionsKeep DEF OutboxInv, TypeOK, Rows

LEMMA SendKeeps ==
    ASSUME OutboxInv, NEW w \in Workers, Send(w)
    PROVE  OutboxInv'
<1>. DEFINE r == worker[w].row
<1>1. /\ worker[w].pc = "claimed" /\ worker[w] # Idle /\ r \in Row
      /\ worker[w] \in Working /\ worker[w].token \in Tokens
    BY BusyWorker DEF Send, OutboxInv, Idle
<1>2. UNCHANGED <<sender, replies, reachable, receiver>>
    BY DEF Send
\* No message has the token of a worker that has sent nothing.
<1>3. \A m \in net \cup replies : m.token # worker[w].token
    <2>. SUFFICES ASSUME NEW m \in net \cup replies, m.token = worker[w].token PROVE FALSE
        OBVIOUS
    <2>1. PICK v \in Workers : worker[v].pc = "sent" /\ worker[v].token = m.token
        BY <1>1, OutboxAssumption DEF OutboxInv, MessagesOwned
    <2>2. v = w
        BY <2>1, <1>1 DEF OutboxInv, WorkersTyped
    <2>. QED BY <2>1, <2>2, <1>1
<1>4. CASE r.peer \in active
    <2>1. /\ net' = net \cup {[row |-> r, token |-> worker[w].token]}
          /\ worker' = [worker EXCEPT ![w].pc = "sent"]
          /\ UNCHANGED <<outbox, blamed>>
        BY <1>4 DEF Send
    <2>. DEFINE s == [worker[w] EXCEPT !.pc = "sent"]
    <2>2. s \in Working /\ s.token = worker[w].token
        BY <1>1 DEF Working
    <2>3. WorkersTyped'
        <3>1. \A v \in Workers \ {w} : worker[v].token # s.token
            BY <2>2, <1>1 DEF OutboxInv, WorkersTyped
        <3>2. worker' = [worker EXCEPT ![w] = s]
            BY <2>1
        <3>. HIDE DEF s
        <3>. QED BY <2>2, <3>1, <3>2, WorkersKeep DEF OutboxInv
    <2>4. MessagesOwned'
        <3>1. \A v \in Workers : /\ worker'[v].token = worker[v].token /\ worker'[v].row = worker[v].row
                                 /\ worker[v].pc = "sent" => worker'[v].pc = "sent"
              /\ worker'[w].pc = "sent"
            BY <2>1, <1>1 DEF OutboxInv, WorkersTyped, Working
        <3>. QED BY <3>1, <2>1, <1>1, <1>2 DEF OutboxInv, MessagesOwned
    <2>5. AnsweredOnce'
        BY <2>1, <1>2, <1>3 DEF OutboxInv, AnsweredOnce
    <2>6. AnswersTrue'
        BY <2>1, <1>2 DEF OutboxInv, AnswersTrue, receiver
    <2>7. Rows(outbox)'
        BY <2>1 DEF OutboxInv, Rows
    <2>. QED BY <2>1, <2>3, <2>4, <2>5, <2>6, <2>7, <1>2, DecisionsKeep DEF OutboxInv, TypeOK
<1>5. CASE r.peer \notin active
    <2>1. /\ Fail(w, "permanent_failure", 0) /\ worker' = [worker EXCEPT ![w] = Idle]
          /\ blamed' = blamed \cup {r} /\ UNCHANGED net
        BY <1>5 DEF Send
    <2>2. /\ Rows(outbox)'
          /\ \A x \in Row : outbox'[x] # outbox[x] => x = r /\ outbox'[x].state = "permanent_failure"
        BY <2>1, <1>1, FailKeepsRows, OutboxAssumption DEF OutboxInv
    <2>3. WorkersTyped'
        BY <2>1, WorkersKeep DEF OutboxInv
    <2>4. MessagesOwned'
        <3>1. \A v \in Workers : worker[v].pc = "sent" => worker'[v] = worker[v]
            BY <2>1, <1>1 DEF OutboxInv, WorkersTyped
        <3>. QED BY <3>1, <2>1, <1>2 DEF OutboxInv, MessagesOwned
    <2>5. AnsweredOnce' /\ AnswersTrue'
        BY <2>1, <1>2 DEF OutboxInv, AnsweredOnce, AnswersTrue, receiver
    <2>6. blamed \subseteq blamed' /\ blamed' \subseteq Row
        BY <2>1, <1>1 DEF OutboxInv, TypeOK
    <2>7. \A x \in Row : /\ outbox'[x].state = "acknowledged" => outbox[x].state = "acknowledged"
                         /\ outbox'[x].state = "permanent_failure" =>
                              outbox[x].state = "permanent_failure" \/ x \in blamed'
        BY <2>1, <2>2
    <2>. QED BY <2>2, <2>3, <2>4, <2>5, <2>6, <2>7, <1>2, DecisionsKeep
<1>. QED BY <1>4, <1>5

LEMMA AnsweredKeeps ==
    ASSUME OutboxInv, NEW w \in Workers, Answered(w)
    PROVE  OutboxInv'
<1>. DEFINE r == worker[w].row
<1>1. PICK a \in replies :
        /\ a.token = worker[w].token
        /\ CASE a.answer = "ack"       -> Acknowledge(w)
             [] a.answer = "already_settled" -> AcknowledgeSettled(w)
             [] a.answer = "retry"     -> _retry(w)
             [] a.answer = "permanent" -> Fail(w, "permanent_failure", 0)
        /\ replies' = replies \ {a}
    BY DEF Answered
<1>2. /\ worker[w].pc = "sent" /\ worker[w] # Idle /\ worker[w] \in Working
      /\ worker' = [worker EXCEPT ![w] = Idle]
      /\ UNCHANGED <<sender, net, reachable, receiver, blamed>>
    BY BusyWorker DEF Answered, OutboxInv, Idle
\* The answer is to this worker's request, about its row.
<1>3. a.row = r
    <2>1. PICK v \in Workers : /\ worker[v].pc = "sent"
                               /\ worker[v].token = a.token /\ worker[v].row = a.row
        BY OutboxAssumption DEF OutboxInv, MessagesOwned
    <2>2. v = w
        BY <2>1, <1>1, <1>2 DEF OutboxInv, WorkersTyped
    <2>. QED BY <2>1, <2>2
<1>4. a.answer \in {"ack", "already_settled", "retry", "permanent"}
    BY DEF OutboxInv, MessagesOwned
<1>5. WorkersTyped'
    BY <1>2, WorkersKeep DEF OutboxInv
<1>6. MessagesOwned'
    <2>1. ASSUME NEW m \in net' \cup replies', m.token # None
          PROVE  \E v \in Workers : /\ worker'[v].pc = "sent"
                                    /\ worker'[v].token = m.token /\ worker'[v].row = m.row
        <3>1. m \in net \cup replies /\ m.token # a.token
            BY <1>1, <1>2 DEF OutboxInv, AnsweredOnce
        <3>2. PICK v \in Workers : /\ worker[v].pc = "sent"
                                   /\ worker[v].token = m.token /\ worker[v].row = m.row
            BY <3>1, <2>1 DEF OutboxInv, MessagesOwned
        <3>3. v # w
            BY <3>1, <3>2, <1>1
        <3>. QED BY <3>2, <3>3, <1>2 DEF OutboxInv, WorkersTyped
    <2>. QED BY <2>1, <1>1, <1>2 DEF OutboxInv, MessagesOwned
<1>7. AnsweredOnce' /\ AnswersTrue'
    BY <1>1, <1>2 DEF OutboxInv, AnsweredOnce, AnswersTrue, receiver
<1>8. /\ Rows(outbox)'
      /\ \A x \in Row : outbox'[x].state = "acknowledged" =>
            outbox[x].state = "acknowledged" \/ x \in received \/ rx[x] = "settled"
      /\ \A x \in Row : outbox'[x].state = "permanent_failure" =>
            outbox[x].state = "permanent_failure" \/ x \in blamed
    <2>1. CASE a.answer = "ack"
        <3>1. Acknowledge(w)
            BY <2>1, <1>1
        <3>2. r \in received
            BY <2>1, <1>3 DEF OutboxInv, AnswersTrue
        <3>. QED BY <3>1, <3>2, <1>2, AcknowledgeKeepsRows DEF OutboxInv
    <2>4. CASE a.answer = "already_settled"
        <3>1. AcknowledgeSettled(w)
            BY <2>4, <1>1
        <3>2. rx[r] = "settled"
            BY <2>4, <1>3 DEF OutboxInv, AnswersTrue
        <3>. QED BY <3>1, <3>2, <1>2, SettledKeepsRows DEF OutboxInv
    <2>2. CASE a.answer = "retry"
        <3>1. _retry(w)
            BY <2>2, <1>1
        <3>. QED BY <3>1, <1>2, RetryKeepsRows DEF OutboxInv
    <2>3. CASE a.answer = "permanent"
        <3>1. Fail(w, "permanent_failure", 0)
            BY <2>3, <1>1
        <3>2. r \in blamed
            BY <2>3, <1>3 DEF OutboxInv, AnswersTrue
        <3>3. 0 \in 0 .. MaxDelay
            BY OutboxAssumption
        <3>4. /\ Rows(outbox)'
              /\ \A x \in Row : outbox'[x] # outbox[x] => x = r /\ outbox'[x].state = "permanent_failure"
            BY <3>1, <3>3, <1>2, FailKeepsRows DEF OutboxInv
        <3>. QED BY <3>2, <3>4
    <2>. QED BY <2>1, <2>2, <2>3, <2>4, <1>4
<1>. QED BY <1>2, <1>5, <1>6, <1>7, <1>8, DecisionsKeep DEF OutboxInv, TypeOK

LEMMA TransportFailureKeeps ==
    ASSUME OutboxInv, NEW w \in Workers, TransportFailure(w)
    PROVE  OutboxInv'
<1>1. /\ worker[w].pc = "sent" /\ _retry(w) /\ Close({worker[w].token})
      /\ worker' = [worker EXCEPT ![w] = Idle]
      /\ UNCHANGED <<sender, reachable, receiver, blamed>>
    BY DEF TransportFailure
<1>2. WorkersTyped' /\ MessagesOwned' /\ AnsweredOnce' /\ AnswersTrue'
    BY <1>1, CloseKeeps DEF OutboxInv, receiver
<1>3. /\ Rows(outbox)'
      /\ \A r \in Row : outbox'[r] # outbox[r] => outbox'[r].state = "retry_wait"
    BY <1>1, RetryKeepsRows DEF OutboxInv
<1>. QED BY <1>1, <1>2, <1>3, DecisionsKeep DEF OutboxInv, TypeOK

LEMMA AbandonKeeps ==
    ASSUME OutboxInv, NEW w \in Workers, Abandon(w)
    PROVE  OutboxInv'
<1>1. /\ worker[w].pc # "idle" /\ Close({worker[w].token})
      /\ worker' = [worker EXCEPT ![w] = Idle]
      /\ UNCHANGED <<sender, outbox, reachable, receiver, blamed>>
    BY DEF Abandon
<1>2. WorkersTyped' /\ MessagesOwned' /\ AnsweredOnce' /\ AnswersTrue'
    BY <1>1, CloseKeeps DEF OutboxInv, receiver
<1>3. Rows(outbox)'
    BY <1>1 DEF OutboxInv, Rows
<1>. QED BY <1>1, <1>2, <1>3, DecisionsKeep DEF OutboxInv, TypeOK

LEMMA StallKeeps ==
    ASSUME OutboxInv, NEW w \in Workers, Stall(w)
    PROVE  OutboxInv'
<1>. DEFINE s == [worker[w] EXCEPT !.slow = TRUE]
<1>1. /\ worker[w].pc # "idle" /\ worker' = [worker EXCEPT ![w] = s]
      /\ UNCHANGED <<sender, outbox, net, replies, reachable, receiver, blamed>>
    BY DEF Stall
<1>2. worker[w] \in Working /\ worker[w] # Idle
    BY <1>1, BusyWorker DEF OutboxInv, Idle
<1>3. s \in Working /\ s.token = worker[w].token /\ s.pc = worker[w].pc /\ s.row = worker[w].row
    BY <1>2 DEF Working
<1>. HIDE DEF s
<1>4. \A v \in Workers \ {w} : worker[v].token # s.token
    BY <1>2, <1>3 DEF OutboxInv, WorkersTyped
<1>5. WorkersTyped'
    BY <1>1, <1>3, <1>4, WorkersKeep DEF OutboxInv
<1>6. \A v \in Workers : /\ worker'[v].pc = worker[v].pc /\ worker'[v].token = worker[v].token
                         /\ worker'[v].row = worker[v].row
    BY <1>1, <1>3 DEF OutboxInv, WorkersTyped
<1>7. MessagesOwned'
    BY <1>1, <1>6 DEF OutboxInv, MessagesOwned
<1>8. AnsweredOnce' /\ AnswersTrue' /\ Rows(outbox)'
    BY <1>1 DEF OutboxInv, AnsweredOnce, AnswersTrue, receiver, Rows
<1>. QED BY <1>1, <1>5, <1>7, <1>8, DecisionsKeep DEF OutboxInv, TypeOK

LEMMA RestartKeeps ==
    ASSUME OutboxInv, Restart
    PROVE  OutboxInv'
<1>1. /\ worker' = [w \in Workers |-> Idle] /\ observed' = FALSE
      /\ UNCHANGED <<mempool, admitted, outbox, active, fresh, reachable, receiver, blamed>>
    BY DEF Restart
<1>2. net' \subseteq [row : Row, token : {None}] /\ replies' = {}
    <2>1. /\ net' = {IF q.token \in Tokens THEN [row |-> q.row, token |-> None] ELSE q : q \in net}
          /\ replies' = {a \in replies : a.token \notin Tokens}
        BY DEF Restart, Close
    <2>. QED BY <2>1 DEF OutboxInv, MessagesOwned
<1>3. WorkersTyped' /\ MessagesOwned' /\ AnsweredOnce' /\ AnswersTrue'
    BY <1>1, <1>2 DEF OutboxInv, WorkersTyped, MessagesOwned, AnsweredOnce, AnswersTrue, receiver
<1>4. Rows(outbox)' /\ TypeOK'
    BY <1>1, <1>2 DEF OutboxInv, Rows, TypeOK, receiver, Idle
<1>5. AcknowledgedIsRecorded' /\ GivenUpForCause'
    BY <1>1 DEF OutboxInv, AcknowledgedIsRecorded, GivenUpForCause, receiver
<1>. QED BY <1>3, <1>4, <1>5 DEF OutboxInv

LEMMA ReceiveKeeps ==
    ASSUME OutboxInv, NEW q \in net, receive_peer_transaction(q)
    PROVE  OutboxInv'
<1>. DEFINE r == q.row
<1>1. PICK answer \in Answers(r) :
        /\ rx' = IF answer = "ack" /\ rx[r] = "none" THEN [rx EXCEPT ![r] = "mempool"] ELSE rx
        /\ received' = IF answer = "ack" THEN received \cup {r} ELSE received
        /\ blamed' = IF answer = "permanent" THEN blamed \cup {r} ELSE blamed
        /\ replies' = IF q.token = None THEN replies
                      ELSE replies \cup {[row |-> r, token |-> q.token, answer |-> answer]}
    BY DEF receive_peer_transaction
<1>2. net' = net \ {q} /\ UNCHANGED <<sender, outbox, worker, reachable>>
    BY DEF receive_peer_transaction
<1>3. r \in Row /\ q.token \in Tokens \cup {None} /\ q = [row |-> r, token |-> q.token]
    BY DEF OutboxInv, MessagesOwned
<1>4. answer \in {"ack", "already_settled", "retry", "permanent"}
    BY DEF Answers
<1>5. WorkersTyped' /\ Rows(outbox)'
    BY <1>2 DEF OutboxInv, WorkersTyped, Rows
\* The answer takes the place of the request.
<1>6. MessagesOwned'
    <2>1. /\ net' \subseteq [row : Row, token : Tokens \cup {None}]
          /\ replies' \subseteq [row : Row, token : Tokens, answer : {"ack", "already_settled", "retry", "permanent"}]
        BY <1>1, <1>2, <1>3, <1>4 DEF OutboxInv, MessagesOwned
    <2>2. ASSUME NEW m \in net' \cup replies', m.token # None
          PROVE  \E n \in net \cup replies : n.token = m.token /\ n.row = m.row
        BY <1>1, <1>2, <2>2
    <2>3. \A m \in net' \cup replies' : m.token # None =>
            \E w \in Workers : /\ worker[w].pc = "sent"
                               /\ worker[w].token = m.token /\ worker[w].row = m.row
        BY <2>2 DEF OutboxInv, MessagesOwned
    <2>. QED BY <2>1, <2>3, <1>2 DEF MessagesOwned
<1>7. AnsweredOnce'
    <2>1. CASE q.token = None
        BY <2>1, <1>1, <1>2 DEF OutboxInv, AnsweredOnce
    <2>2. CASE q.token # None
        <3>1. \A n \in net' : n.token # q.token
            <4>. SUFFICES ASSUME NEW n \in net', n.token = q.token PROVE FALSE
                OBVIOUS
            <4>1. n \in net /\ n # q /\ n = [row |-> n.row, token |-> n.token]
                BY <1>2 DEF OutboxInv, MessagesOwned
            <4>2. PICK v \in Workers : worker[v].pc = "sent" /\ worker[v].token = n.token /\ worker[v].row = n.row
                BY <4>1, <2>2 DEF OutboxInv, MessagesOwned
            <4>3. PICK w \in Workers : worker[w].pc = "sent" /\ worker[w].token = q.token /\ worker[w].row = q.row
                BY <2>2 DEF OutboxInv, MessagesOwned
            <4>4. v = w
                BY <4>2, <4>3 DEF OutboxInv, WorkersTyped, Idle
            <4>. QED BY <4>1, <4>2, <4>3, <4>4, <1>3
        <3>2. \A a \in replies : a.token # q.token
            BY DEF OutboxInv, AnsweredOnce
        <3>3. replies' = replies \cup {[row |-> r, token |-> q.token, answer |-> answer]}
            BY <1>1, <2>2
        <3>. QED BY <3>1, <3>2, <3>3, <1>2 DEF OutboxInv, AnsweredOnce
    <2>. QED BY <2>1, <2>2
<1>8. /\ rx' \in [Row -> {"none", "mempool", "settled", "rejected"}]
      /\ received \subseteq received' /\ received' \subseteq Row
      /\ blamed \subseteq blamed' /\ blamed' \subseteq Row
      /\ \A x \in Row : rx[x] # "none" => rx'[x] = rx[x]
    BY <1>1, <1>3 DEF OutboxInv, TypeOK
<1>9. answer = "ack" => r \in received' /\ rx'[r] # "none"
    BY <1>1, <1>3 DEF OutboxInv, TypeOK
<1>13. answer = "already_settled" => rx'[r] = "settled"
    BY <1>1 DEF Answers
<1>10. AnswersTrue'
    <2>1. \A x \in received' : rx'[x] # "none"
        BY <1>1, <1>8, <1>9 DEF OutboxInv, AnswersTrue, TypeOK
    <2>2. ASSUME NEW a \in replies'
          PROVE  /\ a.answer = "ack" => a.row \in received'
                 /\ a.answer = "already_settled" => rx'[a.row] = "settled"
                 /\ a.answer = "permanent" => a.row \in blamed'
        <3>1. CASE a \in replies
            BY <3>1, <1>8 DEF OutboxInv, AnswersTrue, MessagesOwned
        <3>2. CASE a \notin replies
            BY <3>2, <1>1, <1>9, <1>13
        <3>. QED BY <3>1, <3>2
    <2>. QED BY <2>1, <2>2 DEF AnswersTrue
<1>11. AcknowledgedIsRecorded' /\ GivenUpForCause'
    BY <1>2, <1>8 DEF OutboxInv, AcknowledgedIsRecorded, GivenUpForCause
<1>12. TypeOK'
    BY <1>2, <1>5, <1>6, <1>8 DEF OutboxInv, TypeOK, sender, MessagesOwned
<1>. QED BY <1>5, <1>6, <1>7, <1>10, <1>11, <1>12 DEF OutboxInv

LEMMA SyncKeeps ==
    ASSUME OutboxInv, NEW p \in Peers, sync_mempool_from_peer(p)
    PROVE  OutboxInv'
<1>1. PICK new \in SUBSET Row :
        /\ rx' = [r \in Row |-> IF r \in new /\ rx[r] = "none" THEN "mempool" ELSE rx[r]]
        /\ received' = received \cup new
        /\ UNCHANGED <<sender, outbox, worker, net, replies, reachable, blamed>>
    <2>. DEFINE row(t) == [tx |-> t, peer |-> p]
                refused == {t \in FirstPage :
                               \/ rx[row(t)] = "rejected"
                               \/ rx[row(t)] = "none" /\ row(t) \in Conflicting \cup Invalid}
                reached(last) == {row(t) : t \in {u \in FirstPage :
                                             /\ TxRank[u] <= TxRank[last]
                                             /\ \A v \in refused : TxRank[u] < TxRank[v]}}
                new(last) == {r \in reached(last) : rx[r] \in {"none", "settled"}}
    <2>1. PICK last \in FirstPage :
            /\ rx' = [r \in Row |-> IF r \in new(last) /\ rx[r] = "none" THEN "mempool" ELSE rx[r]]
            /\ received' = received \cup new(last)
            /\ UNCHANGED <<sender, outbox, worker, net, replies, reachable, blamed>>
        BY DEF sync_mempool_from_peer
    <2>2. \A t \in FirstPage : row(t) \in Row
        BY DEF FirstPage, Row, OutboxInv, TypeOK
    <2>. HIDE DEF row, refused
    <2>3. new(last) \subseteq Row
        BY <2>2
    <2>. HIDE DEF new
    <2>. QED BY <2>1, <2>3
<1>2. /\ rx' \in [Row -> {"none", "mempool", "settled", "rejected"}]
      /\ received' \subseteq Row
      /\ \A r \in received' : rx'[r] # "none"
    BY <1>1 DEF OutboxInv, TypeOK, AnswersTrue
<1>. QED BY <1>1, <1>2, ReceiverKeeps

LEMMA SettleKeeps ==
    ASSUME OutboxInv, NEW r \in Row, Settle(r) \/ Reject(r)
    PROVE  OutboxInv'
<1>1. PICK s \in {"settled", "rejected"} : rx' = [rx EXCEPT ![r] = s] /\ rx[r] # "settled"
    BY DEF Settle, Reject
<1>2. UNCHANGED <<sender, outbox, worker, net, replies, reachable, received, blamed>>
    BY DEF Settle, Reject
<1>3. /\ rx' \in [Row -> {"none", "mempool", "settled", "rejected"}]
      /\ \A x \in received' : rx'[x] # "none"
      /\ \A x \in Row : rx[x] = "settled" => rx'[x] = "settled"
    BY <1>1, <1>2 DEF OutboxInv, TypeOK, AnswersTrue
<1>4. received' \subseteq Row /\ received \subseteq received'
    BY <1>2 DEF OutboxInv, TypeOK
<1>. QED BY <1>2, <1>3, <1>4, ReceiverKeeps

LEMMA LoseKeeps ==
    ASSUME OutboxInv, Lose
    PROVE  OutboxInv'
<1>1. /\ net' \subseteq net /\ replies' \subseteq replies
      /\ UNCHANGED <<sender, outbox, worker, reachable, receiver, blamed>>
    BY DEF Lose
<1>2. WorkersTyped' /\ MessagesOwned' /\ Rows(outbox)'
    BY <1>1 DEF OutboxInv, WorkersTyped, MessagesOwned, Rows
<1>3. AnsweredOnce' /\ AnswersTrue'
    BY <1>1 DEF OutboxInv, AnsweredOnce, AnswersTrue, receiver
<1>. QED BY <1>1, <1>2, <1>3, DecisionsKeep DEF OutboxInv, TypeOK

LEMMA PeerTableKeeps ==
    ASSUME OutboxInv, NEW p \in Peers, Deactivate(p) \/ register_peer(p)
    PROVE  OutboxInv'
<1>1. /\ active' \subseteq Peers /\ fresh' \subseteq Peers
      /\ UNCHANGED <<mempool, admitted, outbox, observed, worker, net, replies, reachable,
                     receiver, blamed>>
    BY DEF OutboxInv, TypeOK, Deactivate, register_peer
<1>2. Rows(outbox')
    BY <1>1 DEF OutboxInv
<1>. QED BY <1>1, <1>2, TablesKeep DEF OutboxInv, TypeOK

LEMMA NetworkKeeps ==
    ASSUME OutboxInv, NEW p \in Peers, Reconnect(p) \/ Disconnect(p)
    PROVE  OutboxInv'
<1>1. /\ reachable' \subseteq Peers
      /\ UNCHANGED <<sender, outbox, worker, net, replies, receiver, blamed>>
    BY DEF OutboxInv, TypeOK, Reconnect, Disconnect
<1>. USE <1>1 DEF OutboxInv, sender, receiver
<1>2. TypeOK' /\ Rows(outbox)'
    BY DEF TypeOK, Rows
<1>3. WorkersTyped' /\ MessagesOwned' /\ AnsweredOnce'
    BY DEF WorkersTyped, MessagesOwned, AnsweredOnce
<1>4. AnswersTrue' /\ AcknowledgedIsRecorded' /\ GivenUpForCause'
    BY DEF AnswersTrue, AcknowledgedIsRecorded, GivenUpForCause
<1>. QED BY <1>2, <1>3, <1>4

LEMMA TickKeeps ==
    ASSUME OutboxInv, Tick
    PROVE  OutboxInv'
<1>1. /\ outbox' = [r \in Row |-> [outbox[r] EXCEPT !.wait = Dec(@), !.lease = Dec(@)]]
      /\ worker' = [w \in Workers |->
                      IF worker[w].pc # "idle" /\ worker[w].clock < Timeout
                      THEN [worker[w] EXCEPT !.clock = @ + 1] ELSE worker[w]]
      /\ UNCHANGED <<sender, net, replies, reachable, receiver, blamed>>
    BY DEF Tick
<1>2. \A n \in Nat : \A m \in 0 .. n : Dec(m) \in 0 .. n
    BY DEF Dec
<1>3. ASSUME NEW r \in Row
      PROVE  /\ outbox'[r] \in Entry
             /\ outbox'[r].state = outbox[r].state /\ outbox'[r].token = outbox[r].token
             /\ outbox'[r].tries = outbox[r].tries
    <2>. DEFINE e == outbox[r]  x == Dec(e.wait)  y == Dec(e.lease)
    <2>1. e \in Entry /\ outbox'[r] = [e EXCEPT !.wait = x, !.lease = y]
        BY <1>1 DEF OutboxInv, Rows
    <2>2. x \in 0 .. MaxDelay /\ y \in 0 .. Lease
        BY <2>1, <1>2, OutboxAssumption DEF Entry
    <2>. HIDE DEF e, x, y
    <2>. QED BY <2>1, <2>2 DEF Entry, e
<1>4. /\ outbox' \in [Row -> Entry]
      /\ \A r \in Row : /\ outbox'[r].state = outbox[r].state /\ outbox'[r].token = outbox[r].token
                        /\ outbox'[r].tries = outbox[r].tries
    BY <1>1, <1>3
<1>5. Rows(outbox')
    BY <1>4, WaitsKeepRows DEF OutboxInv
<1>6. ASSUME NEW w \in Workers
      PROVE  /\ worker'[w] \in {Idle} \cup Working
             /\ worker'[w].pc = worker[w].pc /\ worker'[w].token = worker[w].token
             /\ worker'[w].row = worker[w].row
             /\ worker[w] = Idle => worker'[w] = Idle
    <2>. DEFINE s == worker[w]  c == s.clock + 1
    <2>1. CASE s.pc # "idle" /\ s.clock < Timeout
        <3>1. s \in Working /\ worker'[w] = [s EXCEPT !.clock = c]
            BY <2>1, <1>1, BusyWorker DEF OutboxInv
        <3>2. c \in 0 .. Timeout
            BY <3>1, <2>1, OutboxAssumption DEF Working
        <3>3. s # Idle
            BY <2>1 DEF Idle
        <3>. HIDE DEF s, c
        <3>. QED BY <3>1, <3>2, <3>3 DEF Working, s
    <2>2. CASE ~(s.pc # "idle" /\ s.clock < Timeout)
        <3>1. worker'[w] = s
            BY <2>2, <1>1
        <3>. QED BY <3>1 DEF OutboxInv, WorkersTyped
    <2>. QED BY <2>1, <2>2
<1>7. worker' \in [Workers -> {Idle} \cup Working]
    <2>1. worker' = [w \in Workers |-> worker'[w]]
        BY <1>1, Zenon
    <2>2. \A w \in Workers : worker'[w] \in {Idle} \cup Working
        BY <1>6
    <2>. QED BY <2>1, <2>2
<1>8. WorkersTyped'
    <2>1. ASSUME NEW v \in Workers, NEW w \in Workers,
                 worker'[v].token = worker'[w].token, worker'[v] # Idle
          PROVE  v = w
        <3>1. worker[v].token = worker[w].token
            BY <1>6, <2>1
        <3>2. worker[v] # Idle
            BY <1>6, <2>1
        <3>. QED BY <3>1, <3>2 DEF OutboxInv, WorkersTyped
    <2>. QED BY <2>1, <1>7 DEF WorkersTyped
<1>9. MessagesOwned'
    <2>1. \A w \in Workers : /\ worker[w].pc = "sent" => worker'[w].pc = "sent"
                             /\ worker'[w].token = worker[w].token /\ worker'[w].row = worker[w].row
        BY <1>6
    <2>2. net' = net /\ replies' = replies
        BY <1>1
    <2>. QED BY <2>1, <2>2 DEF OutboxInv, MessagesOwned
<1>10. AnsweredOnce' /\ AnswersTrue'
    BY <1>1 DEF OutboxInv, AnsweredOnce, AnswersTrue, receiver
<1>. QED BY <1>1, <1>4, <1>5, <1>8, <1>9, <1>10, DecisionsKeep DEF OutboxInv, TypeOK

LEMMA InvNext == OutboxInv /\ [Next]_vars => OutboxInv'
<1>. SUFFICES ASSUME OutboxInv, [Next]_vars PROVE OutboxInv'
    OBVIOUS
<1>1. ASSUME NEW t \in Txs, Admit(t) \/ Leave(t) \/ Broadcast(t) PROVE OutboxInv'
    BY <1>1, AdmitKeeps, LeaveKeeps, BroadcastKeeps
<1>2. CASE Restart \/ Lose \/ Tick
    BY <1>2, RestartKeeps, LoseKeeps, TickKeeps
<1>3. ASSUME NEW w \in Workers,
             \/ reconcile_pending_transactions(w)
             \/ claim_native_transaction_outbox(w) \/ Send(w) \/ Answered(w)
             \/ TransportFailure(w) \/ Stall(w) \/ Abandon(w)
      PROVE  OutboxInv'
    BY <1>3, ReconcileKeeps, ClaimKeeps, SendKeeps, AnsweredKeeps, TransportFailureKeeps,
       StallKeeps, AbandonKeeps
<1>4. ASSUME NEW q \in net, receive_peer_transaction(q) PROVE OutboxInv'
    BY <1>4, ReceiveKeeps
<1>5. ASSUME NEW r \in Row, Settle(r) \/ Reject(r) PROVE OutboxInv'
    BY <1>5, SettleKeeps
<1>6. ASSUME NEW p \in Peers,
             \/ sync_mempool_from_peer(p) \/ Reconnect(p) \/ Disconnect(p)
             \/ Deactivate(p) \/ register_peer(p)
      PROVE  OutboxInv'
    BY <1>6, SyncKeeps, NetworkKeeps, PeerTableKeeps
<1>7. CASE UNCHANGED vars
    <2>1. UNCHANGED <<sender, outbox, worker, net, replies, reachable, receiver, blamed>>
        BY <1>7 DEF vars, sender, receiver
    <2>2. Rows(outbox')
        BY <2>1 DEF OutboxInv
    <2>. QED BY <2>1, <2>2, TablesKeep DEF OutboxInv, TypeOK, sender
<1>. QED BY <1>1, <1>2, <1>3, <1>4, <1>5, <1>6, <1>7 DEF Next

LEMMA Invariance == Spec => []OutboxInv
BY InvInit, InvNext, PTL DEF Spec

-----------------------------------------------------------------------------
(* Theorems *)

\* The outbox, the peers' tables and the requests under way stay well formed,
\* a claim token is held by one row at most, and exactly the rows in flight have
\* one (claim_native_transaction_outbox).
THEOREM TypeCorrect == Spec => []TypeOK
<1>1. OutboxInv => TypeOK
    BY DEF OutboxInv
<1>. QED BY <1>1, Invariance, PTL

\* A row is acknowledged only when its receiver has recorded the message, for
\* any losses, delays and restarts (acknowledge_native_transaction_outbox,
\* receive_peer_transaction).
THEOREM AcknowledgedMeansRecorded == Spec => []AcknowledgedIsRecorded
<1>1. OutboxInv => AcknowledgedIsRecorded
    BY DEF OutboxInv
<1>. QED BY <1>1, Invariance, PTL

\* A row is given up only when its receiver refused it or its peer was removed:
\* a worker that lost its claim never ends a row with ack_state_conflict
\* (fail_native_transaction_outbox).
THEOREM GivesUpForCause == Spec => []GivenUpForCause
<1>1. OutboxInv => GivenUpForCause
    BY DEF OutboxInv
<1>. QED BY <1>1, Invariance, PTL

-----------------------------------------------------------------------------
(* Steps *)

\* What a step may do to a row.
RowStep(r) ==
    /\ outbox[r].state \in {"acknowledged", "permanent_failure"}
          => outbox'[r].state = outbox[r].state
    /\ outbox[r].state = "in_flight" /\ outbox'[r].token # outbox[r].token
          => \/ outbox[r].lease = 0
             \/ \E w \in Workers : worker[w].token = outbox[r].token

\* A worker changes its row only as the owner of its claim.
LEMMA OwnerSteps ==
    ASSUME OutboxInv, NEW w \in Workers, worker[w].pc # "idle",
           \A r \in Row : outbox'[r] # outbox[r] => Owns(w) /\ r = worker[w].row
    PROVE  \A r \in Row : RowStep(r)
BY DEF RowStep, Owns

LEMMA OutboxStep == OutboxInv /\ [Next]_vars => \A r \in Row : RowStep(r)
<1>. SUFFICES ASSUME OutboxInv, [Next]_vars PROVE \A r \in Row : RowStep(r)
    OBVIOUS
<1>1. ASSUME NEW t \in Txs, Admit(t) \/ Leave(t) \/ Broadcast(t)
      PROVE  \A r \in Row : RowStep(r)
    <2>1. \A r \in Row : outbox'[r] # outbox[r] => outbox[r].state = "absent"
        BY <1>1, InsertKeepsRows DEF Admit, Leave, Broadcast, OutboxInv
    <2>. QED BY <2>1 DEF RowStep
<1>2. ASSUME NEW w \in Workers, reconcile_pending_transactions(w)
      PROVE  \A r \in Row : RowStep(r)
    <2>. DEFINE box == Insert(outbox, FirstPage, active)
    <2>1. \A r \in Row : box[r] # outbox[r] => outbox[r].state = "absent"
        BY InsertKeepsRows DEF OutboxInv
    <2>2. \A r \in Row : box[r] \in Entry
        BY InsertKeepsRows DEF OutboxInv, Rows
    <2>3. \A r \in Row : outbox'[r] \in {box[r], [box[r] EXCEPT !.wait = 0]}
        BY <1>2 DEF reconcile_pending_transactions
    <2>. HIDE DEF box
    <2>4. \A r \in Row : outbox'[r].state = box[r].state /\ outbox'[r].token = box[r].token
        BY <2>2, <2>3 DEF Entry
    <2>. QED BY <2>1, <2>4 DEF RowStep
<1>3. ASSUME NEW w \in Workers, claim_native_transaction_outbox(w)
      PROVE  \A r \in Row : RowStep(r)
    <2>. DEFINE box == Expired(outbox)
    <2>1. PICK x \in Due(box) : \A r \in Row \ {x} : outbox'[r] = box[r]
        BY <1>3, ExpiredKeepsRows DEF claim_native_transaction_outbox, OutboxInv, Rows
    <2>2. /\ box[x].state \in {"queued", "retry_wait"}
          /\ \A r \in Row : box[r] # outbox[r] => outbox[r].state = "in_flight" /\ outbox[r].lease = 0
        BY <2>1, ExpiredKeepsRows DEF Due, OutboxInv
    <2>. HIDE DEF box
    <2>3. ASSUME NEW r \in Row PROVE RowStep(r)
        <3>1. CASE r # x
            BY <3>1, <2>1, <2>2 DEF RowStep
        <3>2. CASE r = x
            BY <3>2, <2>2 DEF RowStep
        <3>. QED BY <3>1, <3>2
    <2>. QED BY <2>3
<1>4. ASSUME NEW w \in Workers, Send(w) PROVE \A r \in Row : RowStep(r)
    <2>1. CASE worker[w].row.peer \in active
        BY <2>1, <1>4 DEF Send, RowStep
    <2>2. CASE worker[w].row.peer \notin active
        <3>1. Fail(w, "permanent_failure", 0) /\ worker[w].pc # "idle" /\ 0 \in 0 .. MaxDelay
            BY <2>2, <1>4, OutboxAssumption DEF Send
        <3>. QED BY <3>1, FailKeepsRows, OwnerSteps DEF OutboxInv
    <2>. QED BY <2>1, <2>2
<1>5. ASSUME NEW w \in Workers, Answered(w) PROVE \A r \in Row : RowStep(r)
    <2>1. worker[w].pc # "idle" /\ 0 \in 0 .. MaxDelay
        BY <1>5, OutboxAssumption DEF Answered
    <2>2. Acknowledge(w) \/ AcknowledgeSettled(w) \/ _retry(w) \/ Fail(w, "permanent_failure", 0)
        <3>1. PICK a \in replies : CASE a.answer = "ack"       -> Acknowledge(w)
                                     [] a.answer = "already_settled" -> AcknowledgeSettled(w)
                                     [] a.answer = "retry"     -> _retry(w)
                                     [] a.answer = "permanent" -> Fail(w, "permanent_failure", 0)
            BY <1>5 DEF Answered
        <3>2. a.answer \in {"ack", "already_settled", "retry", "permanent"}
            BY DEF OutboxInv, MessagesOwned
        <3>. QED BY <3>1, <3>2
    <2>3. \A r \in Row : outbox'[r] # outbox[r] => Owns(w) /\ r = worker[w].row
        BY <2>1, <2>2, AcknowledgeKeepsRows, SettledKeepsRows, RetryKeepsRows, FailKeepsRows DEF OutboxInv
    <2>. QED BY <2>1, <2>3, OwnerSteps
<1>6. ASSUME NEW w \in Workers, TransportFailure(w) PROVE \A r \in Row : RowStep(r)
    <2>1. worker[w].pc # "idle" /\ _retry(w)
        BY <1>6 DEF TransportFailure
    <2>. QED BY <2>1, RetryKeepsRows, OwnerSteps DEF OutboxInv
<1>7. ASSUME NEW w \in Workers, Stall(w) \/ Abandon(w) PROVE \A r \in Row : RowStep(r)
    BY <1>7 DEF Stall, Abandon, RowStep
<1>8. CASE Tick
    <2>1. \A r \in Row : /\ outbox'[r] = [outbox[r] EXCEPT !.wait = Dec(@), !.lease = Dec(@)]
                         /\ outbox[r] \in Entry
        BY <1>8 DEF Tick, OutboxInv, Rows
    <2>2. \A r \in Row : outbox'[r].state = outbox[r].state /\ outbox'[r].token = outbox[r].token
        BY <2>1 DEF Entry
    <2>. QED BY <2>2 DEF RowStep
<1>9. CASE Restart \/ Lose
    BY <1>9 DEF Restart, Lose, RowStep
<1>10. ASSUME NEW q \in net, receive_peer_transaction(q) PROVE \A r \in Row : RowStep(r)
    BY <1>10 DEF receive_peer_transaction, RowStep
<1>11. ASSUME NEW r \in Row, Settle(r) \/ Reject(r) PROVE \A x \in Row : RowStep(x)
    BY <1>11 DEF Settle, Reject, RowStep
<1>12. ASSUME NEW p \in Peers,
              \/ sync_mempool_from_peer(p) \/ Reconnect(p) \/ Disconnect(p)
              \/ Deactivate(p) \/ register_peer(p)
       PROVE  \A r \in Row : RowStep(r)
    <2>1. UNCHANGED outbox
        BY <1>12 DEF sync_mempool_from_peer, Reconnect, Disconnect, Deactivate, register_peer
    <2>. QED BY <2>1 DEF RowStep
<1>13. CASE UNCHANGED vars
    BY <1>13 DEF vars, RowStep
<1>. QED BY <1>1, <1>2, <1>3, <1>4, <1>5, <1>6, <1>7, <1>8, <1>9, <1>10, <1>11, <1>12, <1>13 DEF Next

\* Acknowledged and failed rows are final, and a claim ends only by its owner or
\* by its lease (claim_native_transaction_outbox).
THEOREM TerminalStaysFinal == Spec => TerminalIsFinal
<1>1. OutboxInv /\ [Next]_vars =>
        [\A r \in Row :
          /\ outbox[r].state \in {"acknowledged", "permanent_failure"}
                => outbox'[r].state = outbox[r].state
          /\ outbox[r].state = "in_flight" /\ outbox'[r].token # outbox[r].token
                => \/ outbox[r].lease = 0
                   \/ \E w \in Workers : worker[w].token = outbox[r].token]_vars
    BY OutboxStep DEF RowStep
<1>. QED BY <1>1, Invariance, PTL DEF Spec, TerminalIsFinal

LEMMA ReceiverStep ==
    OutboxInv /\ [Next]_vars =>
        \A r \in Row : rx'[r] = "mempool" => rx[r] \in {"none", "mempool"}
<1>. SUFFICES ASSUME OutboxInv, [Next]_vars, NEW r \in Row, rx'[r] = "mempool"
              PROVE  rx[r] \in {"none", "mempool"}
    OBVIOUS
<1>1. ASSUME NEW q \in net, receive_peer_transaction(q) PROVE rx[r] \in {"none", "mempool"}
    BY <1>1 DEF receive_peer_transaction, OutboxInv, TypeOK
<1>2. ASSUME NEW p \in Peers, sync_mempool_from_peer(p) PROVE rx[r] \in {"none", "mempool"}
    <2>1. PICK new : rx' = [x \in Row |-> IF x \in new /\ rx[x] = "none" THEN "mempool" ELSE rx[x]]
        BY <1>2, Zenon DEF sync_mempool_from_peer
    <2>. QED BY <2>1
<1>3. ASSUME NEW x \in Row, Settle(x) \/ Reject(x) PROVE rx[r] \in {"none", "mempool"}
    BY <1>3 DEF Settle, Reject, OutboxInv, TypeOK
<1>4. CASE UNCHANGED rx
    BY <1>4
<1>5. CASE Restart \/ Lose \/ Tick \/ UNCHANGED vars
    BY <1>4, <1>5 DEF Restart, Lose, Tick, vars, receiver
<1>6. ASSUME NEW t \in Txs, Admit(t) \/ Leave(t) \/ Broadcast(t) PROVE UNCHANGED rx
    BY <1>6 DEF Admit, Leave, Broadcast, receiver
<1>7. ASSUME NEW w \in Workers,
             \/ reconcile_pending_transactions(w)
             \/ claim_native_transaction_outbox(w) \/ Send(w) \/ Answered(w)
             \/ TransportFailure(w) \/ Stall(w) \/ Abandon(w)
      PROVE  UNCHANGED rx
    BY <1>7 DEF reconcile_pending_transactions, claim_native_transaction_outbox, Send, Answered,
         TransportFailure, Stall, Abandon, receiver
<1>8. ASSUME NEW p \in Peers, Reconnect(p) \/ Disconnect(p) \/ Deactivate(p) \/ register_peer(p)
      PROVE  UNCHANGED rx
    BY <1>8 DEF Reconnect, Disconnect, Deactivate, register_peer, receiver
<1>. QED BY <1>1, <1>2, <1>3, <1>4, <1>5, <1>6, <1>7, <1>8 DEF Next

\* Late and repeated deliveries never bring a settled or rejected transaction
\* back to the receiver's mempool (receive_peer_transaction, sync_mempool_from_peer).
THEOREM LateDeliveriesAreHarmless == Spec => LateDeliveryIsHarmless
<1>1. OutboxInv /\ [Next]_vars =>
        [\A r \in Row : rx'[r] = "mempool" => rx[r] \in {"none", "mempool"}]_vars
    BY ReceiverStep
<1>. QED BY <1>1, Invariance, PTL DEF Spec, LateDeliveryIsHarmless

=============================================================================
