---------------------------- MODULE NativeOutbox ----------------------------
(***************************************************************************)
(* Durable delivery of pending native transactions to peers.               *)
(*                                                                         *)
(* The sender keeps one outbox row per transaction and destination in its  *)
(* SQLite store.  Workers (the runtime loop and the sweeps of the          *)
(* broadcast endpoint) claim a row under a lease, do the HTTP exchange     *)
(* outside any transaction, and apply the outcome if the claim is still    *)
(* theirs.  The receiver admits the transaction and records the message    *)
(* identity in one transaction, then answers.  Requests and answers are    *)
(* lost or late, workers stall past their lease, processes die, peers are  *)
(* deactivated and register again, and chain sync may bring a transaction  *)
(* first.                                                                  *)
(*                                                                         *)
(* Time is discrete.  A row counts down to its next attempt and to the end *)
(* of its lease; a worker counts the time of its request.                  *)
(***************************************************************************)
EXTENDS Naturals, FiniteSets

CONSTANTS
    Txs,          \* signed native transactions
    Peers,        \* destinations
    TxRank,       \* admission order of the transactions
    PeerRank,     \* order of the outbox identifiers of one transaction
    Workers,      \* delivery workers
    Loop,         \* the runtime loop, the worker that reconciles
    Tokens,       \* claim tokens: one per worker and per row at least
    None,
    Steady,       \* peers that stay registered and, once connected, reachable
    Conflicting,  \* rows the receiver's state refuses with a retryable reason
    Invalid,      \* rows the receiver refuses for good
    Timeout, Lease, InitialDelay, MaxDelay,
    MaxTries,     \* the attempt count from which the delay is MaxDelay
    Page          \* transactions per reconciliation round and summary page

Row == [tx : Txs, peer : Peers]

ASSUME OutboxAssumption ==
    /\ Loop \in Workers /\ None \notin Tokens \cup Row
    /\ Steady \subseteq Peers
    /\ Conflicting \subseteq Row /\ Invalid \subseteq Row
    /\ TxRank \in [Txs -> Nat] /\ PeerRank \in [Peers -> Nat]
    /\ {Timeout, Lease, InitialDelay, MaxDelay, MaxTries, Page} \subseteq Nat \ {0}
    /\ InitialDelay * 2^(MaxTries - 1) >= MaxDelay
    /\ \A p \in Steady, t \in Txs : [tx |-> t, peer |-> p] \notin Invalid

\* Arithmetic, named because the provers have no theory of exponents.
ASSUME PowerAssumption == \A n \in 0 .. MaxTries : 2^n \in Nat

VARIABLES
    mempool,    \* the sender's pending transactions
    admitted,   \* every transaction the sender has admitted
    outbox,     \* the rows
    active,     \* peers whose status is active
    fresh,      \* peers registered since the loop last observed them
    observed,   \* the loop has observed the peers since it started
    worker,     \* what each worker is doing
    net,        \* requests under way
    replies,    \* answers under way
    reachable,  \* peers the network reaches
    rx,         \* receiver: status of the transaction of each row
    received,   \* receiver: rows whose message identity is recorded
    blamed      \* rows whose receiver refused them, or whose peer was removed

vars == <<mempool, admitted, outbox, active, fresh, observed, worker, net,
          replies, reachable, rx, received, blamed>>

sender   == <<mempool, admitted, active, fresh, observed>>
receiver == <<rx, received>>

-----------------------------------------------------------------------------
(* Rows *)

Open == {"queued", "in_flight", "retry_wait"}

Entry == [state : {"absent", "acknowledged", "permanent_failure"} \cup Open,
          token : Tokens \cup {None},
          wait  : 0 .. MaxDelay,
          lease : 0 .. Lease,
          tries : 0 .. MaxTries]

NoEntry == [state |-> "absent", token |-> None, wait |-> 0, lease |-> 0, tries |-> 0]

Idle == [pc |-> "idle", row |-> None, token |-> None, clock |-> 0, slow |-> FALSE]

\* ORDER BY created_at, outbox_id
Before(r, s) ==
    \/ TxRank[r.tx] < TxRank[s.tx]
    \/ r.tx = s.tx /\ PeerRank[r.peer] < PeerRank[s.peer]

\* Mutant of delay_seconds: no back-off.
NoBackOff(n) == InitialDelay

delay_seconds(n) ==
    LET d == InitialDelay * 2^(n - 1) IN IF d < MaxDelay THEN d ELSE MaxDelay

\* Idempotent insertion of the rows of the given transactions and peers.
Insert(box, txs, peers) ==
    [r \in Row |-> IF r.tx \in txs /\ r.peer \in peers /\ box[r].state = "absent"
                   THEN [NoEntry EXCEPT !.state = "queued"] ELSE box[r]]

\* The first Page pending transactions.
FirstPage ==
    {t \in mempool : Cardinality({u \in mempool : TxRank[u] < TxRank[t]}) < Page}

-----------------------------------------------------------------------------

Init ==
    /\ mempool = {} /\ admitted = {}
    /\ outbox = [r \in Row |-> NoEntry]
    /\ active = Peers /\ fresh = {} /\ observed = FALSE
    /\ worker = [w \in Workers |-> Idle]
    /\ net = {} /\ replies = {}
    /\ reachable \in SUBSET Peers
    /\ rx = [r \in Row |-> "none"]
    /\ received = {} /\ blamed = {}

\* Local admission to the mempool and the rows of all active peers, in one
\* transaction.
Admit(t) ==
    /\ t \notin admitted
    /\ \A u \in Txs : TxRank[u] < TxRank[t] => u \in admitted
    /\ admitted' = admitted \cup {t}
    /\ mempool' = mempool \cup {t}
    /\ outbox' = Insert(outbox, {t}, active)
    /\ UNCHANGED <<active, fresh, observed, worker, net, replies, reachable,
                   receiver, blamed>>

\* The transaction leaves the sender's mempool; its rows stay.
Leave(t) ==
    /\ t \in mempool
    /\ mempool' = mempool \ {t}
    /\ UNCHANGED <<admitted, outbox, active, fresh, observed, worker, net, replies,
                   reachable, receiver, blamed>>

\* The broadcast endpoint enqueues a transaction whatever its status.
Broadcast(t) ==
    /\ t \in admitted
    /\ outbox' = Insert(outbox, {t}, active)
    /\ UNCHANGED <<sender, worker, net, replies, reachable, receiver, blamed>>

\* Rows for the pending transactions; the loop, once it has observed the peers,
\* also ends the retry waits of those that have registered since.
reconcile_pending_transactions(w) ==
    /\ worker[w].pc = "idle"
    /\ LET box == Insert(outbox, FirstPage, active)
       IN  outbox' = [r \in Row |->
                        IF /\ w = Loop /\ observed /\ r.peer \in fresh \cap active
                           /\ box[r].state = "retry_wait"
                        THEN [box[r] EXCEPT !.wait = 0] ELSE box[r]]
    /\ fresh' = IF w = Loop THEN {} ELSE fresh
    /\ observed' = (observed \/ w = Loop)
    /\ UNCHANGED <<mempool, admitted, active, worker, net, replies, reachable,
                   receiver, blamed>>

-----------------------------------------------------------------------------
(* Workers *)

\* Expired claims go back to retry_wait ...
Expired(box) ==
    [r \in Row |-> IF box[r].state = "in_flight" /\ box[r].lease = 0
                   THEN [box[r] EXCEPT !.state = "retry_wait", !.token = None]
                   ELSE box[r]]

Due(box) ==
    {r \in Row : box[r].state \in {"queued", "retry_wait"} /\ box[r].wait = 0}

\* ... and the first due row is claimed under a fresh token.
claim_native_transaction_outbox(w) ==
    /\ worker[w].pc = "idle"
    /\ LET box == Expired(outbox) IN
       \E r \in Due(box), k \in Tokens :
          /\ \A s \in Due(box) : ~Before(s, r)
          /\ k \notin {box[s].token : s \in Row} \cup {worker[v].token : v \in Workers}
          /\ outbox' = [box EXCEPT ![r] =
                [state |-> "in_flight", token |-> k, wait |-> 0, lease |-> Lease,
                 tries |-> IF @.tries < MaxTries THEN @.tries + 1 ELSE MaxTries]]
          /\ worker' = [worker EXCEPT ![w] =
                [pc |-> "claimed", row |-> r, token |-> k, clock |-> 0, slow |-> FALSE]]
    /\ UNCHANGED <<sender, net, replies, reachable, receiver, blamed>>

Owns(w) == /\ outbox[worker[w].row].state = "in_flight"
           /\ outbox[worker[w].row].token = worker[w].token

Done(state, wait, tries) ==
    [state |-> state, token |-> None, wait |-> wait, lease |-> 0, tries |-> tries]

\* Mutant of Fail: the claim token is not compared.
FailUnowned(w, state, wait) ==
    outbox' = [outbox EXCEPT ![worker[w].row] = Done(state, wait, @.tries)]

\* fail_native_transaction_outbox: only the owner's claim is failed.
Fail(w, state, wait) ==
    LET r == worker[w].row IN
    outbox' = IF Owns(w) THEN [outbox EXCEPT ![r] = Done(state, wait, @.tries)]
              ELSE outbox

\* The next attempt is scheduled from the time of the claim.
_retry(w) ==
    LET d == delay_seconds(outbox[worker[w].row].tries)
        spent == worker[w].clock
    IN  Fail(w, "retry_wait", IF spent < d THEN d - spent ELSE 0)

\* Mutant of Acknowledge: the claim is not cleared.
AcknowledgeKeepsClaim(w) ==
    outbox' = IF Owns(w) THEN [outbox EXCEPT ![worker[w].row].state = "acknowledged"]
              ELSE outbox

\* acknowledge_native_transaction_outbox: acknowledged already, or owned; else
\* ack_state_conflict, a permanent failure that only an owner could record.
Acknowledge(w) ==
    LET r == worker[w].row IN
    IF outbox[r].state = "acknowledged" THEN outbox' = outbox
    ELSE IF Owns(w)
    THEN outbox' = [outbox EXCEPT ![r] = Done("acknowledged", 0, @.tries)]
    ELSE Fail(w, "permanent_failure", 0)

\* The destination must still be active; the request then leaves the node.
Send(w) ==
    /\ worker[w].pc = "claimed"
    /\ LET r == worker[w].row IN
       IF r.peer \in active
       THEN /\ net' = net \cup {[row |-> r, token |-> worker[w].token]}
            /\ worker' = [worker EXCEPT ![w].pc = "sent"]
            /\ UNCHANGED <<outbox, blamed>>
       ELSE /\ Fail(w, "permanent_failure", 0)
            /\ worker' = [worker EXCEPT ![w] = Idle]
            /\ blamed' = blamed \cup {r}
            /\ UNCHANGED net
    /\ UNCHANGED <<sender, replies, reachable, receiver>>

\* A refusal that names a success: what the store says of the row is not looked at.
AcknowledgeSettled(w) ==
    outbox' = IF Owns(w) THEN [outbox EXCEPT ![worker[w].row] = Done("acknowledged", 0, @.tries)]
              ELSE outbox

\* The answer arrives and is applied.
Answered(w) ==
    /\ worker[w].pc = "sent"
    /\ \E a \in replies :
          /\ a.token = worker[w].token
          /\ CASE a.answer = "ack"       -> Acknowledge(w)
               [] a.answer = "already_settled" -> AcknowledgeSettled(w)
               [] a.answer = "retry"     -> _retry(w)
               [] a.answer = "permanent" -> Fail(w, "permanent_failure", 0)
          /\ replies' = replies \ {a}
    /\ worker' = [worker EXCEPT ![w] = Idle]
    /\ UNCHANGED <<sender, net, reachable, receiver, blamed>>

\* Giving up closes the connections: a request that has left may still be
\* received, its answer has nowhere to go.
Close(ks) ==
    /\ net' = {IF q.token \in ks THEN [row |-> q.row, token |-> None] ELSE q : q \in net}
    /\ replies' = {a \in replies : a.token \notin ks}

\* The request times out, or the connection fails.
TransportFailure(w) ==
    /\ worker[w].pc = "sent"
    /\ \/ worker[w].clock >= Timeout
       \/ worker[w].row.peer \notin reachable
    /\ _retry(w)
    /\ Close({worker[w].token})
    /\ worker' = [worker EXCEPT ![w] = Idle]
    /\ UNCHANGED <<sender, reachable, receiver, blamed>>

\* A worker that is not scheduled: its lease may run out.
Stall(w) ==
    /\ worker[w].pc # "idle" /\ ~worker[w].slow
    /\ worker' = [worker EXCEPT ![w].slow = TRUE]
    /\ UNCHANGED <<sender, outbox, net, replies, reachable, receiver, blamed>>

\* An exception ends the sweep with the row still claimed.
Abandon(w) ==
    /\ worker[w].pc # "idle"
    /\ Close({worker[w].token})
    /\ worker' = [worker EXCEPT ![w] = Idle]
    /\ UNCHANGED <<sender, outbox, reachable, receiver, blamed>>

\* The sender's process dies and starts again.
Restart ==
    /\ Close(Tokens)
    /\ worker' = [w \in Workers |-> Idle]
    /\ observed' = FALSE
    /\ UNCHANGED <<mempool, admitted, outbox, active, fresh, reachable, receiver, blamed>>

-----------------------------------------------------------------------------
(* The receiver *)

\* What the receiver may answer: an acknowledgement for a transaction it admits
\* or already has, the refusal of one that its chain has and its record does not
\* say so, a retryable refusal by its current state, or a refusal for good.
Answers(r) ==
    (IF \/ rx[r] \in {"mempool", "settled"}
        \/ rx[r] = "none" /\ r \notin Conflicting \cup Invalid
     THEN {"ack"} ELSE {})
    \cup (IF rx[r] = "settled" THEN {"already_settled"} ELSE {})
    \cup (IF \/ rx[r] \in {"mempool", "rejected"} \/ r.peer \notin Steady
             \/ rx[r] = "none" /\ r \in Conflicting
          THEN {"retry"} ELSE {})
    \cup (IF r \in Invalid \/ rx[r] = "rejected" \/ r.peer \notin Steady
          THEN {"permanent"} ELSE {})

\* Mutant: the message is not recorded.
ReceiveUnrecorded(q) ==
    /\ q.row.peer \in reachable
    /\ net' = net \ {q}
    /\ rx' = IF rx[q.row] = "none" THEN [rx EXCEPT ![q.row] = "mempool"] ELSE rx
    /\ replies' = replies \cup
          {[row |-> q.row, token |-> k, answer |-> "ack"] : k \in {q.token} \ {None}}
    /\ UNCHANGED <<sender, outbox, worker, reachable, received, blamed>>

\* Admission and message record commit together, before the answer.
receive_peer_transaction(q) ==
    /\ q.row.peer \in reachable
    /\ net' = net \ {q}
    /\ LET r == q.row IN
       \E answer \in Answers(r) :
          /\ rx' = IF answer = "ack" /\ rx[r] = "none"
                   THEN [rx EXCEPT ![r] = "mempool"] ELSE rx
          /\ received' = IF answer = "ack" THEN received \cup {r} ELSE received
          /\ blamed' = IF answer = "permanent" THEN blamed \cup {r} ELSE blamed
          /\ replies' = IF q.token = None THEN replies
                        ELSE replies \cup {[row |-> r, token |-> q.token, answer |-> answer]}
    /\ UNCHANGED <<sender, outbox, worker, reachable>>

\* The receiver's own loop pulls the first page of the sender's mempool, in
\* order, and stops at the first transaction it refuses or cannot fetch.
sync_mempool_from_peer(p) ==
    LET row(t)  == [tx |-> t, peer |-> p]
        refused == {t \in FirstPage :
                       \/ rx[row(t)] = "rejected"
                       \/ rx[row(t)] = "none" /\ row(t) \in Conflicting \cup Invalid}
    IN  \E last \in FirstPage :
           LET reached == {row(t) : t \in {u \in FirstPage :
                                             /\ TxRank[u] <= TxRank[last]
                                             /\ \A v \in refused : TxRank[u] < TxRank[v]}}
               new     == {r \in reached : rx[r] \in {"none", "settled"}}
           IN  /\ p \in reachable /\ ~(new \subseteq received)
               /\ rx' = [r \in Row |-> IF r \in new /\ rx[r] = "none" THEN "mempool" ELSE rx[r]]
               /\ received' = received \cup new
               /\ UNCHANGED <<sender, outbox, worker, net, replies, reachable, blamed>>

\* A block settles the transaction at the receiver, gossiped before or not.
Settle(r) ==
    /\ r.tx \in admitted /\ rx[r] \in {"none", "mempool", "rejected"}
    /\ r \notin Invalid
    /\ rx' = [rx EXCEPT ![r] = "settled"]
    /\ UNCHANGED <<sender, outbox, worker, net, replies, reachable, received, blamed>>

\* The receiver's mempool revalidation drops the transaction.
Reject(r) ==
    /\ r.peer \notin Steady
    /\ rx[r] = "mempool"
    /\ rx' = [rx EXCEPT ![r] = "rejected"]
    /\ UNCHANGED <<sender, outbox, worker, net, replies, reachable, received, blamed>>

-----------------------------------------------------------------------------
(* Environment *)

Lose ==
    /\ \/ \E q \in net : q.row.peer \notin reachable /\ net' = net \ {q} /\ UNCHANGED replies
       \/ \E a \in replies :
             a.row.peer \notin reachable /\ replies' = replies \ {a} /\ UNCHANGED net
    /\ UNCHANGED <<sender, outbox, worker, reachable, receiver, blamed>>

Reconnect(p) ==
    /\ p \notin reachable
    /\ reachable' = reachable \cup {p}
    /\ UNCHANGED <<sender, outbox, worker, net, replies, receiver, blamed>>

Disconnect(p) ==
    /\ p \in reachable \ Steady
    /\ reachable' = reachable \ {p}
    /\ UNCHANGED <<sender, outbox, worker, net, replies, receiver, blamed>>

Deactivate(p) ==
    /\ p \in active \ Steady
    /\ active' = active \ {p}
    /\ UNCHANGED <<mempool, admitted, outbox, fresh, observed, worker, net, replies,
                   reachable, receiver, blamed>>

\* A registration, or the renewal of one.
register_peer(p) ==
    /\ p \notin fresh
    /\ active' = active \cup {p}
    /\ fresh' = fresh \cup {p}
    /\ UNCHANGED <<mempool, admitted, outbox, observed, worker, net, replies,
                   reachable, receiver, blamed>>

Dec(n) == IF n > 0 THEN n - 1 ELSE 0

\* Time passes, but not past the time-out of a worker that is running.
Tick ==
    /\ \A w \in Workers :
          worker[w].pc # "idle" /\ ~worker[w].slow => worker[w].clock < Timeout
    /\ outbox' = [r \in Row |-> [outbox[r] EXCEPT !.wait = Dec(@), !.lease = Dec(@)]]
    /\ worker' = [w \in Workers |->
                    IF worker[w].pc # "idle" /\ worker[w].clock < Timeout
                    THEN [worker[w] EXCEPT !.clock = @ + 1] ELSE worker[w]]
    /\ UNCHANGED <<sender, net, replies, reachable, receiver, blamed>>

-----------------------------------------------------------------------------

Next ==
    \/ \E t \in Txs : Admit(t) \/ Leave(t) \/ Broadcast(t)
    \/ Restart \/ Lose \/ Tick
    \/ \E w \in Workers :
          \/ reconcile_pending_transactions(w)
          \/ claim_native_transaction_outbox(w) \/ Send(w) \/ Answered(w)
          \/ TransportFailure(w) \/ Stall(w) \/ Abandon(w)
    \/ \E q \in net : receive_peer_transaction(q)
    \/ \E r \in Row : Settle(r) \/ Reject(r)
    \/ \E p \in Peers :
          \/ sync_mempool_from_peer(p) \/ Reconnect(p) \/ Disconnect(p)
          \/ Deactivate(p) \/ register_peer(p)

Spec == Init /\ [][Next]_vars

\* Workers and reachable peers are quick: only a request to a peer that cannot
\* be reached takes time.
PromptTick ==
    /\ \A w \in Workers : /\ worker[w].pc # "claimed"
                          /\ worker[w].pc = "idle" => Due(Expired(outbox)) = {}
    /\ replies = {}
    /\ \A q \in net : q.token # None => q.row.peer \notin reachable
    /\ Tick

\* Delivery once the process and the peer table are stable, so that there are
\* no rows to add: steady peers come back within reach and stay, the others are
\* never reached.
Delivery ==
    \/ \E t \in Txs : Admit(t)
    \/ PromptTick
    \/ \E w \in Workers :
          \/ claim_native_transaction_outbox(w) \/ Send(w) \/ Answered(w)
          \/ TransportFailure(w)
    \/ \E q \in net : receive_peer_transaction(q)
    \/ \E p \in Steady : sync_mempool_from_peer(p) \/ Reconnect(p)

\* Fairness: workers, the clock, the network to reachable peers and the peers'
\* pull rounds go on.
Fairness ==
    /\ WF_vars(PromptTick)
    /\ \A w \in Workers :
          /\ WF_vars(claim_native_transaction_outbox(w)) /\ WF_vars(Send(w))
          /\ WF_vars(Answered(w)) /\ WF_vars(TransportFailure(w))
    /\ \A p \in Steady :
          /\ WF_vars(\E q \in net : q.row.peer = p /\ receive_peer_transaction(q))
          /\ WF_vars(sync_mempool_from_peer(p)) /\ WF_vars(Reconnect(p))

DeliveryInit == Init /\ reachable = {}

DeliverySpec == DeliveryInit /\ [][Delivery]_vars /\ Fairness

-----------------------------------------------------------------------------
(* Properties *)

\* Rows, claims and requests are well formed, a row has a claim token exactly
\* while it is in flight, and no two workers hold one token: a worker that outlives
\* its lease does not share the claim of the next one.
TypeOK ==
    /\ mempool \subseteq admitted /\ admitted \subseteq Txs
    /\ outbox \in [Row -> Entry]
    /\ active \subseteq Peers /\ fresh \subseteq Peers /\ observed \in BOOLEAN
    /\ net \subseteq [row : Row, token : Tokens \cup {None}]
    /\ reachable \subseteq Peers
    /\ rx \in [Row -> {"none", "mempool", "settled", "rejected"}]
    /\ received \subseteq Row /\ blamed \subseteq Row
    /\ \A r \in Row : outbox[r].token # None <=> outbox[r].state = "in_flight"
    /\ \A v, w \in Workers : v # w /\ worker[v].token # None => worker[v].token # worker[w].token

\* The sender marks a row acknowledged only if the receiver has durably
\* recorded the message, or has the transaction in its chain, however late, lost
\* or repeated the exchanges were.
AcknowledgedIsRecorded ==
    \A r \in Row : outbox[r].state = "acknowledged" =>
        rx[r] = "settled" \/ (r \in received /\ rx[r] # "none")

\* A row is given up only if its receiver refused it or its peer was removed:
\* the ack_state_conflict of a worker that lost its claim never ends a row.
GivenUpForCause ==
    \A r \in Row : outbox[r].state = "permanent_failure" => r \in blamed

\* Acknowledged and failed rows stay so, and a row leaves in_flight otherwise
\* than by its owner only when its lease has run out.
TerminalIsFinal ==
    [][\A r \in Row :
          /\ outbox[r].state \in {"acknowledged", "permanent_failure"}
                => outbox'[r].state = outbox[r].state
          /\ outbox[r].state = "in_flight" /\ outbox'[r].token # outbox[r].token
                => \/ outbox[r].lease = 0
                   \/ \E w \in Workers : worker[w].token = outbox[r].token]_vars

\* Late or repeated deliveries never bring a settled or rejected transaction
\* back to the receiver's mempool.
LateDeliveryIsHarmless ==
    [][\A r \in Row : rx'[r] = "mempool" => rx[r] \in {"none", "mempool"}]_vars

\* Every pending transaction queued for a healthy peer becomes known to it, by
\* delivery or by its own pull, unless the peer's own state refuses it.
HealthyPeerConverges ==
    \A r \in Row :
        (outbox[r].state \in Open /\ r.peer \in Steady /\ r \notin Conflicting)
            ~> (rx[r] # "none" \/ r.tx \notin mempool)

=============================================================================
