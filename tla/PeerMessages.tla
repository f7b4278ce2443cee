---------------------------- MODULE PeerMessages ----------------------------
(***************************************************************************)
(* Requests between peers: broadcast, signed headers, replay state.        *)
(*                                                                         *)
(* Nodes broadcast objects to one receiver, leg by leg, and wait for an    *)
(* answer to each leg.  The receiver runs one event loop: it verifies a    *)
(* request, records it in the replay file, and dispatches it.  The network *)
(* loses, delays and repeats requests; the receiver crashes between any    *)
(* two writes of the replay file or before the dispatch.                   *)
(***************************************************************************)
EXTENDS ReplayProtection, Integers, Sequences, FiniteSets

CONSTANTS
    Nodes,
    Objects,
    Published,      \* kinds of objects that are broadcast
    SignedMode,     \* ENABLE_SIGNED_PEER_MESSAGES
    Window,         \* PEER_SIGNATURE_WINDOW_SECONDS
    Skew,           \* node -> how far its clock is ahead of the receiver's
    Faults,         \* "crash", "corrupt"
    MaxClock, MaxMessages, MaxFaults    \* bounds

PeerAssumption ==
    /\ Window \in Nat /\ Skew \in [Nodes -> Int] /\ SignedMode \in BOOLEAN
    /\ MaxClock \in Nat /\ MaxMessages \in Nat /\ MaxFaults \in Nat
    /\ Faults \subseteq {"crash", "corrupt"}

VARIABLES
    clock,          \* the receiver's clock
    out,            \* the broadcast of each node: legs left, nonce awaited
    raised,         \* kinds whose broadcast ended in an exception
    main, backup,   \* the replay file and its backup
    active,         \* registered peers
    job,            \* the request the receiver works on
    stored,         \* objects handed to their handler, with their kind
    answer          \* nonce -> the receiver's last answer

vars == <<clock, sent, out, raised, main, backup, active, job, stored, handled,
          answer, faults>>

Nonces == 1 .. MaxMessages

-----------------------------------------------------------------------------
(* The sender *)

\* Routes that signed headers can be built and verified for.
_PEER_ROUTE_BINDINGS ==
    {"register", "submission", "vote", "reviewer-offense", "certificate", "block",
     "transaction"}

\* The requests of a broadcast, in order.
Legs(kind) ==
    CASE kind = "block" -> <<"originality-evidence", "certificate", "block">>
      [] kind = "certificate" -> <<"originality-evidence", "certificate">>
      [] OTHER -> <<kind>>

NoBroadcast == [kind |-> "none", obj |-> "none", legs |-> <<>>, awaits |-> 0]

\* An endpoint starts a broadcast, the first one or a retransmission.
Broadcast(n, kind, o) ==
    /\ out[n] = NoBroadcast
    /\ out' = [out EXCEPT ![n] = [kind |-> kind, obj |-> o, legs |-> Legs(kind), awaits |-> 0]]
    /\ UNCHANGED <<clock, sent, raised, main, backup, active, job, stored, handled,
                   answer, faults>>

\* Build the headers and send the next leg; an unbound route raises.
build_protocol_v1_peer_request_headers(n) ==
    LET b == out[n]
        nonce == Cardinality(sent) + 1
    IN /\ b.legs # <<>> /\ b.awaits = 0
       /\ \/ /\ SignedMode /\ Head(b.legs) \notin _PEER_ROUTE_BINDINGS
             /\ raised' = raised \cup {b.kind}
             /\ out' = [out EXCEPT ![n] = NoBroadcast]
             /\ UNCHANGED <<sent, answer>>
          \/ /\ ~SignedMode \/ Head(b.legs) \in _PEER_ROUTE_BINDINGS
             /\ nonce \in Nonces
             /\ sent' = sent \cup {[nonce |-> nonce, from |-> n, type |-> Head(b.legs),
                                    obj |-> b.obj, ts |-> clock + Skew[n],
                                    signed |-> SignedMode]}
             /\ out' = [out EXCEPT ![n].awaits = nonce]
             /\ answer' = [answer EXCEPT ![nonce] = "none"]
             /\ UNCHANGED raised
       /\ UNCHANGED <<clock, main, backup, active, job, stored, handled, faults>>

\* The answer to the awaited leg, or its time-out.  A failed leg ends the
\* broadcast of a block; the others go on with the next leg.
EndOfLeg(n) ==
    LET b == out[n]
        rest == IF Len(b.legs) = 1 THEN NoBroadcast
                ELSE [b EXCEPT !.legs = Tail(@), !.awaits = 0]
    IN /\ b.awaits # 0
       /\ \/ /\ b.kind # "block" \/ answer[b.awaits] = "ok"
             /\ out' = [out EXCEPT ![n] = rest]
          \/ /\ b.kind = "block"
             /\ out' = [out EXCEPT ![n] = NoBroadcast]
       /\ UNCHANGED <<clock, sent, raised, main, backup, active, job, stored, handled,
                      answer, faults>>

-----------------------------------------------------------------------------
(* The replay file *)

File(entries) == [state |-> "written", entries |-> entries]
Torn == [state |-> "torn", entries |-> {}]
Absent == [state |-> "absent", entries |-> {}]

\* What is read: the file, a damaged file's backup, or nothing readable.
_load_document ==
    IF main = Torn /\ backup.state = "written" THEN backup ELSE main

\* Mutant: an entry goes at the last moment of its window.
PruneEarly(entries, now) == {e \in entries : e.expires > now}

_prune_entries(entries, now) == {e \in entries : e.expires >= now}

Entry(m, now) == [from |-> m.from, nonce |-> m.nonce, expires |-> m.ts + Window]

Replayed(m, entries) == \E e \in entries : e.from = m.from /\ e.nonce = m.nonce

-----------------------------------------------------------------------------
(* The receiver *)

\* Dispatches are counted up to two.
OneMore(n) == IF n < 2 THEN n + 1 ELSE 2

NoJob == [stage |-> "idle"]

Refuse(m) ==
    /\ answer' = [answer EXCEPT ![m.nonce] = "refused"]
    /\ UNCHANGED job

Fresh(m, now) == now - Window <= m.ts /\ m.ts <= now + Window

\* Verify the request and look for it in the replay state, as one step of
\* the event loop; an unsigned deployment goes straight to the dispatch.
require_peer_secret(m) ==
    LET entries == _prune_entries(_load_document.entries, clock)
        accepted == Fresh(m, clock) /\ _load_document # Torn /\ ~Replayed(m, entries)
    IN
    /\ job = NoJob
    /\ \/ /\ ~SignedMode
          /\ job' = [stage |-> "dispatch", m |-> m, entries |-> {}]
          /\ UNCHANGED answer
       \/ /\ SignedMode /\ ~accepted
          /\ Refuse(m)
       \/ /\ SignedMode /\ accepted
          /\ job' = [stage |-> "copy", m |-> m, entries |-> entries \cup {Entry(m, clock)}]
          /\ UNCHANGED answer
    /\ UNCHANGED <<clock, sent, out, raised, main, backup, active, stored, handled, faults>>

\* Writing the replay state: the old file becomes the backup ...
CopyToBackup ==
    /\ job.stage = "copy"
    /\ backup' = IF main = Absent THEN backup ELSE main
    /\ job' = [job EXCEPT !.stage = "replace"]
    /\ UNCHANGED <<clock, sent, out, raised, main, active, stored, handled, answer, faults>>

\* ... and a temporary file replaces it.
os_replace ==
    /\ job.stage = "replace"
    /\ main' = File(job.entries)
    /\ job' = [job EXCEPT !.stage = IF backup = Absent THEN "first" ELSE "dispatch"]
    /\ UNCHANGED <<clock, sent, out, raised, backup, active, stored, handled, answer, faults>>

\* The first replay file has no older one: it is copied to the backup itself.
CopyFirst ==
    /\ job.stage = "first"
    /\ backup' = main
    /\ job' = [job EXCEPT !.stage = "dispatch"]
    /\ UNCHANGED <<clock, sent, out, raised, main, active, stored, handled, answer, faults>>

\* The route's handler: a registration, or an object from an active peer.
Dispatch ==
    /\ job.stage = "dispatch"
    /\ LET m == job.m IN
        /\ handled' = [handled EXCEPT ![m.nonce] = OneMore(@)]
        /\ \/ /\ m.type = "register"
              /\ active' = active \cup {m.from}
              /\ answer' = [answer EXCEPT ![m.nonce] = "ok"]
              /\ UNCHANGED stored
           \/ /\ m.type # "register" /\ m.from \in active
              /\ stored' = stored \cup {<<m.type, m.obj>>}
              /\ answer' = [answer EXCEPT ![m.nonce] = "ok"]
              /\ UNCHANGED active
           \/ /\ m.type # "register" /\ m.from \notin active
              /\ answer' = [answer EXCEPT ![m.nonce] = "refused"]
              /\ UNCHANGED <<active, stored>>
    /\ job' = NoJob
    /\ UNCHANGED <<clock, sent, out, raised, main, backup, faults>>

Tick ==
    /\ clock < MaxClock
    /\ clock' = clock + 1
    /\ UNCHANGED <<sent, out, raised, main, backup, active, job, stored, handled,
                   answer, faults>>

Fault(f) ==
    /\ f \in Faults /\ faults["crash"] + faults["corrupt"] < MaxFaults
    /\ faults' = [faults EXCEPT ![f] = @ + 1]

\* The receiver dies and restarts; a copy it was writing may be torn.
Crash ==
    /\ Fault("crash") /\ job # NoJob
    /\ backup' \in IF job.stage \in {"copy", "first"} /\ main # Absent
                   THEN {backup, Torn} ELSE {backup}
    /\ job' = NoJob
    /\ UNCHANGED <<clock, sent, out, raised, main, active, stored, handled, answer>>

\* The medium damages the replay file, but not while the first one has no
\* backup yet.
Corrupt ==
    /\ Fault("corrupt") /\ main # Absent /\ job.stage # "first" /\ main' = Torn
    /\ UNCHANGED <<clock, sent, out, raised, backup, active, job, stored, handled, answer>>

-----------------------------------------------------------------------------
Init ==
    /\ clock = Window /\ sent = {} /\ raised = {}
    /\ faults = [f \in {"crash", "corrupt"} |-> 0]
    /\ out = [n \in Nodes |-> NoBroadcast]
    /\ main = Absent /\ backup = Absent
    /\ active = {} /\ job = NoJob /\ stored = {}
    /\ handled = [i \in Nonces |-> 0] /\ answer = [i \in Nonces |-> "none"]

Next ==
    \/ \E n \in Nodes :
        \/ \E kind \in Published, o \in Objects : Broadcast(n, kind, o)
        \/ build_protocol_v1_peer_request_headers(n)
        \/ EndOfLeg(n)
    \/ \E m \in sent : require_peer_secret(m)
    \/ CopyToBackup \/ os_replace \/ CopyFirst \/ Dispatch
    \/ Tick \/ Crash \/ Corrupt

Spec == Init /\ [][Next]_vars

-----------------------------------------------------------------------------
(* Properties *)

IsFile(file) ==
    /\ file.state \in {"written", "torn", "absent"}
    /\ file.entries \subseteq [from : Nodes, nonce : Nonces, expires : Int]

\* Requests, broadcasts, files and the job are well formed.
TypeOK ==
    /\ clock \in Nat /\ faults \in [{"crash", "corrupt"} -> 0 .. MaxFaults]
    /\ \A m \in sent : m.nonce \in Nonces /\ m.from \in Nodes
    /\ \A n \in Nodes : out[n].awaits \in 0 .. Cardinality(sent)
    /\ IsFile(main) /\ IsFile(backup)
    /\ active \subseteq Nodes
    /\ job.stage \in {"idle", "copy", "replace", "first", "dispatch"}

\* As long as a dispatched request would still pass the freshness check,
\* the replay state that a restart would load knows it.
FreshIsRemembered ==
    \A m \in sent : handled[m.nonce] > 0 /\ Fresh(m, clock) =>
        _load_document # Torn /\ Replayed(m, _load_document.entries)

\* After crashes, or one damaged file, the replay state is readable again
\* for the next request; unreadable, it would refuse every one from then on.
ReplayStateReadable == job = NoJob => _load_document # Torn

\* A peer that has the block of an object has its certificate and its
\* originality evidence, whatever legs were lost or came late.
BlockAfterItsEvidence ==
    \A o \in Objects : <<"block", o>> \in stored =>
        {<<"certificate", o>>, <<"originality-evidence", o>>} \subseteq stored

\* A broadcast to active peers never ends in an exception before its
\* request is on the wire.
\* The code does not keep this: README, section 5.
BroadcastReachesWire == raised = {}
=============================================================================
