----------------------------- MODULE OnceProofs -----------------------------
(***************************************************************************)
(* The proofs about what may happen once although it is asked for again:   *)
(* the signed messages of peers, the challenges of wallets, the transfers  *)
(* a client submits, the rewards of a decision, the certificate of a       *)
(* submission and the invite code of an account.  The components share no  *)
(* state; each is an instance with a part of its own here, and a variable  *)
(* they have in common ("clock", "answer", "votes", "status") is that of   *)
(* the component a theorem is about.                                       *)
(***************************************************************************)
EXTENDS ReplayProtection, SingleUse, PaymentRecords, Integers, Sequences, FiniteSets,
        FiniteSetTheorems, TLAPS

CONSTANTS
    \* PeerMessages
    Nodes, Objects, Published, SignedMode, Window, Skew, Faults, MaxClock, MaxMessages, MaxFaults,
    \* WalletSessions
    Wallets, Workers, WalletDicts, ChallengeTtl, SessionTtl, MaxItems, MaxRestarts,
    \* TransferSubmission
    Payments, Edits, Precision, MaxPlaces, Funds, Ttl, MaxChallenges, MaxFlight, MaxOthers,
    \* VoterRewards
    Submissions, Creator, REWARD_POOL_SUPPLY, MEME_BLOCK_REWARD, POOL_PER_DECISION, MAX_PER_WALLET,
    MIN_DECISIVE_VOTES, APPROVAL_PERCENT, DAILY_VOTES, TipUnits, MaxTips, MaxChanges, MaxDays,
    \* OriginalityCertificates
    Issuers, Voters, Choice, QualifiedAt, EstablishedAt, REVIEW_EPOCH_BLOCKS, PENALTY_EPOCHS,
    MIN_VALID_VOTES, MIN_ESTABLISHED_VOTES, APPROVAL_THRESHOLD_BPS, MinimumVotes, WindowEnd, NONE,
    MaxHeight, MaxTime, MaxOffenses, MaxStops,
    \* AccessControl
    Procs, Requests, MaxWallets, MaxAccounts, MaxSessions, MaxEntries, MaxFailures

VARIABLES
    \* PeerMessages
    clock, out, raised, main, backup, active, job, stored, answer,
    \* WalletSessions
    items, dict, worker, loggedOut, restarts,
    \* TransferSubmission
    payment, client, challenges, issued, flight, others, refused,
    \* VoterRewards
    votes, status, today, day, suspended, ledger, height, cached, pending, paidTips, minerTips, changes,
    \* OriginalityCertificates
    now, tip, head, penalties, certs, link, block, stops,
    \* AccessControl
    store, mem, phase, minted, sessions, granted, handed, last, failures

Peer == INSTANCE PeerMessages
Wallet == INSTANCE WalletSessions
Transfer == INSTANCE TransferSubmission
Rewards == INSTANCE VoterRewards
Certify == INSTANCE OriginalityCertificates
Access == INSTANCE AccessControl

-----------------------------------------------------------------------------
(* Messages of peers                                                       *)

Kinds == Published \cup {"none", "originality-evidence", "certificate", "block"}
Message == [nonce : Peer!Nonces, from : Nodes, type : Kinds, obj : Objects, ts : Int, signed : {SignedMode}]
Entries == [from : Nodes, nonce : Peer!Nonces, expires : Int]
ReplayFile == [state : {"written", "torn", "absent"}, entries : SUBSET Entries]

\* A nonce names one request.
SentOK ==
    /\ sent \subseteq Message /\ IsFiniteSet(sent)
    /\ \A m \in sent : m.nonce <= Cardinality(sent)
    /\ \A m1, m2 \in sent : m1.nonce = m2.nonce => m1 = m2

HandledOK ==
    /\ handled \in [Peer!Nonces -> 0 .. 2]
    /\ \A i \in Peer!Nonces : handled[i] > 0 => \E m \in sent : m.nonce = i

\* The last answer is "ok" only to a request whose object is stored.
AnswersOK ==
    /\ answer \in [Peer!Nonces -> {"none", "ok", "refused"}]
    /\ \A m \in sent : answer[m.nonce] = "ok" /\ m.type # "register" => <<m.type, m.obj>> \in stored

JobOK ==
    job # Peer!NoJob =>
        /\ job \in [stage : {"copy", "replace", "first", "dispatch"}, m : sent, entries : SUBSET Entries]
        /\ job.stage # "dispatch" => SignedMode

PeerTypes ==
    /\ clock \in Nat
    /\ faults \in [{"crash", "corrupt"} -> Nat]
    /\ main \in ReplayFile /\ backup \in ReplayFile
    /\ active \subseteq Nodes
    /\ SentOK /\ HandledOK /\ AnswersOK /\ JobOK

\* The replay state knows a request until its window is over.
Known(m, entries) ==
    \E e \in entries : e.from = m.from /\ e.nonce = m.nonce /\ e.expires = m.ts + Window
Remembers(entries) ==
    \A m \in sent : handled[m.nonce] > 0 /\ clock <= m.ts + Window => Known(m, entries)

\* While storage damaged nothing, the file knows every request that was handled
\* and may pass the freshness check again, and so does the one being written; the
\* request being worked on has not been handled.
Undamaged == SignedMode /\ faults["corrupt"] = 0
Guarded ==
    /\ main # Peer!Torn /\ Remembers(main.entries)
    /\ \A m \in sent : handled[m.nonce] > 0 => handled[m.nonce] = 1 /\ m.ts <= clock + Window
    /\ job # Peer!NoJob =>
          /\ handled[job.m.nonce] = 0 /\ job.m.ts <= clock + Window
          /\ job.stage \in {"first", "dispatch"} => Known(job.m, main.entries)
          /\ job.stage \in {"copy", "replace"} => Known(job.m, job.entries) /\ Remembers(job.entries)

\* One of the two files can be read: the backup once a copy was made of a whole
\* file, the file itself unless storage damaged it.
FilesOK ==
    /\ faults["corrupt"] = 0 => main # Peer!Torn
    /\ faults["corrupt"] = 0 /\ faults["crash"] = 0 /\ main.state = "written" =>
          backup.state = "written" \/ job.stage = "first"
    /\ job.stage = "first" => main.state = "written"
    /\ faults["corrupt"] = 1 /\ faults["crash"] = 0 =>
          main # Peer!Torn \/ backup.state = "written" \/ job.stage = "replace"
    /\ main.state = "torn" => main = Peer!Torn
    /\ backup.state = "absent" => backup = Peer!Absent
    /\ main.state = "absent" => main = Peer!Absent /\ backup = Peer!Absent

\* The legs that a block's broadcast has left: those before were stored.
Stored(o, types) == \A t \in types : <<t, o>> \in stored
Left(b) ==
    \/ b.legs = <<"originality-evidence", "certificate", "block">>
    \/ b.legs = <<"certificate", "block">> /\ Stored(b.obj, {"originality-evidence"})
    \/ b.legs = <<"block">> /\ Stored(b.obj, {"originality-evidence", "certificate"})

OtherLegs ==
    {<<>>, <<"originality-evidence", "certificate">>} \cup {<<kind>> : kind \in Kinds \ {"block"}}
LegsLeft ==
    OtherLegs \cup {<<"originality-evidence", "certificate", "block">>, <<"certificate", "block">>,
                    <<"block">>}
Broadcasts == [kind : Kinds, obj : Objects \cup {"none"}, legs : LegsLeft, awaits : {0} \cup Peer!Nonces]

BroadcastOK(b) ==
    /\ b \in Broadcasts
    /\ b.legs # <<>> => b.obj \in Objects
    /\ IF b.kind = "block" THEN Left(b) ELSE b.legs \in OtherLegs
    /\ b.awaits # 0 =>
          /\ b.legs # <<>>
          /\ \E m \in sent : m.nonce = b.awaits /\ m.type = Head(b.legs) /\ m.obj = b.obj

OutOK ==
    /\ out = [n \in Nodes |-> out[n]]
    /\ \A n \in Nodes : BroadcastOK(out[n])
    /\ \A m \in sent : m.type = "block" => Stored(m.obj, {"originality-evidence", "certificate"})
    /\ \A o \in Objects : <<"block", o>> \in stored => Stored(o, {"originality-evidence", "certificate"})

PeerInv == PeerTypes /\ OutOK /\ FilesOK /\ (Undamaged => Guarded)

LEMMA NoBroadcastOK == BroadcastOK(Peer!NoBroadcast)
<1>1. Peer!NoBroadcast = [kind |-> "none", obj |-> "none", legs |-> <<>>, awaits |-> 0]
    BY DEF Peer!NoBroadcast
<1>2. Peer!NoBroadcast \in Broadcasts
    <2>1. <<>> \in OtherLegs /\ <<>> \in LegsLeft
        BY DEF LegsLeft, OtherLegs
    <2>. QED BY <1>1, <2>1 DEF Broadcasts, Kinds
<1>. QED BY <1>1, <1>2 DEF BroadcastOK, OtherLegs

LEMMA TailOfLegs ==
    ASSUME NEW legs \in LegsLeft, legs # <<>>, Len(legs) # 1
    PROVE  /\ Tail(legs) \in LegsLeft
           /\ legs \in OtherLegs => Tail(legs) \in OtherLegs
           /\ legs # <<"block">>
<1>1. ASSUME NEW kind PROVE legs # <<kind>>
    <2>1. Len(<<kind>>) = 1
        OBVIOUS
    <2>. QED BY <2>1
<1>2. CASE legs = <<"originality-evidence", "certificate", "block">>
    <2>1. Tail(legs) = <<"certificate", "block">> /\ Len(legs) = 3
        BY <1>2
    <2>2. legs \notin OtherLegs
        <3>1. legs # <<"originality-evidence", "certificate">>
            <4>1. SUFFICES ASSUME legs = <<"originality-evidence", "certificate">> PROVE FALSE
                OBVIOUS
            <4>2. Len(legs) = 2
                BY <4>1
            <4>. QED BY <2>1, <4>2
        <3>. QED BY <1>1, <3>1 DEF OtherLegs
    <2>3. Tail(legs) \in LegsLeft
        BY <2>1 DEF LegsLeft
    <2>. QED BY <1>1, <2>2, <2>3
<1>3. CASE legs = <<"certificate", "block">>
    <2>1. Tail(legs) = <<"block">> /\ Head(legs) = "certificate" /\ Head(<<"originality-evidence", "certificate">>) = "originality-evidence"
        BY <1>3
    <2>. QED BY <1>1, <2>1 DEF LegsLeft, OtherLegs
<1>4. CASE legs = <<"originality-evidence", "certificate">>
    <2>1. Tail(legs) = <<"certificate">>
        BY <1>4
    <2>2. <<"certificate">> \in {<<kind>> : kind \in Kinds \ {"block"}}
        BY DEF Kinds
    <2>. QED BY <1>1, <2>1, <2>2 DEF LegsLeft, OtherLegs
<1>. QED BY <1>1, <1>2, <1>3, <1>4 DEF LegsLeft, OtherLegs

LEMMA PeerInvInit == ASSUME Peer!PeerAssumption, Peer!Init PROVE PeerInv
<1>1. PeerTypes
    <2>1. IsFiniteSet(sent) /\ sent = {}
        BY FS_EmptySet DEF Peer!Init
    <2>2. main \in ReplayFile /\ backup \in ReplayFile
        BY DEF Peer!Init, Peer!Absent, ReplayFile
    <2>. QED BY <2>1, <2>2 DEF Peer!Init, Peer!PeerAssumption, PeerTypes, SentOK, HandledOK, AnswersOK,
                               JobOK
<1>2. OutOK
    BY NoBroadcastOK DEF Peer!Init, OutOK
<1>3. FilesOK
    BY DEF Peer!Init, FilesOK, Peer!Absent, Peer!Torn, Peer!NoJob
<1>4. Guarded
    BY DEF Peer!Init, Guarded, Remembers, Peer!Absent, Peer!Torn
<1>. QED BY <1>1, <1>2, <1>3, <1>4 DEF PeerInv

LEMMA SameCardinality == ASSUME NEW S PROVE Peer!Cardinality(S) = Cardinality(S)
BY DEF Peer!Cardinality, Cardinality

\* A node starts a broadcast, or ends a leg of it.
LEMMA SenderStep ==
    ASSUME Peer!PeerAssumption, PeerInv, NEW n \in Nodes,
           \/ \E kind \in Published, o \in Objects : Peer!Broadcast(n, kind, o)
           \/ Peer!EndOfLeg(n)
    PROVE  PeerInv'
<1>. DEFINE b == out[n]
<1>0. /\ BroadcastOK(b)
      /\ UNCHANGED <<clock, sent, raised, main, backup, active, job, stored, handled, answer, faults>>
    BY DEF PeerInv, OutOK, Peer!Broadcast, Peer!EndOfLeg
<1>1. ASSUME NEW x, out' = [out EXCEPT ![n] = x], BroadcastOK(x) PROVE PeerInv'
    <2>1. OutOK'
        BY <1>0, <1>1 DEF PeerInv, OutOK, BroadcastOK, Broadcasts, Left, Stored
    <2>2. PeerTypes' /\ FilesOK' /\ (Undamaged => Guarded)'
        BY <1>0 DEF PeerInv, PeerTypes, FilesOK, Guarded, Undamaged, SentOK, HandledOK, AnswersOK,
                    JobOK, Remembers, Known
    <2>. QED BY <2>1, <2>2 DEF PeerInv
<1>2. ASSUME NEW kind \in Published, NEW o \in Objects, Peer!Broadcast(n, kind, o)
      PROVE  PeerInv'
    <2>. DEFINE x == [kind |-> kind, obj |-> o, legs |-> Peer!Legs(kind), awaits |-> 0]
    <2>1. kind \in Kinds
        BY DEF Kinds
    <2>2. Peer!Legs(kind) \in LegsLeft /\ (kind # "block" => Peer!Legs(kind) \in OtherLegs)
        BY <2>1 DEF Peer!Legs, LegsLeft, OtherLegs
    <2>3. BroadcastOK(x)
        BY <2>1, <2>2 DEF BroadcastOK, Broadcasts, Left, Peer!Legs
    <2>4. out' = [out EXCEPT ![n] = x]
        BY <1>2 DEF Peer!Broadcast
    <2>. HIDE DEF x
    <2>. QED BY <1>1, <2>3, <2>4
<1>3. CASE Peer!EndOfLeg(n)
    <2>. DEFINE rest == [b EXCEPT !.legs = Tail(@), !.awaits = 0]
    <2>1. /\ b.awaits # 0 /\ b \in Broadcasts /\ b.legs # <<>> /\ b.obj \in Objects
          /\ \/ out' = [out EXCEPT ![n] = Peer!NoBroadcast]
             \/ /\ b.kind # "block" \/ answer[b.awaits] = "ok"
                /\ Len(b.legs) # 1 /\ out' = [out EXCEPT ![n] = rest]
        BY <1>0, <1>3 DEF Peer!EndOfLeg, BroadcastOK
    <2>2. CASE out' = [out EXCEPT ![n] = Peer!NoBroadcast]
        BY <1>1, <2>2, NoBroadcastOK
    <2>3. CASE /\ b.kind # "block" \/ answer[b.awaits] = "ok"
               /\ Len(b.legs) # 1 /\ out' = [out EXCEPT ![n] = rest]
        <3>1. /\ Tail(b.legs) \in LegsLeft /\ b.legs # <<"block">>
              /\ b.legs \in OtherLegs => Tail(b.legs) \in OtherLegs
            BY <2>1, <2>3, TailOfLegs DEF Broadcasts
        <3>2. /\ rest \in Broadcasts /\ rest.kind = b.kind /\ rest.obj = b.obj /\ rest.awaits = 0
              /\ rest.legs = Tail(b.legs)
            BY <2>1, <3>1 DEF Broadcasts
        <3>3. b.kind = "block" => Left(rest)
            <4>1. SUFFICES ASSUME b.kind = "block" PROVE Left(rest)
                OBVIOUS
            <4>2. PICK m \in sent : m.nonce = b.awaits /\ m.type = Head(b.legs) /\ m.obj = b.obj
                BY <1>0, <2>1 DEF BroadcastOK
            <4>3. m.type # "register" => <<m.type, b.obj>> \in stored
                BY <2>3, <4>1, <4>2 DEF PeerInv, PeerTypes, AnswersOK
            <4>4. CASE b.legs = <<"originality-evidence", "certificate", "block">>
                <5>1. Tail(b.legs) = <<"certificate", "block">> /\ Head(b.legs) = "originality-evidence"
                    BY <4>4
                <5>. QED BY <3>2, <4>2, <4>3, <5>1 DEF Left, Stored
            <4>5. CASE b.legs = <<"certificate", "block">> /\ Stored(b.obj, {"originality-evidence"})
                <5>1. Tail(b.legs) = <<"block">> /\ Head(b.legs) = "certificate"
                    BY <4>5
                <5>. QED BY <3>2, <4>2, <4>3, <4>5, <5>1 DEF Left, Stored
            <4>. QED BY <1>0, <4>1, <4>4, <4>5, <3>1 DEF BroadcastOK, Left
        <3>4. BroadcastOK(rest)
            BY <1>0, <2>1, <3>1, <3>2, <3>3 DEF BroadcastOK
        <3>. HIDE DEF rest
        <3>. QED BY <1>1, <2>3, <3>4
    <2>. QED BY <2>1, <2>2, <2>3
<1>. QED BY <1>2, <1>3

\* A request goes out with a nonce of its own.
LEMMA SendStep ==
    ASSUME Peer!PeerAssumption, PeerInv, NEW n \in Nodes,
           Peer!build_protocol_v1_peer_request_headers(n)
    PROVE  PeerInv'
<1>. DEFINE b == out[n]
            nonce == Cardinality(sent) + 1
            m == [nonce |-> nonce, from |-> n, type |-> Head(b.legs), obj |-> b.obj,
                  ts |-> clock + Skew[n], signed |-> SignedMode]
<1>0. /\ BroadcastOK(b) /\ b.legs # <<>> /\ b.awaits = 0
      /\ UNCHANGED <<clock, main, backup, active, job, stored, handled, faults>>
      /\ SentOK /\ HandledOK /\ AnswersOK /\ clock \in Nat /\ Cardinality(sent) \in Nat
    BY FS_CardinalityType DEF PeerInv, PeerTypes, OutOK, SentOK,
                              Peer!build_protocol_v1_peer_request_headers
<1>1. CASE UNCHANGED <<sent, answer>> /\ out' = [out EXCEPT ![n] = Peer!NoBroadcast]
    <2>1. OutOK'
        BY <1>0, <1>1, NoBroadcastOK DEF PeerInv, OutOK, BroadcastOK, Broadcasts, Left, Stored
    <2>2. PeerTypes' /\ FilesOK' /\ (Undamaged => Guarded)'
        BY <1>0, <1>1 DEF PeerInv, PeerTypes, FilesOK, Guarded, Undamaged, SentOK, HandledOK, AnswersOK,
                          JobOK, Remembers, Known
    <2>. QED BY <2>1, <2>2 DEF PeerInv
<1>2. CASE /\ nonce \in Peer!Nonces /\ sent' = sent \cup {m}
           /\ out' = [out EXCEPT ![n].awaits = nonce]
           /\ answer' = [answer EXCEPT ![nonce] = "none"]
    <2>1. Head(b.legs) \in Kinds /\ b.obj \in Objects
        <3>1. ASSUME NEW kind \in Kinds, b.legs = <<kind>> PROVE Head(b.legs) \in Kinds
            BY <3>1
        <3>2. CASE b.legs \in {<<"originality-evidence", "certificate", "block">>, <<"certificate", "block">>,
                               <<"originality-evidence", "certificate">>}
            <4>1. CASE b.legs = <<"originality-evidence", "certificate", "block">>
                <5>1. Head(b.legs) = "originality-evidence"
                    BY <4>1
                <5>. QED BY <1>0, <5>1 DEF Kinds, BroadcastOK
            <4>2. CASE b.legs = <<"certificate", "block">>
                <5>1. Head(b.legs) = "certificate"
                    BY <4>2
                <5>. QED BY <1>0, <5>1 DEF Kinds, BroadcastOK
            <4>3. CASE b.legs = <<"originality-evidence", "certificate">>
                <5>1. Head(b.legs) = "originality-evidence"
                    BY <4>3
                <5>. QED BY <1>0, <5>1 DEF Kinds, BroadcastOK
            <4>. QED BY <3>2, <4>1, <4>2, <4>3
        <3>3. "block" \in Kinds
            BY DEF Kinds
        <3>. QED BY <1>0, <3>1, <3>2, <3>3 DEF BroadcastOK, Broadcasts, LegsLeft, OtherLegs
    <2>2. m \in Message /\ m.nonce = nonce /\ m.type = Head(b.legs) /\ m.obj = b.obj /\ m \notin sent
        BY <1>0, <1>2, <2>1 DEF Message, Peer!PeerAssumption, SentOK
    <2>. HIDE DEF m
    <2>3. IsFiniteSet(sent') /\ Cardinality(sent') = nonce
        BY <1>0, <1>2, <2>2, FS_AddElement DEF SentOK
    <2>4. SentOK'
        <3>1. sent' \subseteq Message
            BY <1>0, <1>2, <2>2 DEF SentOK
        <3>2. \A k \in sent : k.nonce <= Cardinality(sent) /\ k.nonce \in Nat
            BY <1>0 DEF SentOK, Message, Peer!Nonces
        <3>3. \A k \in sent' : k.nonce <= Cardinality(sent')
            BY <1>0, <1>2, <2>2, <2>3, <3>2
        <3>4. \A k \in sent : k.nonce # m.nonce
            BY <1>0, <2>2, <3>2
        <3>5. \A m1, m2 \in sent' : m1.nonce = m2.nonce => m1 = m2
            BY <1>0, <1>2, <3>4 DEF SentOK
        <3>. QED BY <2>3, <3>1, <3>3, <3>5 DEF SentOK
    <2>5. HandledOK' /\ handled[nonce] = 0
        BY <1>0, <1>2 DEF HandledOK, SentOK
    <2>6. AnswersOK'
        BY <1>0, <1>2, <2>2 DEF AnswersOK, SentOK, Message, Peer!Nonces
    <2>7. JobOK'
        BY <1>0, <1>2 DEF PeerInv, PeerTypes, JobOK
    <2>8. (Undamaged => Guarded)'
        BY <1>0, <1>2, <2>2, <2>5 DEF PeerInv, Guarded, Undamaged, Remembers, Known
    <2>9. OutOK'
        <3>1. PICK x : x = [b EXCEPT !.awaits = nonce]
            OBVIOUS
        <3>2. /\ x \in Broadcasts /\ x.kind = b.kind /\ x.obj = b.obj /\ x.legs = b.legs
              /\ x.awaits = nonce /\ out' = [out EXCEPT ![n] = x]
            BY <1>0, <1>2, <3>1 DEF BroadcastOK, Broadcasts, PeerInv, OutOK
        <3>a. m \in sent' /\ stored' = stored
            BY <1>0, <1>2
        <3>b. Left(x) <=> Left(b)
            BY <3>2 DEF Left
        <3>3. BroadcastOK(x)'
            BY <1>0, <2>1, <2>2, <3>2, <3>a, <3>b DEF BroadcastOK, Left, Stored, Broadcasts
        <3>4. m.type = "block" => Stored(m.obj, {"originality-evidence", "certificate"})
            <4>1. ASSUME b.legs \in OtherLegs, b.legs # <<>> PROVE Head(b.legs) # "block"
                <5>1. ASSUME NEW kind \in Kinds \ {"block"}, b.legs = <<kind>> PROVE Head(b.legs) # "block"
                    BY <5>1
                <5>2. CASE b.legs = <<"originality-evidence", "certificate">>
                    BY <5>2
                <5>. QED BY <4>1, <5>1, <5>2 DEF OtherLegs
            <4>2. ASSUME b.legs \in {<<"originality-evidence", "certificate", "block">>, <<"certificate", "block">>}
                  PROVE  Head(b.legs) # "block"
                BY <4>2
            <4>. QED BY <1>0, <2>2, <4>1, <4>2 DEF BroadcastOK, Left, Stored
        <3>5. \A k \in Nodes : BroadcastOK(out[k])'
            <4>1. out'[n] = x /\ \A k \in Nodes \ {n} : out'[k] = out[k] /\ BroadcastOK(out[k])
                BY <1>0, <3>2 DEF PeerInv, OutOK
            <4>2. ASSUME NEW k \in Nodes \ {n} PROVE BroadcastOK(out[k])'
                BY <1>0, <1>2, <4>1 DEF BroadcastOK, Left, Stored
            <4>. QED BY <3>3, <4>1, <4>2 DEF BroadcastOK, Left, Stored
        <3>. QED BY <1>0, <1>2, <3>2, <3>4, <3>5 DEF PeerInv, OutOK, Stored
    <2>. QED BY <1>0, <2>4, <2>5, <2>6, <2>7, <2>8, <2>9 DEF PeerInv, PeerTypes, FilesOK
<1>3. \/ UNCHANGED <<sent, answer>> /\ out' = [out EXCEPT ![n] = Peer!NoBroadcast]
      \/ /\ nonce \in Peer!Nonces /\ sent' = sent \cup {m}
         /\ out' = [out EXCEPT ![n].awaits = nonce]
         /\ answer' = [answer EXCEPT ![nonce] = "none"]
    BY SameCardinality DEF Peer!build_protocol_v1_peer_request_headers
<1>. QED BY <1>1, <1>2, <1>3

\* The receiver verifies a request: what the replay file knows is not accepted.
LEMMA VerifyStep ==
    ASSUME Peer!PeerAssumption, PeerInv, NEW m \in sent, Peer!require_peer_secret(m)
    PROVE  PeerInv'
<1>. DEFINE known == Peer!_prune_entries(Peer!_load_document.entries, clock)
<1>0. /\ UNCHANGED <<clock, sent, out, raised, main, backup, active, stored, handled, faults>>
      /\ m \in Message /\ m.nonce \in Peer!Nonces /\ job = Peer!NoJob /\ PeerTypes
      /\ main \in ReplayFile /\ backup \in ReplayFile /\ clock \in Nat /\ Window \in Nat
    BY DEF PeerInv, PeerTypes, SentOK, Message, Peer!require_peer_secret, Peer!PeerAssumption
<1>1. OutOK' /\ SentOK' /\ HandledOK'
    BY <1>0 DEF PeerInv, PeerTypes, OutOK, BroadcastOK, Left, Stored, SentOK, HandledOK
<1>2. /\ known \subseteq Entries
      /\ known = {e \in Peer!_load_document.entries : e.expires >= clock}
    BY <1>0 DEF Peer!_prune_entries, Peer!_load_document, ReplayFile
<1>3. CASE job' = job /\ answer' \in {answer, [answer EXCEPT ![m.nonce] = "refused"]}
    <2>1. AnswersOK'
        BY <1>0, <1>3 DEF PeerTypes, AnswersOK, SentOK, Message
    <2>. QED BY <1>0, <1>1, <1>3, <2>1 DEF PeerInv, PeerTypes, JobOK, FilesOK, Undamaged, Guarded,
                                           Remembers, Known
<1>4. CASE ~SignedMode /\ job' = [stage |-> "dispatch", m |-> m, entries |-> {}] /\ answer' = answer
    <2>1. JobOK'
        BY <1>0, <1>4 DEF JobOK
    <2>2. FilesOK'
        BY <1>0, <1>4 DEF PeerInv, FilesOK, Peer!NoJob
    <2>3. AnswersOK'
        BY <1>0, <1>4 DEF PeerTypes, AnswersOK
    <2>. QED BY <1>0, <1>1, <1>4, <2>1, <2>2, <2>3 DEF PeerInv, PeerTypes, Undamaged
<1>5. CASE /\ SignedMode /\ Peer!Fresh(m, clock) /\ Peer!_load_document # Peer!Torn
           /\ ~Peer!Replayed(m, known) /\ answer' = answer
           /\ job' = [stage |-> "copy", m |-> m, entries |-> known \cup {Peer!Entry(m, clock)}]
    <2>. DEFINE entries == known \cup {Peer!Entry(m, clock)}
    <2>1. Peer!Entry(m, clock) = [from |-> m.from, nonce |-> m.nonce, expires |-> m.ts + Window]
        BY DEF Peer!Entry
    <2>2. m.ts \in Int /\ m.from \in Nodes /\ Peer!Entry(m, clock) \in Entries
        BY <1>0, <2>1 DEF Message, Entries
    <2>3. entries \subseteq Entries /\ Known(m, entries)
        BY <1>2, <2>1, <2>2 DEF Known
    <2>. HIDE DEF entries
    <2>4. job'.stage = "copy" /\ job'.m = m /\ job'.entries = entries /\ job' # Peer!NoJob
        BY <1>5 DEF Peer!NoJob, entries
    <2>5. JobOK'
        BY <1>0, <1>5, <2>3 DEF JobOK, entries
    <2>6. FilesOK'
        <3>1. job.stage \notin {"replace", "first"} /\ job'.stage \notin {"replace", "first"}
            BY <1>0, <2>4 DEF Peer!NoJob
        <3>. QED BY <1>0, <3>1 DEF PeerInv, FilesOK
    <2>7. AnswersOK'
        BY <1>0, <1>5 DEF PeerTypes, AnswersOK
    <2>8. ASSUME Undamaged PROVE Guarded'
        <3>1. Guarded /\ Peer!_load_document = main
            BY <2>8 DEF PeerInv, Peer!_load_document, Guarded
        <3>2. handled[m.nonce] = 0
            <4>1. SUFFICES ASSUME handled[m.nonce] # 0 PROVE FALSE
                OBVIOUS
            <4>2. handled[m.nonce] > 0 /\ clock <= m.ts + Window
                BY <1>0, <1>5, <2>2, <4>1 DEF PeerTypes, HandledOK, Peer!Fresh
            <4>3. PICK e \in main.entries : e.from = m.from /\ e.nonce = m.nonce /\ e.expires = m.ts + Window
                BY <3>1, <4>2 DEF Guarded, Remembers, Known
            <4>4. e \in known
                BY <1>0, <1>2, <2>2, <3>1, <4>2, <4>3
            <4>. QED BY <1>5, <4>3, <4>4 DEF Peer!Replayed
        <3>3. Remembers(entries)
            <4>1. SUFFICES ASSUME NEW k \in sent, handled[k.nonce] > 0, clock <= k.ts + Window
                  PROVE  Known(k, entries)
                BY DEF Remembers
            <4>2. PICK e \in main.entries : e.from = k.from /\ e.nonce = k.nonce /\ e.expires = k.ts + Window
                BY <3>1, <4>1 DEF Guarded, Remembers, Known
            <4>3. k.ts \in Int
                BY <1>0 DEF PeerTypes, SentOK, Message
            <4>4. e \in entries
                BY <1>0, <1>2, <3>1, <4>1, <4>2, <4>3 DEF entries
            <4>. QED BY <4>2, <4>4 DEF Known
        <3>4. m.ts <= clock + Window
            BY <1>5 DEF Peer!Fresh
        <3>5. Remembers(job.entries)' /\ Known(job.m, job.entries)' /\ Remembers(main.entries)'
            BY <1>0, <2>3, <2>4, <3>1, <3>3 DEF Remembers, Known, Guarded
        <3>. QED BY <1>0, <2>4, <3>1, <3>2, <3>4, <3>5 DEF Guarded
    <2>. QED BY <1>0, <1>1, <2>5, <2>6, <2>7, <2>8 DEF PeerInv, PeerTypes, Undamaged
<1>. QED BY <1>3, <1>4, <1>5 DEF Peer!require_peer_secret, Peer!Refuse

\* The replacement of the replay file and the copies to its backup.
LEMMA WriteStep ==
    ASSUME PeerInv, Peer!CopyToBackup \/ Peer!os_replace \/ Peer!CopyFirst
    PROVE  PeerInv'
<1>0. /\ UNCHANGED <<clock, sent, out, raised, active, stored, handled, answer, faults>>
      /\ PeerTypes /\ job # Peer!NoJob
      /\ job \in [stage : {"copy", "replace", "first", "dispatch"}, m : sent, entries : SUBSET Entries]
      /\ job.stage \in {"copy", "replace", "first"} /\ SignedMode
      /\ main \in ReplayFile /\ backup \in ReplayFile
    BY DEF PeerInv, PeerTypes, JobOK, Peer!CopyToBackup, Peer!os_replace, Peer!CopyFirst, Peer!NoJob
<1>1. OutOK' /\ SentOK' /\ HandledOK' /\ AnswersOK'
    BY <1>0 DEF PeerInv, PeerTypes, OutOK, BroadcastOK, Left, Stored, SentOK, HandledOK, AnswersOK
<1>2. PICK stage \in {"replace", "first", "dispatch"} :
         /\ job' = [job EXCEPT !.stage = stage]
         /\ stage = "replace" => /\ job.stage = "copy" /\ main' = main
                                 /\ backup' = IF main = Peer!Absent THEN backup ELSE main
         /\ stage = "first" => /\ job.stage = "replace" /\ main' = Peer!File(job.entries)
                               /\ backup = Peer!Absent /\ backup' = backup
         /\ stage = "dispatch" =>
               \/ /\ job.stage = "replace" /\ main' = Peer!File(job.entries)
                  /\ backup # Peer!Absent /\ backup' = backup
               \/ job.stage = "first" /\ main' = main /\ backup' = main
    BY DEF Peer!CopyToBackup, Peer!os_replace, Peer!CopyFirst
<1>3. /\ job'.stage = stage /\ job'.m = job.m /\ job'.entries = job.entries /\ job' # Peer!NoJob
      /\ JobOK'
    BY <1>0, <1>2 DEF JobOK, Peer!NoJob
<1>4. /\ Peer!File(job.entries).state = "written" /\ Peer!File(job.entries).entries = job.entries
      /\ Peer!File(job.entries) \in ReplayFile /\ Peer!File(job.entries) # Peer!Torn
    BY <1>0 DEF Peer!File, ReplayFile, Peer!Torn
<1>5. main' \in ReplayFile /\ backup' \in ReplayFile
    BY <1>0, <1>2, <1>4
<1>6. FilesOK'
    <2>1. FilesOK /\ faults \in [{"crash", "corrupt"} -> Nat]
        BY DEF PeerInv, PeerTypes
    <2>2. CASE stage = "replace"
        BY <1>0, <1>2, <1>3, <2>1, <2>2 DEF FilesOK, Peer!Absent, Peer!Torn, ReplayFile
    <2>3. CASE stage = "first"
        BY <1>0, <1>2, <1>3, <1>4, <2>1, <2>3 DEF FilesOK, Peer!Absent, Peer!Torn, ReplayFile
    <2>4. CASE stage = "dispatch"
        BY <1>0, <1>2, <1>3, <1>4, <2>1, <2>4 DEF FilesOK, Peer!Absent, Peer!Torn, ReplayFile
    <2>. QED BY <1>2, <2>2, <2>3, <2>4
<1>7. (Undamaged => Guarded)'
    <2>1. SUFFICES ASSUME Undamaged PROVE Guarded'
        BY <1>0 DEF Undamaged
    <2>2. Guarded
        BY <2>1 DEF PeerInv
    <2>. QED BY <1>0, <1>2, <1>3, <1>4, <2>2 DEF Guarded, Remembers, Known
<1>. QED BY <1>0, <1>1, <1>3, <1>5, <1>6, <1>7 DEF PeerInv, PeerTypes

\* The handler of the request runs.
LEMMA DispatchStep == ASSUME PeerInv, Peer!Dispatch PROVE PeerInv'
<1>. DEFINE m == job.m
<1>0. /\ UNCHANGED <<clock, sent, out, raised, main, backup, faults>> /\ job' = Peer!NoJob
      /\ PeerTypes /\ job # Peer!NoJob /\ job.stage = "dispatch"
      /\ m \in sent /\ m \in Message /\ m.nonce \in Peer!Nonces
      /\ handled' = [handled EXCEPT ![m.nonce] = Peer!OneMore(@)]
      /\ HandledOK /\ AnswersOK /\ SentOK
    BY DEF PeerInv, PeerTypes, JobOK, SentOK, Message, Peer!Dispatch, Peer!NoJob
<1>1. /\ stored \subseteq stored' /\ active' \subseteq Nodes
      /\ \/ /\ answer' = [answer EXCEPT ![m.nonce] = "ok"]
            /\ m.type # "register" => <<m.type, m.obj>> \in stored'
         \/ answer' = [answer EXCEPT ![m.nonce] = "refused"]
    BY <1>0 DEF Peer!Dispatch, PeerTypes, Message
<1>2. AnswersOK'
    BY <1>0, <1>1 DEF AnswersOK, SentOK, Message
<1>3. HandledOK' /\ SentOK' /\ JobOK'
    BY <1>0 DEF HandledOK, SentOK, JobOK, Peer!OneMore
<1>4. OutOK'
    <2>1. /\ out = [n \in Nodes |-> out[n]] /\ \A n \in Nodes : BroadcastOK(out[n])
          /\ \A k \in sent : k.type = "block" => Stored(k.obj, {"originality-evidence", "certificate"})
          /\ \A o \in Objects : <<"block", o>> \in stored => Stored(o, {"originality-evidence", "certificate"})
        BY DEF PeerInv, OutOK
    <2>2. \A n \in Nodes : BroadcastOK(out[n])'
        BY <1>0, <1>1, <2>1 DEF BroadcastOK, Left, Stored
    <2>3. stored' \subseteq stored \cup {<<m.type, m.obj>>}
        BY DEF Peer!Dispatch
    <2>4. \A o \in Objects : (<<"block", o>> \in stored => Stored(o, {"originality-evidence", "certificate"}))'
        BY <1>0, <1>1, <2>1, <2>3 DEF Stored
    <2>5. \A k \in sent : (k.type = "block" => Stored(k.obj, {"originality-evidence", "certificate"}))'
        BY <1>0, <1>1, <2>1 DEF Stored
    <2>. QED BY <1>0, <2>1, <2>2, <2>4, <2>5 DEF OutOK
<1>5. FilesOK'
    BY <1>0 DEF PeerInv, FilesOK, Peer!NoJob
<1>6. (Undamaged => Guarded)'
    <2>1. SUFFICES ASSUME Undamaged PROVE Guarded'
        BY <1>0 DEF Undamaged
    <2>2. Guarded /\ handled[m.nonce] = 0 /\ Known(m, main.entries) /\ m.ts <= clock + Window
        BY <1>0, <2>1 DEF PeerInv, Guarded
    <2>3. \A k \in sent : handled'[k.nonce] = IF k = m THEN 1 ELSE handled[k.nonce]
        BY <1>0, <2>2 DEF SentOK, Message, HandledOK, Peer!OneMore
    <2>4. Remembers(main.entries)'
        BY <1>0, <2>2, <2>3 DEF Guarded, Remembers, Known
    <2>. QED BY <1>0, <2>2, <2>3, <2>4 DEF Guarded
<1>. QED BY <1>0, <1>1, <1>2, <1>3, <1>4, <1>5, <1>6 DEF PeerInv, PeerTypes

\* Time, a crash and a damage of the file.
LEMMA FaultStep ==
    ASSUME Peer!PeerAssumption, PeerInv, Peer!Tick \/ Peer!Crash \/ Peer!Corrupt
    PROVE  PeerInv'
<1>0. /\ UNCHANGED <<sent, out, raised, active, stored, handled, answer>> /\ PeerTypes
      /\ SentOK /\ clock \in Nat /\ Window \in Int
      /\ faults \in [{"crash", "corrupt"} -> Nat]
      /\ \A m \in sent : m.ts \in Int
    BY DEF PeerInv, PeerTypes, Peer!Tick, Peer!Crash, Peer!Corrupt, Peer!Fault, SentOK, Message,
           Peer!PeerAssumption
<1>1. OutOK' /\ SentOK' /\ HandledOK' /\ AnswersOK'
    BY <1>0 DEF PeerInv, PeerTypes, OutOK, BroadcastOK, Left, Stored, SentOK, HandledOK, AnswersOK
<1>2. CASE Peer!Tick
    <2>1. UNCHANGED <<main, backup, job, faults>> /\ clock' = clock + 1
        BY <1>2 DEF Peer!Tick
    <2>2. (Undamaged => Guarded)'
        <3>1. SUFFICES ASSUME Undamaged PROVE Guarded'
            BY <2>1 DEF Undamaged
        <3>2. Guarded
            BY <3>1 DEF PeerInv
        <3>3. job # Peer!NoJob => job.m \in sent
            BY <1>0 DEF PeerTypes, JobOK
        <3>4. ASSUME NEW entries, Remembers(entries) PROVE Remembers(entries)'
            BY <1>0, <2>1, <3>4 DEF Remembers, Known
        <3>5. Remembers(main.entries)' /\ (job # Peer!NoJob /\ job.stage \in {"copy", "replace"} => Remembers(job.entries)')
            BY <1>0, <2>1, <3>2 DEF Guarded, Remembers, Known
        <3>. QED BY <1>0, <2>1, <3>2, <3>3, <3>5 DEF Guarded, Known
    <2>. QED BY <1>0, <1>1, <2>1, <2>2 DEF PeerInv, PeerTypes, JobOK, FilesOK
<1>3. CASE Peer!Crash
    <2>1. /\ job' = Peer!NoJob /\ UNCHANGED <<clock, main>> /\ backup' \in {backup, Peer!Torn}
          /\ main = Peer!Absent => backup' = backup
          /\ faults' = [faults EXCEPT !["crash"] = @ + 1]
        BY <1>3 DEF Peer!Crash, Peer!Fault
    <2>2. faults' \in [{"crash", "corrupt"} -> Nat] /\ faults'["crash"] # 0
          /\ faults'["corrupt"] = faults["corrupt"]
        BY <1>0, <2>1
    <2>3. FilesOK'
        BY <2>1, <2>2 DEF PeerInv, FilesOK, Peer!Torn, Peer!Absent, Peer!NoJob
    <2>4. backup' \in ReplayFile /\ JobOK'
        BY <1>0, <2>1 DEF PeerTypes, ReplayFile, Peer!Torn, JobOK
    <2>5. (Undamaged => Guarded)'
        BY <1>0, <2>1, <2>2 DEF PeerInv, Undamaged, Guarded, Remembers, Known
    <2>. QED BY <1>0, <1>1, <2>1, <2>2, <2>3, <2>4, <2>5 DEF PeerInv, PeerTypes
<1>4. CASE Peer!Corrupt
    <2>1. /\ main' = Peer!Torn /\ main # Peer!Absent /\ UNCHANGED <<clock, backup, job>>
          /\ job.stage # "first"
          /\ faults' = [faults EXCEPT !["corrupt"] = @ + 1]
        BY <1>4 DEF Peer!Corrupt, Peer!Fault
    <2>2. /\ faults' \in [{"crash", "corrupt"} -> Nat] /\ faults'["corrupt"] = faults["corrupt"] + 1
          /\ faults'["crash"] = faults["crash"] /\ faults'["corrupt"] # 0
        BY <1>0, <2>1
    <2>3. main' \in ReplayFile
        BY <2>1 DEF ReplayFile, Peer!Torn
    <2>4. faults'["corrupt"] = 1 /\ faults'["crash"] = 0 => backup.state = "written"
        <3>1. SUFFICES ASSUME faults["corrupt"] = 0, faults["crash"] = 0 PROVE backup.state = "written"
            BY <1>0, <2>2
        <3>2. main.state = "written"
            BY <1>0, <2>1, <3>1 DEF PeerInv, FilesOK, PeerTypes, ReplayFile
        <3>. QED BY <2>1, <3>1, <3>2 DEF PeerInv, FilesOK
    <2>5. FilesOK'
        BY <2>1, <2>2, <2>4 DEF PeerInv, FilesOK, Peer!Torn
    <2>. QED BY <1>0, <1>1, <2>1, <2>2, <2>3, <2>5 DEF PeerInv, PeerTypes, JobOK, Undamaged
<1>. QED BY <1>2, <1>3, <1>4

LEMMA PeerInvNext ==
    ASSUME Peer!PeerAssumption, PeerInv, [Peer!Next]_(Peer!vars)
    PROVE  PeerInv'
<1>1. CASE UNCHANGED Peer!vars
    <2>1. UNCHANGED <<clock, sent, out, raised, main, backup, active, job, stored, handled, answer, faults>>
        BY <1>1 DEF Peer!vars
    <2>. QED BY <2>1 DEF PeerInv, PeerTypes, OutOK, BroadcastOK, Left, Stored, FilesOK, Guarded,
                         Undamaged, SentOK, HandledOK, AnswersOK, JobOK, Remembers, Known
<1>. QED BY <1>1, SenderStep, SendStep, VerifyStep, WriteStep, DispatchStep, FaultStep DEF Peer!Next

LEMMA PeerInvariance == ASSUME Peer!PeerAssumption PROVE Peer!Spec => []PeerInv
BY PeerInvInit, PeerInvNext, PTL DEF Peer!Spec

\* However often the network repeats a signed request, and whenever the receiver
\* crashes and prunes, its handler runs at most once, unless storage damages the
\* replay file (require_peer_secret).
THEOREM RequestsActOnce == ASSUME Peer!PeerAssumption PROVE Peer!Spec => []AtMostOnce
<1>1. PeerInv => AtMostOnce
    BY DEF PeerInv, PeerTypes, SentOK, Message, Guarded, Undamaged, AtMostOnce, HandledOK
<1>. QED BY <1>1, PeerInvariance, PTL

\* While a request that was handled would still pass the freshness check, the
\* replay state that a restart would load knows it (_prune_entries).
RememberedUnlessDamaged == Undamaged => Peer!FreshIsRemembered

THEOREM RequestsAreRemembered ==
    ASSUME Peer!PeerAssumption PROVE Peer!Spec => []RememberedUnlessDamaged
<1>1. PeerInv => RememberedUnlessDamaged
    <2>1. SUFFICES ASSUME PeerInv, Undamaged, NEW m \in sent, handled[m.nonce] > 0, Peer!Fresh(m, clock),
                          Peer!PeerAssumption
          PROVE  Peer!_load_document # Peer!Torn /\ Peer!Replayed(m, Peer!_load_document.entries)
        BY DEF RememberedUnlessDamaged, Peer!FreshIsRemembered
    <2>2. Peer!_load_document = main /\ Guarded
        BY <2>1 DEF PeerInv, Guarded, Peer!_load_document
    <2>3. clock <= m.ts + Window
        BY <2>1 DEF Peer!Fresh, PeerInv, PeerTypes, SentOK, Message, Peer!PeerAssumption
    <2>. QED BY <2>1, <2>2, <2>3 DEF Guarded, Remembers, Known, Peer!Replayed
<1>. QED BY <1>1, PeerInvariance, PTL

\* After crashes, or after one damage of a file that has its backup, the replay
\* state is readable for the next request (_load_document, _write_document).
ReadableAfterFaults ==
    faults["corrupt"] = 0 \/ (faults["corrupt"] = 1 /\ faults["crash"] = 0) => Peer!ReplayStateReadable

THEOREM ReplayFileStaysReadable ==
    ASSUME Peer!PeerAssumption PROVE Peer!Spec => []ReadableAfterFaults
<1>1. PeerInv => ReadableAfterFaults
    BY DEF PeerInv, FilesOK, ReadableAfterFaults, Peer!ReplayStateReadable, Peer!_load_document,
           Peer!Torn, Peer!NoJob
<1>. QED BY <1>1, PeerInvariance, PTL

\* A peer that has the block of an object has its certificate and its originality
\* evidence, whatever legs were lost, refused or late (broadcast_block).
THEOREM BlocksFollowEvidence ==
    ASSUME Peer!PeerAssumption PROVE Peer!Spec => []Peer!BlockAfterItsEvidence
<1>1. PeerInv => Peer!BlockAfterItsEvidence
    BY DEF PeerInv, OutOK, Stored, Peer!BlockAfterItsEvidence
<1>. QED BY <1>1, PeerInvariance, PTL

-----------------------------------------------------------------------------
(* Challenges and sessions of wallets                                      *)

Item == [kind : Wallet!Dicts, wallet : Wallets, exp : Nat, used : BOOLEAN]

\* The mark of a challenge is on the object: an accepted challenge is marked.
WalletTypes ==
    /\ clock \in Nat /\ restarts \in Nat
    /\ items \in Seq(Item) /\ Len(items) <= MaxItems
    /\ accepted \in [Wallet!Ids -> {0, 1}]
    /\ \A i \in Wallet!Ids : accepted[i] = 1 => i \in DOMAIN items /\ items[i].used

\* What the dictionaries hold while no worker thread rebinds them.
DictOK ==
    /\ dict \in [Wallet!Dicts -> SUBSET DOMAIN items]
    /\ \A d \in Wallet!Dicts : \A i \in dict[d] : items[i].kind = d
    /\ loggedOut \subseteq DOMAIN items
    /\ \A d \in Wallet!Dicts : dict[d] \cap loggedOut = {}
    /\ Wallet!IssuedIsFound

WalletInv == WalletTypes /\ (Workers = {} => DictOK /\ Wallet!LogoutSticks)

LEMMA WalletInvInit == ASSUME Wallet!SessionAssumption, Wallet!Init PROVE WalletInv
<1>1. items = <<>> /\ <<>> \in Seq(Item) /\ DOMAIN <<>> = {} /\ Len(<<>>) = 0
    BY DEF Wallet!Init
<1>2. WalletTypes
    BY <1>1 DEF Wallet!SessionAssumption, Wallet!Init, WalletTypes
<1>3. DictOK
    BY <1>1 DEF Wallet!Init, DictOK, Wallet!IssuedIsFound, Wallet!Made
<1>4. Wallet!LogoutSticks
    BY DEF Wallet!Init, Wallet!LogoutSticks, Wallet!NoAnswer
<1>. QED BY <1>2, <1>3, <1>4 DEF WalletInv

LEMMA ItemAt ==
    ASSUME WalletTypes, NEW i \in DOMAIN items
    PROVE  /\ items[i].kind \in Wallet!Dicts /\ items[i].wallet \in Wallets
           /\ items[i].exp \in Nat /\ items[i].used \in BOOLEAN
<1>1. items[i] \in Item
    BY DEF WalletTypes
<1>. QED BY <1>1 DEF Item

\* Objects are only marked.
OnlyMarked(marked) ==
    /\ marked \in Seq(Item) /\ Len(marked) = Len(items)
    /\ \A i \in DOMAIN items :
          /\ marked[i].kind = items[i].kind /\ marked[i].wallet = items[i].wallet
          /\ marked[i].exp = items[i].exp /\ (items[i].used => marked[i].used)

\* Dictionaries that lost only what is expired.
OnlyPruned(ds) ==
    /\ ds \in [Wallet!Dicts -> SUBSET DOMAIN items]
    /\ \A d \in Wallet!Dicts : /\ ds[d] \subseteq dict[d]
                               /\ \A i \in dict[d] : Wallet!Alive(i, clock) => i \in ds[d]

LEMMA Marking ==
    ASSUME WalletTypes, NEW c \in DOMAIN items
    PROVE  OnlyMarked(items) /\ OnlyMarked([items EXCEPT ![c].used = TRUE])
<1>. DEFINE marked == [items EXCEPT ![c].used = TRUE]
<1>1. items \in Seq(Item) /\ \A i \in DOMAIN items : items[i] \in Item
    BY DEF WalletTypes
<1>2. /\ \A i \in DOMAIN items : marked[i] = IF i = c THEN [items[c] EXCEPT !.used = TRUE] ELSE items[i]
      /\ [items[c] EXCEPT !.used = TRUE] \in Item
    BY <1>1 DEF Item
<1>3. marked \in Seq(Item) /\ Len(marked) = Len(items)
    BY <1>1, <1>2
<1>. QED BY <1>1, <1>2, <1>3 DEF OnlyMarked, Item

LEMMA Pruning ==
    ASSUME DictOK, NEW mgr
    PROVE  OnlyPruned(dict) /\ OnlyPruned(Wallet!prune_expired(mgr))
BY DEF DictOK, OnlyPruned, Wallet!prune_expired

\* Objects are marked and dictionaries pruned.
LEMMA MarkStep ==
    ASSUME WalletTypes, DictOK, NEW ds, OnlyPruned(ds), OnlyMarked(items'), dict' = ds,
           UNCHANGED <<clock, loggedOut, restarts>>
    PROVE  DictOK'
<1>1. DOMAIN items' = DOMAIN items
    BY DEF OnlyMarked, WalletTypes
<1>2. /\ dict' \in [Wallet!Dicts -> SUBSET DOMAIN items] /\ loggedOut \subseteq DOMAIN items
      /\ \A d \in Wallet!Dicts : dict'[d] \subseteq dict[d]
    BY DEF DictOK, OnlyPruned
<1>3. Wallet!IssuedIsFound'
    <2>1. SUFFICES ASSUME restarts = 0, NEW i \in DOMAIN items, Wallet!Alive(i, clock)', ~items'[i].used,
                          ~Wallet!Replaced(i)', i \notin loggedOut
          PROVE  i \in dict'[items'[i].kind]
        BY <1>1 DEF Wallet!IssuedIsFound, Wallet!Made
    <2>2. Wallet!Alive(i, clock) /\ ~items[i].used /\ items'[i].kind = items[i].kind /\ items[i].kind \in Wallet!Dicts
        BY <2>1, ItemAt DEF OnlyMarked, Wallet!Alive
    <2>3. ~Wallet!Replaced(i)
        BY <1>1, <2>1 DEF OnlyMarked, Wallet!Replaced, Wallet!Made
    <2>4. i \in dict[items[i].kind]
        BY <2>1, <2>2, <2>3 DEF DictOK, Wallet!IssuedIsFound, Wallet!Made
    <2>. QED BY <2>2, <2>4 DEF OnlyPruned
<1>. QED BY <1>1, <1>2, <1>3 DEF DictOK, OnlyMarked

\* An object is made, and inserted where it belongs.
LEMMA InsertStep ==
    ASSUME WalletTypes, DictOK, NEW ds, OnlyPruned(ds), NEW marked, OnlyMarked(marked),
           NEW item \in Item, items' = Append(marked, item),
           dict' = Wallet!Insert(ds, item.kind, item.wallet, Len(items) + 1),
           UNCHANGED <<clock, loggedOut, restarts>>
    PROVE  DictOK'
<1>. DEFINE n == Len(items) + 1
            k == item.kind
<1>1. /\ DOMAIN items = 1 .. Len(items) /\ Len(items) \in Nat /\ DOMAIN items' = DOMAIN items \cup {n}
      /\ items'[n] = item /\ \A i \in DOMAIN items : items'[i] = marked[i]
      /\ n \notin DOMAIN items
    BY DEF OnlyMarked, WalletTypes
<1>2. PICK rest \in SUBSET ds[k] :
         /\ dict' = [ds EXCEPT ![k] = rest \cup {n}]
         /\ \A i \in ds[k] : i \in rest \/ (k = "login" /\ items[i].wallet = item.wallet)
    <2>1. CASE k = "login"
        BY <2>1 DEF Wallet!Insert
    <2>2. CASE k # "login"
        BY <2>2 DEF Wallet!Insert
    <2>. QED BY <2>1, <2>2
<1>3. /\ k \in Wallet!Dicts /\ ds \in [Wallet!Dicts -> SUBSET DOMAIN items]
      /\ dict' \in [Wallet!Dicts -> SUBSET DOMAIN items']
      /\ \A d \in Wallet!Dicts : \A i \in dict'[d] : (i \in dict[d]) \/ (d = k /\ i = n)
      /\ \A d \in Wallet!Dicts : d # k => dict'[d] = ds[d]
      /\ n \in dict'[k]
    BY <1>1, <1>2 DEF OnlyPruned, Item
<1>4. \A d \in Wallet!Dicts : \A i \in dict'[d] : items'[i].kind = d
    BY <1>1, <1>3 DEF DictOK, OnlyMarked
<1>5. loggedOut' \subseteq DOMAIN items' /\ \A d \in Wallet!Dicts : dict'[d] \cap loggedOut' = {}
    BY <1>1, <1>3 DEF DictOK
<1>6. Wallet!IssuedIsFound'
    <2>1. SUFFICES ASSUME restarts = 0, NEW i \in DOMAIN items', Wallet!Alive(i, clock)', ~items'[i].used,
                          ~Wallet!Replaced(i)', i \notin loggedOut
          PROVE  i \in dict'[items'[i].kind]
        BY DEF Wallet!IssuedIsFound, Wallet!Made
    <2>2. CASE i = n
        BY <1>1, <1>3, <2>2
    <2>3. CASE i \in DOMAIN items
        <3>1. /\ items'[i].kind = items[i].kind /\ items'[i].wallet = items[i].wallet
              /\ Wallet!Alive(i, clock) /\ ~items[i].used /\ items[i].kind \in Wallet!Dicts
            BY <1>1, <2>1, <2>3, ItemAt DEF OnlyMarked, Wallet!Alive
        <3>2. ~Wallet!Replaced(i)
            BY <1>1, <2>1, <2>3 DEF OnlyMarked, Wallet!Replaced, Wallet!Made
        <3>3. i \in ds[items[i].kind]
            BY <2>1, <2>3, <3>1, <3>2 DEF DictOK, OnlyPruned, Wallet!IssuedIsFound, Wallet!Made
        <3>4. ~(items[i].kind = "login" /\ k = "login" /\ items[i].wallet = item.wallet)
            BY <1>1, <2>1, <2>3, <3>1 DEF Wallet!Replaced, Wallet!Made
        <3>. QED BY <1>2, <1>3, <3>1, <3>3, <3>4 DEF Item
    <2>. QED BY <1>1, <2>2, <2>3
<1>. QED BY <1>3, <1>4, <1>5, <1>6 DEF DictOK

\* A session is logged out.
LEMMA LogoutStep ==
    ASSUME WalletTypes, DictOK, NEW ds, OnlyPruned(ds), NEW t \in DOMAIN items,
           dict' = [ds EXCEPT ![items[t].kind] = @ \ {t}], loggedOut' = loggedOut \cup {t},
           UNCHANGED <<clock, items, restarts>>
    PROVE  DictOK'
<1>1. items[t].kind \in Wallet!Dicts /\ ds \in [Wallet!Dicts -> SUBSET DOMAIN items]
    BY ItemAt DEF OnlyPruned
<1>2. /\ dict' \in [Wallet!Dicts -> SUBSET DOMAIN items]
      /\ \A d \in Wallet!Dicts : /\ dict'[d] \subseteq dict[d] /\ t \notin dict'[d]
                                 /\ \A i \in ds[d] : i = t \/ i \in dict'[d]
    BY <1>1 DEF OnlyPruned, DictOK
<1>3. Wallet!IssuedIsFound'
    <2>1. SUFFICES ASSUME restarts = 0, NEW i \in DOMAIN items, Wallet!Alive(i, clock), ~items[i].used,
                          ~Wallet!Replaced(i), i \notin loggedOut, i # t
          PROVE  i \in dict'[items[i].kind]
        BY DEF Wallet!IssuedIsFound, Wallet!Made, Wallet!Alive, Wallet!Replaced
    <2>2. items[i].kind \in Wallet!Dicts /\ i \in dict[items[i].kind]
        BY <2>1, ItemAt DEF DictOK, Wallet!IssuedIsFound, Wallet!Made
    <2>. QED BY <1>2, <2>1, <2>2 DEF OnlyPruned
<1>. QED BY <1>2, <1>3 DEF DictOK

\* A challenge or a session is issued, and maybe another challenge marked.
LEMMA AppendStep ==
    ASSUME Wallet!SessionAssumption, WalletTypes, NEW item \in Item, NEW marked, OnlyMarked(marked),
           Len(items) < MaxItems, items' = Append(marked, item), UNCHANGED <<clock, restarts>>,
           \/ accepted' = accepted
           \/ \E c \in DOMAIN items :
                ~items[c].used /\ marked[c].used /\ accepted' = [accepted EXCEPT ![c] = @ + 1]
    PROVE  WalletTypes'
<1>1. /\ DOMAIN items = 1 .. Len(items) /\ Len(items) \in Nat /\ MaxItems \in Nat
      /\ DOMAIN items \subseteq Wallet!Ids
    BY DEF WalletTypes, Wallet!SessionAssumption, Wallet!Ids
<1>2. /\ items' \in Seq(Item) /\ Len(items') <= MaxItems
      /\ \A i \in DOMAIN items : i \in DOMAIN items' /\ items'[i] = marked[i]
    BY <1>1 DEF OnlyMarked
<1>3. /\ accepted' \in [Wallet!Ids -> {0, 1}]
      /\ \A i \in Wallet!Ids : accepted'[i] = 1 => i \in DOMAIN items /\ marked[i].used
    BY <1>1 DEF WalletTypes, OnlyMarked
<1>. QED BY <1>2, <1>3 DEF WalletTypes

\* A challenge is marked as it is accepted.
LEMMA UseStep ==
    ASSUME Wallet!SessionAssumption, WalletTypes, NEW c \in DOMAIN items, ~items[c].used,
           items' = [items EXCEPT ![c].used = TRUE], accepted' = [accepted EXCEPT ![c] = @ + 1],
           UNCHANGED <<clock, restarts>>
    PROVE  WalletTypes'
<1>1. /\ DOMAIN items = 1 .. Len(items) /\ Len(items) \in Nat /\ MaxItems \in Nat
      /\ DOMAIN items \subseteq Wallet!Ids
    BY DEF WalletTypes, Wallet!SessionAssumption, Wallet!Ids
<1>4. OnlyMarked([items EXCEPT ![c].used = TRUE])
    BY Marking
<1>5. /\ items' \in Seq(Item) /\ Len(items') = Len(items)
      /\ \A i \in DOMAIN items : items[i].used => items'[i].used
    BY <1>4 DEF OnlyMarked
<1>2. items'[c].used
    BY <1>1 DEF WalletTypes
<1>3. /\ accepted' \in [Wallet!Ids -> {0, 1}]
      /\ \A i \in Wallet!Ids : accepted'[i] = 1 => i \in DOMAIN items' /\ items'[i].used
    BY <1>1, <1>2, <1>5 DEF WalletTypes
<1>. QED BY <1>1, <1>3, <1>5 DEF WalletTypes

LEMMA NewIsItem ==
    ASSUME Wallet!SessionAssumption, WalletTypes, NEW w \in Wallets, NEW kind \in Wallet!Dicts,
           NEW ttl \in {ChallengeTtl, SessionTtl}
    PROVE  /\ Wallet!NewItem(kind, w, ttl) \in Item
           /\ Wallet!NewItem(kind, w, ttl).kind = kind /\ Wallet!NewItem(kind, w, ttl).wallet = w
BY DEF Wallet!SessionAssumption, WalletTypes, Wallet!NewItem, Item

\* The operations of the event loop that issue.
LEMMA WalletIssues ==
    ASSUME Wallet!SessionAssumption, WalletInv, NEW w \in Wallets,
           \/ \E k \in Wallet!Challenges : Wallet!issue_challenge(k, w)
           \/ Wallet!issue_admin_session(w)
    PROVE  WalletInv'
<1>1. PICK kind \in Wallet!Dicts, ttl \in {ChallengeTtl, SessionTtl}, mgr \in {"session", "admin"} :
         /\ Len(items) < MaxItems
         /\ items' = Append(items, Wallet!NewItem(kind, w, ttl))
         /\ dict' = Wallet!Insert(Wallet!prune_expired(mgr), kind, w, Len(items) + 1)
         /\ UNCHANGED <<clock, answer, accepted, loggedOut, restarts>>
    BY DEF Wallet!issue_challenge, Wallet!issue_admin_session, Wallet!Challenges, Wallet!Dicts
<1>2. OnlyMarked(items) /\ WalletTypes
    BY DEF WalletInv, WalletTypes, OnlyMarked
<1>3. WalletTypes'
    BY <1>1, <1>2, NewIsItem, AppendStep
<1>4. Workers = {} => DictOK'
    BY <1>1, <1>2, NewIsItem, Pruning, InsertStep DEF WalletInv
<1>. QED BY <1>1, <1>3, <1>4 DEF WalletInv, Wallet!LogoutSticks

\* The operations of the event loop that use a challenge.
LEMMA WalletUses ==
    ASSUME Wallet!SessionAssumption, WalletInv, NEW w \in Wallets, NEW c \in Wallet!Made,
           Wallet!verify_operation(c, w) \/ Wallet!verify_signature(c, w)
    PROVE  WalletInv'
<1>. DEFINE marked == [items EXCEPT ![c].used = TRUE]
            ds == Wallet!Lookup(items[c].kind)
<1>1. /\ c \in DOMAIN items /\ ~items[c].used /\ OnlyMarked(marked) /\ marked[c].used /\ WalletTypes
      /\ accepted' = [accepted EXCEPT ![c] = @ + 1]
      /\ UNCHANGED <<clock, answer, loggedOut, restarts>>
    <2>1. c \in DOMAIN items /\ WalletTypes
        BY DEF Wallet!Made, WalletInv
    <2>2. OnlyMarked(marked)
        BY <2>1, Marking
    <2>3. items[c] \in Item /\ marked[c] = [items[c] EXCEPT !.used = TRUE]
        BY <2>1 DEF WalletTypes
    <2>4. marked[c].used
        BY <2>3 DEF Item
    <2>. QED BY <2>1, <2>2, <2>4 DEF Wallet!verify_operation, Wallet!verify_signature, Wallet!MayVerify
<1>2. DictOK => OnlyPruned(ds)
    BY Pruning DEF Wallet!Lookup
<1>3. CASE Wallet!verify_operation(c, w)
    <2>1. items' = marked /\ dict' = ds
        BY <1>3 DEF Wallet!verify_operation
    <2>2. WalletTypes'
        BY <1>1, <2>1, UseStep
    <2>3. Workers = {} => DictOK'
        BY <1>1, <1>2, <2>1, MarkStep DEF WalletInv
    <2>. QED BY <1>1, <2>2, <2>3 DEF WalletInv, Wallet!LogoutSticks
<1>4. CASE Wallet!verify_signature(c, w)
    <2>. DEFINE item == Wallet!NewItem("session", w, SessionTtl)
    <2>1. /\ Len(items) < MaxItems /\ items' = Append(marked, item)
          /\ dict' = Wallet!Insert(ds, "session", w, Len(items) + 1)
        BY <1>4 DEF Wallet!verify_signature
    <2>2. item \in Item /\ item.kind = "session" /\ item.wallet = w
        BY <1>1, NewIsItem DEF Wallet!SessionAssumption, Wallet!Dicts
    <2>. HIDE DEF item, marked, ds
    <2>3. WalletTypes'
        BY <1>1, <2>1, <2>2, AppendStep
    <2>4. Workers = {} => DictOK'
        BY <1>1, <1>2, <2>1, <2>2, InsertStep DEF WalletInv
    <2>. QED BY <1>1, <2>3, <2>4 DEF WalletInv, Wallet!LogoutSticks
<1>. QED BY <1>3, <1>4

\* A token is resolved, or its session logged out.
LEMMA WalletResolves ==
    ASSUME Wallet!SessionAssumption, WalletInv, NEW t \in Wallet!Made,
           Wallet!revoke_session(t) \/ Wallet!admin_logout(t) \/ Wallet!LoopResolve(t)
    PROVE  WalletInv'
<1>1. UNCHANGED <<clock, items, accepted, restarts>> /\ WalletTypes /\ t \in DOMAIN items
    BY DEF Wallet!revoke_session, Wallet!admin_logout, Wallet!LoopResolve, Wallet!Made, WalletInv
<1>2. WalletTypes' /\ OnlyMarked(items')
    BY <1>1 DEF WalletTypes, OnlyMarked
<1>3. PICK mgr : \/ dict' = [Wallet!prune_expired(mgr) EXCEPT ![items[t].kind] = @ \ {t}]
                    /\ loggedOut' = loggedOut \cup {t} /\ answer' = answer
                 \/ dict' = Wallet!prune_expired(mgr) /\ loggedOut' = loggedOut
                    /\ mgr \in Wallet!Managers
                    /\ answer' = [token |-> t, ok |-> Wallet!Resolves(t, mgr, Wallet!prune_expired(mgr)),
                                  late |-> t \in loggedOut]
    BY DEF Wallet!revoke_session, Wallet!admin_logout, Wallet!LoopResolve
<1>4. ASSUME Workers = {} PROVE DictOK' /\ Wallet!LogoutSticks'
    <2>1. DictOK /\ Wallet!LogoutSticks /\ OnlyPruned(Wallet!prune_expired(mgr))
        BY <1>4, Pruning DEF WalletInv
    <2>2. CASE /\ dict' = [Wallet!prune_expired(mgr) EXCEPT ![items[t].kind] = @ \ {t}]
               /\ loggedOut' = loggedOut \cup {t} /\ answer' = answer
        BY <1>1, <2>1, <2>2, LogoutStep DEF Wallet!LogoutSticks
    <2>3. CASE /\ dict' = Wallet!prune_expired(mgr) /\ loggedOut' = loggedOut
               /\ mgr \in Wallet!Managers
               /\ answer' = [token |-> t, ok |-> Wallet!Resolves(t, mgr, Wallet!prune_expired(mgr)),
                             late |-> t \in loggedOut]
        <3>1. DictOK'
            BY <1>1, <1>2, <2>1, <2>3, MarkStep
        <3>2. mgr \in Wallet!Dicts
            BY <2>3 DEF Wallet!Managers, Wallet!Dicts, Wallet!SessionAssumption
        <3>3. Wallet!Resolves(t, mgr, Wallet!prune_expired(mgr)) => t \notin loggedOut
            BY <2>1, <3>2 DEF Wallet!Resolves, OnlyPruned, DictOK
        <3>. QED BY <2>3, <3>1, <3>3 DEF Wallet!LogoutSticks
    <2>. QED BY <1>3, <2>2, <2>3
<1>. QED BY <1>2, <1>4 DEF WalletInv

\* The steps of the worker threads, time and a restart.
LEMMA WalletRest ==
    ASSUME WalletInv,
           \/ \E h \in Workers :
                 \/ \E t \in Wallet!Made : Wallet!BeginResolve(h, t)
                 \/ Wallet!CopyDict(h) \/ Wallet!Rebind(h) \/ Wallet!resolve_session(h)
           \/ Wallet!Tick \/ Wallet!Restart
    PROVE  WalletInv'
<1>1. /\ UNCHANGED <<items, accepted>> /\ clock' \in {clock, clock + 1} /\ restarts' \in {restarts, restarts + 1}
      /\ WalletTypes /\ clock \in Nat /\ restarts \in Nat
      /\ \A i \in DOMAIN items : items[i].exp \in Nat
    BY ItemAt DEF Wallet!BeginResolve, Wallet!CopyDict, Wallet!Rebind, Wallet!resolve_session, Wallet!Tick,
                  Wallet!Restart, WalletInv, WalletTypes
<1>2. WalletTypes'
    BY <1>1 DEF WalletTypes
<1>3. ASSUME Workers = {}, Wallet!Tick PROVE DictOK' /\ Wallet!LogoutSticks'
    <2>1. UNCHANGED <<items, dict, answer, loggedOut, restarts>> /\ clock' = clock + 1 /\ DictOK
        BY <1>3 DEF Wallet!Tick, WalletInv
    <2>2. Wallet!IssuedIsFound'
        BY <1>1, <2>1 DEF DictOK, Wallet!IssuedIsFound, Wallet!Made, Wallet!Alive, Wallet!Replaced
    <2>. QED BY <1>3, <2>1, <2>2 DEF WalletInv, DictOK, Wallet!LogoutSticks
<1>4. ASSUME Workers = {}, Wallet!Restart, WalletInv PROVE DictOK' /\ Wallet!LogoutSticks'
    <2>1. /\ UNCHANGED <<items, answer, loggedOut>> /\ dict' = [d \in Wallet!Dicts |-> {}]
          /\ restarts' = restarts + 1 /\ DictOK
        BY <1>4 DEF Wallet!Restart, WalletInv
    <2>2. restarts \in Nat
        BY <1>1 DEF WalletTypes
    <2>. QED BY <1>4, <2>1, <2>2 DEF WalletInv, DictOK, Wallet!LogoutSticks, Wallet!IssuedIsFound
<1>. QED BY <1>2, <1>3, <1>4 DEF WalletInv

LEMMA WalletInvNext ==
    ASSUME Wallet!SessionAssumption, WalletInv, [Wallet!Next]_(Wallet!vars)
    PROVE  WalletInv'
<1>1. CASE UNCHANGED Wallet!vars
    <2>1. UNCHANGED <<clock, items, dict, answer, accepted, loggedOut, restarts>>
        BY <1>1 DEF Wallet!vars
    <2>. QED BY <2>1 DEF WalletInv, WalletTypes, DictOK, Wallet!LogoutSticks, Wallet!IssuedIsFound,
                         Wallet!Made, Wallet!Alive, Wallet!Replaced
<1>. QED BY <1>1, WalletIssues, WalletUses, WalletResolves, WalletRest DEF Wallet!Next

LEMMA WalletInvariance == ASSUME Wallet!SessionAssumption PROVE Wallet!Spec => []WalletInv
BY WalletInvInit, WalletInvNext, PTL DEF Wallet!Spec

\* A challenge authorises one operation, whatever the worker threads that prune
\* put back into the dictionaries (verify_signature and the other verify_*).
THEOREM ChallengesAreUsedOnce ==
    ASSUME Wallet!SessionAssumption PROVE Wallet!Spec => []ChallengeUsedOnce
<1>1. WalletInv => ChallengeUsedOnce
    BY DEF WalletInv, WalletTypes, ChallengeUsedOnce
<1>. QED BY <1>1, WalletInvariance, PTL

\* On the event loop alone, a request that arrives after the logout of its session
\* is refused, and what was issued is found until it is used, replaced by a newer
\* login challenge, logged out, expired or forgotten in a restart (revoke_session,
\* prune_expired).
LoopKeepsSessions == Workers = {} => Wallet!LogoutSticks /\ Wallet!IssuedIsFound

THEOREM SessionsAreKeptOnTheLoop ==
    ASSUME Wallet!SessionAssumption PROVE Wallet!Spec => []LoopKeepsSessions
<1>1. WalletInv => LoopKeepsSessions
    BY DEF WalletInv, DictOK, LoopKeepsSessions
<1>. QED BY <1>1, WalletInvariance, PTL

\* A token resolves, and a signature is accepted, only before its expiry, though a
\* worker prunes earlier than it looks up, and reports and disputes look their
\* challenges up without pruning (resolve_session, verify_report_signature).
THEOREM OnlyLiveTokens ==
    ASSUME Wallet!SessionAssumption PROVE Wallet!Spec => Wallet!ResolvesOnlyLive /\ Wallet!VerifiesOnlyLive
<1>1. ASSUME WalletInv, [Wallet!Next]_(Wallet!vars)
      PROVE  [Wallet!ResolvesLive /\ Wallet!VerifiesLive]_(Wallet!vars)
    <2>1. CASE UNCHANGED Wallet!vars
        BY <2>1
    <2>2. ASSUME NEW w \in Wallets, NEW c \in Wallet!Made,
                 Wallet!verify_operation(c, w) \/ Wallet!verify_signature(c, w)
          PROVE  Wallet!ResolvesLive /\ Wallet!VerifiesLive
        <3>1. items[c].exp > clock /\ answer' = answer /\ accepted' = [accepted EXCEPT ![c] = @ + 1]
            BY <2>2 DEF Wallet!verify_operation, Wallet!verify_signature, Wallet!MayVerify, Wallet!Alive
        <3>2. accepted \in [Wallet!Ids -> {0, 1}] /\ Wallet!Made \subseteq Wallet!Ids
            BY <1>1 DEF WalletInv, WalletTypes, Wallet!Made, Wallet!Ids, Wallet!SessionAssumption
        <3>. QED BY <3>1, <3>2 DEF Wallet!ResolvesLive, Wallet!VerifiesLive
    <2>3. ASSUME NEW t \in Wallet!Made, Wallet!LoopResolve(t)
          PROVE  Wallet!ResolvesLive /\ Wallet!VerifiesLive
        BY <2>3 DEF Wallet!LoopResolve, Wallet!Resolves, Wallet!Alive, Wallet!ResolvesLive,
                    Wallet!VerifiesLive
    <2>4. ASSUME NEW h \in Workers, Wallet!resolve_session(h)
          PROVE  Wallet!ResolvesLive /\ Wallet!VerifiesLive
        BY <2>4 DEF Wallet!resolve_session, Wallet!Resolves, Wallet!Alive, Wallet!ResolvesLive,
                    Wallet!VerifiesLive
    <2>5. ASSUME UNCHANGED <<answer, accepted>> PROVE Wallet!ResolvesLive /\ Wallet!VerifiesLive
        BY <2>5 DEF Wallet!ResolvesLive, Wallet!VerifiesLive
    <2>6. ASSUME NEW h \in Workers,
                 \/ \E t \in Wallet!Made : Wallet!BeginResolve(h, t)
                 \/ Wallet!CopyDict(h) \/ Wallet!Rebind(h)
          PROVE  UNCHANGED <<answer, accepted>>
        BY <2>6 DEF Wallet!BeginResolve, Wallet!CopyDict, Wallet!Rebind
    <2>7. ASSUME NEW w \in Wallets, (\E k \in Wallet!Challenges : Wallet!issue_challenge(k, w)) \/ Wallet!issue_admin_session(w)
          PROVE  UNCHANGED <<answer, accepted>>
        BY <2>7 DEF Wallet!issue_challenge, Wallet!issue_admin_session
    <2>8. ASSUME NEW t \in Wallet!Made, Wallet!revoke_session(t) \/ Wallet!admin_logout(t)
          PROVE  UNCHANGED <<answer, accepted>>
        BY <2>8 DEF Wallet!revoke_session, Wallet!admin_logout
    <2>9. ASSUME Wallet!Tick \/ Wallet!Restart PROVE UNCHANGED <<answer, accepted>>
        BY <2>9 DEF Wallet!Tick, Wallet!Restart
    <2>. QED BY <1>1, <2>1, <2>2, <2>3, <2>4, <2>5, <2>6, <2>7, <2>8, <2>9 DEF Wallet!Next
<1>. QED BY <1>1, WalletInvariance, PTL DEF Wallet!Spec, Wallet!ResolvesOnlyLive, Wallet!VerifiesOnlyLive

-----------------------------------------------------------------------------
(* Transfers that a client submits                                         *)

\* A page submits what its owner typed once, in one wording: an edited form is
\* another payment.
OneForm == Edits = {} /\ \A p \in Payments : \E q : p = {q}

Shaped(m) ==
    /\ m = [version |-> m.version, nonce |-> m.nonce,
            time |-> [at |-> m.time.at, form |-> m.time.form],
            amount |-> m.amount, fee |-> m.fee, memo |-> m.memo, to |-> m.to]
    /\ m.version \in {1, 2} /\ m.time.at \in Nat

IsMessage(m) ==
    \/ \E r \in flight : r.msg = m
    \/ \E x \in refused : x.msg = m
    \/ \E c \in challenges : c.msg = m
    \/ client.msg = m /\ m # Transfer!None

\* No submission of this message will be verified any more.
Dead(m) ==
    \A q \in payment :
        \/ ~Transfer!PreviewFits(m, q)
        \/ \A c \in challenges : c.msg = m => c.used \/ c.exp <= clock
        \/ Transfer!Payload(m) # m
        \/ Transfer!Payload(Transfer!Texts(q, 1, m.nonce, m.time)) # m

\* A timestamp names one message.
MessagesOK ==
    /\ \A m : IsMessage(m) => Shaped(m) /\ m.time.at <= issued
    /\ \A m, k : IsMessage(m) /\ IsMessage(k) /\ m.time.at = k.time.at => m = k

IsChallenge(c) ==
    c = [msg |-> c.msg, exp |-> c.exp, used |-> c.used] /\ c.exp \in Nat /\ c.used \in BOOLEAN

\* Only the message that the client holds may still be verified or is recorded.
TransferInv ==
    /\ clock \in Nat /\ issued \in Nat
    /\ \E q : payment = {q}
    /\ client = [msg |-> client.msg, paid |-> client.paid]
    /\ \A c \in challenges : IsChallenge(c)
    /\ MessagesOK
    /\ \A r \in flight : r.form \in payment /\ (r.msg # client.msg => Dead(r.msg))
    /\ \A x \in refused : Dead(x.msg) /\ Transfer!TxId(x.msg) \notin DOMAIN records
    /\ records = [t \in DOMAIN records |-> records[t]]
    /\ \A t \in DOMAIN records :
          /\ t = client.msg /\ Shaped(t) /\ Transfer!Payload(t) = t
          /\ \A q \in payment : Transfer!PreviewFits(t, q)

LEMMA TransferInvInit ==
    ASSUME Transfer!TransferAssumption, OneForm, Transfer!Init PROVE TransferInv
<1>1. client.msg = Transfer!None /\ ~\E m : IsMessage(m)
    BY DEF Transfer!Init, IsMessage
<1>2. MessagesOK
    BY <1>1 DEF MessagesOK
<1>. QED BY <1>2 DEF TransferInv, OneForm, Transfer!Init

LEMMA NoneIsNoMessage == ~Shaped(Transfer!None)
<1>1. Transfer!None.version = 0
    BY DEF Transfer!None
<1>. QED BY <1>1 DEF Shaped

LEMMA PayloadShape ==
    ASSUME NEW m, Shaped(m)
    PROVE  Shaped(Transfer!Payload(m)) /\ Transfer!Payload(m).time.at = m.time.at
<1>. DEFINE p == [version |-> m.version, nonce |-> m.nonce,
                  time |-> [at |-> m.time.at, form |-> "offset"],
                  amount |-> Transfer!parse_native_zoid_amount(m.amount),
                  fee |-> Transfer!parse_native_zoid_amount(m.fee),
                  memo |-> Transfer!normalize_memo(m.memo),
                  to |-> Transfer!normalize_wallet_address(m.to)]
<1>1. m.time = [at |-> m.time.at, form |-> m.time.form]
    BY DEF Shaped
<1>2. Transfer!parse_transfer_timestamp(m.time) = [at |-> m.time.at, form |-> "offset"]
    BY <1>1 DEF Transfer!parse_transfer_timestamp
<1>3. Transfer!Payload(m) = p
    <2>1. ASSUME NEW v, NEW n, NEW time, NEW a, NEW f, NEW memo, NEW to, NEW x,
                 x = Transfer!Payload([version |-> v, nonce |-> n, time |-> time, amount |-> a,
                                       fee |-> f, memo |-> memo, to |-> to])
          PROVE  x = [version |-> v, nonce |-> n, time |-> Transfer!parse_transfer_timestamp(time),
                    amount |-> Transfer!parse_native_zoid_amount(a),
                    fee |-> Transfer!parse_native_zoid_amount(f),
                    memo |-> Transfer!normalize_memo(memo), to |-> Transfer!normalize_wallet_address(to)]
        BY <2>1 DEF Transfer!Payload
    <2>2. m = [version |-> m.version, nonce |-> m.nonce, time |-> m.time, amount |-> m.amount,
               fee |-> m.fee, memo |-> m.memo, to |-> m.to]
        BY <1>1 DEF Shaped
    <2>3. Transfer!Payload(m) = [version |-> m.version, nonce |-> m.nonce,
                    time |-> Transfer!parse_transfer_timestamp(m.time),
                    amount |-> Transfer!parse_native_zoid_amount(m.amount),
                    fee |-> Transfer!parse_native_zoid_amount(m.fee),
                    memo |-> Transfer!normalize_memo(m.memo), to |-> Transfer!normalize_wallet_address(m.to)]
        BY <2>1, <2>2
    <2>. QED BY <1>2, <2>3
<1>4. Shaped(p) /\ p.time.at = m.time.at
    BY DEF Shaped
<1>. QED BY <1>3, <1>4

LEMMA TextsShape ==
    ASSUME NEW q, NEW version \in {1, 2}, NEW nonce, NEW at \in Nat
    PROVE  LET m == Transfer!Texts(q, version, nonce, [at |-> at, form |-> "Z"])
           IN  Shaped(m) /\ m.time.at = at
BY DEF Transfer!Texts, Shaped

\* A message that may be verified now is the one the client holds.
LEMMA VerifiedIsHeld ==
    ASSUME TransferInv, NEW r \in flight, Transfer!PreviewFits(r.msg, r.form), Transfer!Verifies(r)
    PROVE  /\ r.msg = client.msg /\ ~Dead(r.msg) /\ Shaped(r.msg)
           /\ Transfer!Payload(r.msg) = r.msg /\ payment = {r.form}
<1>1. r.form \in payment /\ payment = {r.form} /\ (r.msg # client.msg => Dead(r.msg))
    BY DEF TransferInv
<1>2. ~Dead(r.msg)
    <2>1. PICK c \in challenges : c.exp > clock /\ c.msg = r.msg /\ ~c.used
        BY DEF Transfer!Verifies, Transfer!Unexpired
    <2>2. ~(c.used \/ c.exp <= clock)
        BY <2>1 DEF TransferInv, IsChallenge
    <2>. QED BY <1>1, <2>1, <2>2 DEF Dead, Transfer!Verifies
<1>3. Shaped(r.msg)
    BY DEF TransferInv, MessagesOK, IsMessage
<1>. QED BY <1>1, <1>2, <1>3 DEF Transfer!Verifies

\* Challenges are pruned, taken and forgotten, and time passes.
ChallengesFollow ==
    \A c \in challenges' :
        IsChallenge(c) /\ \E k \in challenges : c.msg = k.msg /\ c.exp = k.exp /\ (k.used => c.used)

LEMMA DeadStays ==
    ASSUME TransferInv, ChallengesFollow, payment' = payment, clock' \in {clock, clock + 1},
           NEW m, Dead(m)
    PROVE  Dead(m)'
<1>1. SUFFICES ASSUME NEW q \in payment, Transfer!PreviewFits(m, q), Transfer!Payload(m) = m,
                      Transfer!Payload(Transfer!Texts(q, 1, m.nonce, m.time)) = m,
                      NEW c \in challenges', c.msg = m
               PROVE  c.used \/ c.exp <= clock'
    BY DEF Dead
<1>2. PICK k \in challenges : c.msg = k.msg /\ c.exp = k.exp /\ (k.used => c.used)
    BY DEF ChallengesFollow
<1>3. k.exp \in Nat /\ clock \in Nat
    BY DEF TransferInv, IsChallenge
<1>4. k.used \/ k.exp <= clock
    BY <1>1, <1>2 DEF Dead
<1>. QED BY <1>2, <1>3, <1>4

\* A step that makes no message.
MakesNoMessage ==
    /\ ChallengesFollow /\ UNCHANGED <<payment, issued>> /\ clock' \in {clock, clock + 1}
    /\ \A r \in flight' :
          r \in flight \/ (r.form \in payment /\ r.msg = client.msg /\ IsMessage(r.msg))
    /\ client' = [msg |-> client'.msg, paid |-> client'.paid]
    /\ \/ client'.msg = client.msg
       \/ client'.msg = Transfer!None /\ DOMAIN records' = {} /\ \E m : m = client.msg /\ Dead(m)'
    /\ \A x \in refused' : x \in refused \/ (IsMessage(x.msg) /\ Dead(x.msg)')
    /\ \A x \in refused' : Transfer!TxId(x.msg) \notin DOMAIN records'
    /\ records' = [t \in DOMAIN records' |-> records'[t]]
    /\ \A t \in DOMAIN records' :
          t \in DOMAIN records \/ (/\ t = client.msg /\ Shaped(t) /\ Transfer!Payload(t) = t
                                  /\ \A q \in payment : Transfer!PreviewFits(t, q))

LEMMA FollowStep == ASSUME TransferInv, MakesNoMessage PROVE TransferInv'
<1>0. UNCHANGED <<payment, issued>> /\ ChallengesFollow /\ clock' \in {clock, clock + 1}
    BY DEF MakesNoMessage
<1>1. \A c \in challenges' : IsChallenge(c) /\ \E k \in challenges : c.msg = k.msg
    BY <1>0 DEF ChallengesFollow
<1>2. \A m : IsMessage(m)' => IsMessage(m)
    BY <1>1 DEF MakesNoMessage, IsMessage
<1>3. MessagesOK'
    BY <1>0, <1>2 DEF TransferInv, MessagesOK
<1>4. clock' \in Nat /\ issued' \in Nat /\ \E q : payment' = {q}
    <2>1. clock \in Nat /\ issued \in Nat /\ \E q : payment = {q}
        BY DEF TransferInv
    <2>. QED BY <1>0, <2>1
<1>5. \A r \in flight' : r.form \in payment' /\ (r.msg # client'.msg => Dead(r.msg)')
    <2>1. \A r \in flight : r.form \in payment /\ (r.msg # client.msg => Dead(r.msg))
        BY DEF TransferInv
    <2>2. \A r \in flight : r.msg # client.msg => Dead(r.msg)'
        BY <1>0, <2>1, DeadStays
    <2>3. SUFFICES ASSUME NEW r \in flight', r.msg # client'.msg
                   PROVE  r.form \in payment /\ Dead(r.msg)'
        BY <1>0, <2>1 DEF MakesNoMessage
    <2>4. r.form \in payment /\ (r.msg # client.msg => Dead(r.msg)')
        BY <2>1, <2>2 DEF MakesNoMessage
    <2>5. r.msg = client.msg => Dead(r.msg)'
        <3>1. CASE client'.msg = client.msg
            BY <2>3, <3>1
        <3>2. CASE \E m : m = client.msg /\ Dead(m)'
            BY <3>2
        <3>. QED BY <3>1, <3>2 DEF MakesNoMessage
    <2>. QED BY <2>4, <2>5
<1>6. \A x \in refused' : Dead(x.msg)'
    <2>1. \A x \in refused : Dead(x.msg)
        BY DEF TransferInv
    <2>2. \A x \in refused : Dead(x.msg)'
        BY <1>0, <2>1, DeadStays
    <2>. QED BY <2>2 DEF MakesNoMessage
<1>7. \A t \in DOMAIN records' : t = client'.msg /\ Shaped(t) /\ Transfer!Payload(t) = t
                                 /\ \A q \in payment' : Transfer!PreviewFits(t, q)
    BY <1>0 DEF TransferInv, MakesNoMessage
<1>. QED BY <1>0, <1>1, <1>3, <1>4, <1>5, <1>6, <1>7 DEF TransferInv, MakesNoMessage

LEMMA FollowOf ==
    ASSUME TransferInv, challenges' \in {challenges, Transfer!Unexpired, {}}
                        \/ \E m : challenges' = Transfer!Taken(m)
    PROVE  ChallengesFollow
<1>1. \A c \in challenges : IsChallenge(c)
    BY DEF TransferInv
<1>2. ASSUME NEW c \in challenges, NEW d, d = [c EXCEPT !.used = TRUE]
      PROVE  IsChallenge(d) /\ d.msg = c.msg /\ d.exp = c.exp /\ d.used
    <2>1. d = [msg |-> c.msg, exp |-> c.exp, used |-> TRUE] /\ c.exp \in Nat
        <3>1. PICK x, y, z : c = [msg |-> x, exp |-> y, used |-> z]
            BY <1>1 DEF IsChallenge
        <3>2. d = [msg |-> x, exp |-> y, used |-> TRUE]
            BY <1>2, <3>1
        <3>. QED BY <1>1, <3>1, <3>2 DEF IsChallenge
    <2>. QED BY <2>1 DEF IsChallenge
<1>. QED BY <1>1, <1>2 DEF ChallengesFollow, Transfer!Unexpired, Transfer!Taken

\* The client gets a new message, or a challenge whose answer is lost.
LEMMA NewMessageStep ==
    ASSUME Transfer!TransferAssumption, OneForm, TransferInv, NEW q \in payment,
           Transfer!SignLegacy(q) \/ \E heard \in BOOLEAN : Transfer!Ask(q, heard)
    PROVE  TransferInv'
<1>. DEFINE at == issued + 1
<1>1. PICK m :
         /\ Shaped(m) /\ m.time.at = issued + 1
         /\ client' = [client EXCEPT !.msg = m] \/ client' = client
         /\ \/ challenges' = challenges
            \/ challenges' = Transfer!Unexpired \cup {[msg |-> m, exp |-> clock + Ttl, used |-> FALSE]}
    <2>1. issued + 1 \in Nat
        BY DEF TransferInv
    <2>2. ASSUME Transfer!SignLegacy(q) PROVE \E m :
             /\ Shaped(m) /\ m.time.at = issued + 1
             /\ client' = [client EXCEPT !.msg = m] /\ challenges' = challenges
        BY <2>1, <2>2, TextsShape DEF Transfer!SignLegacy
    <2>3. ASSUME NEW heard \in BOOLEAN, Transfer!Ask(q, heard) PROVE \E m :
             /\ Shaped(m) /\ m.time.at = issued + 1
             /\ client' = [client EXCEPT !.msg = m] \/ client' = client
             /\ challenges' = Transfer!Unexpired \cup {[msg |-> m, exp |-> clock + Ttl, used |-> FALSE]}
        <3>. DEFINE text == Transfer!Texts(q, 1, Transfer!NextNonce, [at |-> issued + 1, form |-> "Z"])
                    m == Transfer!Payload(text)
        <3>1. Shaped(text) /\ text.time.at = issued + 1
            BY <2>1, TextsShape
        <3>2. Shaped(m) /\ m.time.at = issued + 1
            BY <3>1, PayloadShape
        <3>. QED BY <2>3, <3>2 DEF Transfer!Ask, Transfer!Issued
    <2>. QED BY <2>2, <2>3
<1>2. /\ client = [msg |-> Transfer!None, paid |-> FALSE] /\ issued' = issued + 1
      /\ UNCHANGED <<payment, flight, records, others, refused, clock>>
    BY DEF Transfer!Ask, Transfer!SignLegacy
<1>3. client.msg = Transfer!None /\ DOMAIN records = {}
    BY <1>2, NoneIsNoMessage DEF TransferInv
<1>4. /\ client' = [msg |-> client'.msg, paid |-> client'.paid] /\ client'.msg \in {m, Transfer!None}
    <2>1. ASSUME NEW c, c = [client EXCEPT !.msg = m] PROVE c = [msg |-> m, paid |-> FALSE]
        BY <1>2, <2>1
    <2>. QED BY <1>1, <1>2, <2>1
<1>5. \A c \in challenges' : IsChallenge(c) /\ (c \in challenges \/ c.msg = m)
    <2>1. clock + Ttl \in Nat /\ \A c \in challenges : IsChallenge(c)
        BY DEF TransferInv, Transfer!TransferAssumption
    <2>2. ASSUME NEW c, c = [msg |-> m, exp |-> clock + Ttl, used |-> FALSE]
          PROVE  IsChallenge(c) /\ c.msg = m
        BY <2>1, <2>2 DEF IsChallenge
    <2>3. \A c \in challenges' : c \in challenges \/ c = [msg |-> m, exp |-> clock + Ttl, used |-> FALSE]
        BY <1>1 DEF Transfer!Unexpired
    <2>. QED BY <2>1, <2>2, <2>3
<1>6. \A k : IsMessage(k)' => IsMessage(k) \/ k = m
    BY <1>2, <1>3, <1>4, <1>5 DEF IsMessage
<1>7. \A k : IsMessage(k) => k # m /\ Shaped(k) /\ k.time.at <= issued /\ k.time.at \in Nat
    BY <1>1 DEF TransferInv, MessagesOK, Shaped
<1>8. MessagesOK'
    BY <1>1, <1>2, <1>6, <1>7 DEF TransferInv, MessagesOK
<1>9. ASSUME NEW k, IsMessage(k), Dead(k) PROVE Dead(k)'
    BY <1>2, <1>5, <1>7, <1>9 DEF Dead
<1>10. \A r \in flight : IsMessage(r.msg) /\ r.form \in payment /\ Dead(r.msg)'
    <2>1. SUFFICES ASSUME NEW r \in flight PROVE IsMessage(r.msg) /\ r.form \in payment /\ Dead(r.msg)'
        OBVIOUS
    <2>2. IsMessage(r.msg)
        BY DEF IsMessage
    <2>3. r.msg # Transfer!None
        BY <1>7, <2>2, NoneIsNoMessage
    <2>. QED BY <1>3, <1>9, <2>2, <2>3 DEF TransferInv
<1>11. \A x \in refused : IsMessage(x.msg) /\ Dead(x.msg)'
    BY <1>9 DEF TransferInv, IsMessage
<1>12. clock \in Nat /\ issued' \in Nat /\ \E f : payment = {f}
    BY <1>2 DEF TransferInv
<1>. QED BY <1>2, <1>3, <1>4, <1>5, <1>8, <1>10, <1>11, <1>12 DEF TransferInv

\* A submission is refused: the message is dead, and not in the store.
LEMMA RefuseStep ==
    ASSUME TransferInv, OneForm, NEW r \in flight, NEW heard \in BOOLEAN,
           \/ Transfer!SubmitMismatch(r, heard) \/ Transfer!SubmitUnverified(r, heard)
           \/ Transfer!SubmitRefused(r, heard)
    PROVE  TransferInv'
<1>0. /\ UNCHANGED <<payment, issued, records, others, clock>>
      /\ flight' = flight \ {r}
      /\ \A x \in refused' : x \in refused \/ x.msg = r.msg
      /\ client' = IF heard /\ client.msg = r.msg THEN [client EXCEPT !.msg = Transfer!None] ELSE client
    BY DEF Transfer!SubmitMismatch, Transfer!SubmitUnverified, Transfer!SubmitRefused, Transfer!Refuse
<1>1. /\ IsMessage(r.msg) /\ Shaped(r.msg) /\ r.form \in payment /\ payment = {r.form}
      /\ client = [msg |-> client.msg, paid |-> client.paid]
    BY DEF TransferInv, MessagesOK, IsMessage
<1>2. ChallengesFollow
    BY FollowOf DEF Transfer!SubmitMismatch, Transfer!SubmitUnverified, Transfer!SubmitRefused
<1>3. Transfer!TxId(r.msg) \notin DOMAIN records
    <2>1. CASE Transfer!SubmitMismatch(r, heard)
        <3>1. SUFFICES ASSUME NEW t \in DOMAIN records, t = Transfer!Payload(r.msg) PROVE FALSE
            BY DEF Transfer!TxId
        <3>2. t = client.msg /\ Shaped(t) /\ Transfer!PreviewFits(t, r.form)
            BY <1>1 DEF TransferInv
        <3>3. IsMessage(t) /\ t.time.at = r.msg.time.at
            BY <1>1, <3>1, <3>2, PayloadShape, NoneIsNoMessage DEF IsMessage
        <3>4. t = r.msg
            BY <1>1, <3>3 DEF TransferInv, MessagesOK
        <3>. QED BY <2>1, <3>2, <3>4 DEF Transfer!SubmitMismatch
    <2>2. CASE Transfer!SubmitUnverified(r, heard) \/ Transfer!SubmitRefused(r, heard)
        BY <2>2 DEF Transfer!SubmitUnverified, Transfer!SubmitRefused, Transfer!Verified,
                    Transfer!AlreadyRecorded
    <2>. QED BY <2>1, <2>2
<1>4. ASSUME NEW m, m = r.msg PROVE Dead(m)'
    <2>1. CASE Transfer!SubmitMismatch(r, heard)
        BY <1>0, <1>1, <1>4, <2>1 DEF Dead, Transfer!SubmitMismatch
    <2>2. CASE Transfer!SubmitUnverified(r, heard)
        <3>1. /\ challenges' = Transfer!Unexpired /\ ~Transfer!Verifies(r)
              /\ \A c \in challenges : c.exp \in Nat
            BY <2>2 DEF Transfer!SubmitUnverified, TransferInv, IsChallenge
        <3>. QED BY <1>0, <1>1, <1>4, <3>1 DEF Dead, Transfer!Verifies, Transfer!Unexpired
    <2>3. CASE Transfer!SubmitRefused(r, heard)
        <3>1. challenges' = Transfer!Taken(r.msg)
            BY <2>3 DEF Transfer!SubmitRefused
        <3>2. ASSUME NEW c \in challenges', c.msg = m PROVE c.used
            <4>1. PICK k \in challenges : c = IF k.msg = r.msg THEN [k EXCEPT !.used = TRUE] ELSE k
                BY <3>1 DEF Transfer!Taken, Transfer!Unexpired
            <4>2. k.msg = r.msg
                BY <1>4, <3>2, <4>1
            <4>3. PICK x, y, z : k = [msg |-> x, exp |-> y, used |-> z]
                BY DEF TransferInv, IsChallenge
            <4>4. c = [msg |-> x, exp |-> y, used |-> TRUE]
                BY <4>1, <4>2, <4>3
            <4>. QED BY <4>4
        <3>. QED BY <3>2 DEF Dead
    <2>. QED BY <2>1, <2>2, <2>3
<1>5. client' = [msg |-> client'.msg, paid |-> client'.paid]
    <2>1. CASE heard /\ client.msg = r.msg
        <3>1. client' = [msg |-> Transfer!None, paid |-> client.paid]
            BY <1>0, <1>1, <2>1
        <3>. QED BY <3>1
    <2>2. CASE ~(heard /\ client.msg = r.msg)
        BY <1>0, <1>1, <2>2
    <2>. QED BY <2>1, <2>2
<1>6. \/ client'.msg = client.msg
      \/ client'.msg = Transfer!None /\ DOMAIN records' = {} /\ \E m : m = client.msg /\ Dead(m)'
    <2>1. SUFFICES ASSUME heard, client.msg = r.msg
          PROVE client'.msg = Transfer!None /\ DOMAIN records = {} /\ \E m : m = client.msg /\ Dead(m)'
        BY <1>0
    <2>2. client' = [client EXCEPT !.msg = Transfer!None]
        BY <1>0, <2>1
    <2>3. client'.msg = Transfer!None
        BY <1>1, <2>2
    <2>4. DOMAIN records = {}
        <3>1. SUFFICES ASSUME NEW t \in DOMAIN records PROVE FALSE
            OBVIOUS
        <3>2. t = r.msg /\ Transfer!Payload(t) = t
            BY <2>1 DEF TransferInv
        <3>. QED BY <1>3, <3>2 DEF Transfer!TxId
    <2>. QED BY <1>4, <2>1, <2>3, <2>4
<1>7. \A x \in refused' : x \in refused \/ (IsMessage(x.msg) /\ Dead(x.msg)')
    BY <1>0, <1>1, <1>4
<1>8. \A x \in refused' : Transfer!TxId(x.msg) \notin DOMAIN records'
    BY <1>0, <1>3 DEF TransferInv
<1>9. records' = [t \in DOMAIN records' |-> records'[t]]
    BY <1>0 DEF TransferInv
<1>. QED BY <1>0, <1>2, <1>5, <1>6, <1>7, <1>8, <1>9, FollowStep DEF MakesNoMessage

\* A submission is confirmed, recorded now or before, or half fails.
LEMMA ConfirmStep ==
    ASSUME TransferInv, OneForm, NEW r \in flight, NEW heard \in BOOLEAN,
           \/ Transfer!SubmitAgain(r, heard)
           \/ \E st \in {"signed_pending", "mempool"} : Transfer!SubmitNew(r, st, heard)
           \/ Transfer!SubmitFails(r, heard)
    PROVE  TransferInv'
<1>0. /\ UNCHANGED <<payment, issued, others, refused, clock>>
      /\ flight' = flight \ {r}
      /\ \E b : client' = [client EXCEPT !.paid = @ \/ b]
      /\ client = [msg |-> client.msg, paid |-> client.paid]
    BY DEF Transfer!SubmitAgain, Transfer!SubmitNew, Transfer!SubmitFails, Transfer!Confirm, TransferInv
<1>1. ChallengesFollow
    BY FollowOf DEF Transfer!SubmitAgain, Transfer!SubmitNew, Transfer!SubmitFails
<1>2. client' = [msg |-> client'.msg, paid |-> client'.paid] /\ client'.msg = client.msg
    <2>1. PICK x, y : client = [msg |-> x, paid |-> y]
        BY <1>0
    <2>2. PICK b : client' = [client EXCEPT !.paid = @ \/ b]
        BY <1>0
    <2>3. client' = [msg |-> x, paid |-> y \/ b]
        BY <2>1, <2>2
    <2>. QED BY <2>1, <2>3
<1>3. \/ records' = records
      \/ /\ Transfer!Verified(r)
         /\ \E st : records' = Transfer!Recorded(r.msg, st)
    BY DEF Transfer!SubmitAgain, Transfer!SubmitNew, Transfer!SubmitFails
<1>4. CASE records' = records
    BY <1>0, <1>1, <1>2, <1>4, FollowStep DEF TransferInv, MakesNoMessage
<1>5. CASE Transfer!Verified(r) /\ \E st : records' = Transfer!Recorded(r.msg, st)
    <2>1. /\ r.msg = client.msg /\ ~Dead(r.msg) /\ Shaped(r.msg)
          /\ Transfer!Payload(r.msg) = r.msg /\ payment = {r.form} /\ Transfer!PreviewFits(r.msg, r.form)
        BY <1>5, VerifiedIsHeld DEF Transfer!Verified
    <2>2. /\ DOMAIN records' = DOMAIN records \cup {r.msg}
          /\ records' = [t \in DOMAIN records' |-> records'[t]]
        BY <1>5, <2>1 DEF Transfer!Recorded, Transfer!TxId
    <2>3. \A x \in refused : Transfer!TxId(x.msg) # r.msg
        <3>1. SUFFICES ASSUME NEW x \in refused, Transfer!Payload(x.msg) = r.msg PROVE FALSE
            BY DEF Transfer!TxId
        <3>2. IsMessage(x.msg) /\ IsMessage(r.msg)
            BY DEF IsMessage
        <3>3. Shaped(x.msg) /\ x.msg.time.at = r.msg.time.at
            BY <3>1, <3>2, PayloadShape DEF TransferInv, MessagesOK
        <3>4. x.msg = r.msg
            BY <3>2, <3>3 DEF TransferInv, MessagesOK
        <3>. QED BY <2>1, <3>4 DEF TransferInv
    <2>4. \A x \in refused' : Transfer!TxId(x.msg) \notin DOMAIN records'
        BY <1>0, <2>2, <2>3 DEF TransferInv
    <2>. QED BY <1>0, <1>1, <1>2, <2>1, <2>2, <2>4, FollowStep DEF MakesNoMessage
<1>. QED BY <1>3, <1>4, <1>5

\* The client sends; requests get lost; the rest of the node goes on.
LEMMA RestOfTransferStep ==
    ASSUME TransferInv, OneForm,
           \/ \E q \in payment \cup Edits : Transfer!Send(q)
           \/ \E r \in flight : Transfer!Lose(r)
           \/ Transfer!OtherTransfer
           \/ \E n \in others : Transfer!OtherRejected(n)
           \/ \E t \in DOMAIN records, st \in {"mempool", "settled", "rejected"} :
                 Transfer!Advance(t, st)
           \/ Transfer!Restart
           \/ Transfer!Tick
    PROVE  TransferInv'
<1>1. /\ UNCHANGED <<payment, issued, client, refused>> /\ clock' \in {clock, clock + 1}
      /\ challenges' \in {challenges, {}}
      /\ \A r \in flight' : r \in flight \/ (/\ r.form \in payment \cup Edits /\ r.msg = client.msg
                                             /\ client.msg # Transfer!None)
    <2>1. ASSUME NEW q \in payment \cup Edits, Transfer!Send(q)
          PROVE  /\ UNCHANGED <<payment, issued, client, refused, clock, challenges>>
                 /\ client.msg # Transfer!None
                 /\ \A r \in flight' : r \in flight \/ (r.form = q /\ r.msg = client.msg)
        BY <2>1 DEF Transfer!Send
    <2>2. ASSUME NEW r \in flight, Transfer!Lose(r)
          PROVE  /\ UNCHANGED <<payment, issued, client, refused, clock, challenges>>
                 /\ flight' \subseteq flight
        BY <2>2 DEF Transfer!Lose
    <2>. QED BY <2>1, <2>2 DEF Transfer!OtherTransfer, Transfer!OtherRejected, Transfer!Advance,
                               Transfer!Restart, Transfer!Tick
<1>2. DOMAIN records' = DOMAIN records /\ records' = [t \in DOMAIN records' |-> records'[t]]
    BY DEF TransferInv, Transfer!Send, Transfer!Lose, Transfer!OtherTransfer, Transfer!OtherRejected,
           Transfer!Advance, Transfer!Restart, Transfer!Tick
<1>3. ChallengesFollow
    BY <1>1, FollowOf
<1>4. \A r \in flight' : r \in flight \/ (r.form \in payment /\ r.msg = client.msg /\ IsMessage(r.msg))
    BY <1>1 DEF OneForm, IsMessage
<1>. QED BY <1>1, <1>2, <1>3, <1>4, FollowStep DEF TransferInv, MakesNoMessage

LEMMA TransferInvNext ==
    ASSUME Transfer!TransferAssumption, OneForm, TransferInv, [Transfer!Next]_(Transfer!vars)
    PROVE  TransferInv'
<1>1. CASE UNCHANGED Transfer!vars
    <2>1. UNCHANGED <<payment, client, challenges, issued, flight, records, others, refused, clock>>
        BY <1>1 DEF Transfer!vars
    <2>2. ChallengesFollow
        BY <2>1, FollowOf
    <2>. QED BY <2>1, <2>2, FollowStep DEF TransferInv, MakesNoMessage
<1>2. ASSUME NEW r \in flight, NEW heard \in BOOLEAN,
             \/ Transfer!SubmitMismatch(r, heard) \/ Transfer!SubmitAgain(r, heard)
             \/ Transfer!SubmitUnverified(r, heard) \/ Transfer!SubmitRefused(r, heard)
             \/ \E st \in {"signed_pending", "mempool"} : Transfer!SubmitNew(r, st, heard)
             \/ Transfer!SubmitFails(r, heard)
      PROVE  TransferInv'
    BY <1>2, RefuseStep, ConfirmStep
<1>. QED BY <1>1, <1>2, NewMessageStep, RestOfTransferStep DEF Transfer!Next

LEMMA TransferInvariance ==
    ASSUME Transfer!TransferAssumption, OneForm PROVE Transfer!Spec => []TransferInv
BY TransferInvInit, TransferInvNext, PTL DEF Transfer!Spec

\* A client that repeats the same submission until it hears a definite answer pays
\* once, whatever is lost, late, repeated, restarted or half failed
\* (submit_signed_transfer_operation).
THEOREM PaymentsAreMadeOnce ==
    ASSUME Transfer!TransferAssumption, OneForm PROVE Transfer!Spec => []PaidOnce
<1>1. TransferInv => PaidOnce
    <2>1. TransferInv => DOMAIN records \subseteq {client.msg}
        BY DEF TransferInv
    <2>2. IsFiniteSet({client.msg}) /\ Cardinality({client.msg}) = 1
        BY FS_Singleton
    <2>3. ASSUME DOMAIN records \subseteq {client.msg} PROVE Cardinality(DOMAIN records) <= 1
        BY <2>2, <2>3, FS_Subset, FS_CardinalityType
    <2>. QED BY <2>1, <2>3 DEF PaidOnce
<1>. QED BY <1>1, TransferInvariance, PTL

\* A refused message is not in the store and never gets there, not even by a copy
\* that arrives after the cause of the refusal is gone (verify_transfer_signature
\* takes the challenge first).
THEOREM RefusalsAreFinal ==
    ASSUME Transfer!TransferAssumption, OneForm PROVE Transfer!Spec => []Transfer!RefusedIsUnrecorded
<1>1. TransferInv => Transfer!RefusedIsUnrecorded
    BY DEF TransferInv, Transfer!RefusedIsUnrecorded
<1>. QED BY <1>1, TransferInvariance, PTL

-----------------------------------------------------------------------------
(* Rewards of creators and voters                                          *)

\* The records a plan may hold; how much a voter gets depends on how many they are.
Amounts == {Rewards!PerWallet(Rewards!Cardinality(W)) : W \in SUBSET Wallets}
Paid == [sub : Rewards!Sub, wallet : Wallets, side : Rewards!Side, amount : Amounts]
Minted == [sub : Rewards!Sub, tips : Nat, rewards : SUBSET Paid]
Choices == Rewards!Side \cup {"unsure", "none"}

RewardTypes ==
    /\ votes \in [Rewards!Sub -> [Wallets -> Choices]]
    /\ status \in [Rewards!Sub -> {"review", "approved", "rejected", "minted"}]
    /\ pending \in Nat
    /\ ledger \in Seq(Minted)

\* A submission has one block, which ends its review.
MintedOnce ==
    /\ \A i \in DOMAIN ledger : status[ledger[i].sub] = "minted"
    /\ \A i, j \in DOMAIN ledger : ledger[i].sub = ledger[j].sub => i = j

\* Who was paid voted so, and the submission was decided for that side for good.
PaidForTheDecision(r) ==
    /\ r.wallet # Creator[r.sub]
    /\ votes[r.sub][r.wallet] = r.side
    /\ r.side = "original" => status[r.sub] \in {"approved", "minted"}
    /\ r.side = "not_original" => status[r.sub] = "rejected"

RewardInv ==
    /\ RewardTypes
    /\ MintedOnce
    /\ \A i \in DOMAIN ledger : \A r \in ledger[i].rewards : PaidForTheDecision(r)
    /\ Rewards!PaidOnce

LEMMA RewardInvInit == ASSUME Rewards!RewardAssumption, Rewards!Init PROVE RewardInv
BY DEF Rewards!Init, RewardInv, RewardTypes, MintedOnce, Rewards!PaidOnce, Choices

\* Two records of one plan for one wallet are one record, and a plan pays the
\* voters of the side that was decided for.
LEMMA PlansAreSingle ==
    ASSUME RewardTypes, NEW n \in Nodes, NEW s \in Rewards!Sub,
           NEW r \in Rewards!build_submission_voter_reward_plan(n, s)
    PROVE  /\ r \in Paid /\ r.sub = s /\ PaidForTheDecision(r)
           /\ \A q \in Rewards!build_submission_voter_reward_plan(n, s) :
                 q.wallet = r.wallet => q = r
<1>. DEFINE ws == Rewards!eligible_voter_reward_wallets(n, s)
            side == Rewards!get_submission_reward_decision(s)
            share == Rewards!PerWallet(Rewards!Cardinality(ws))
<1>1. ws \subseteq Wallets /\ \A w \in ws : votes[s][w] = side /\ w # Creator[s]
    BY DEF Rewards!eligible_voter_reward_wallets, Rewards!Casting
<1>2. share \in Amounts
    BY <1>1 DEF Amounts
<1>. HIDE DEF ws, share
<1>3. /\ side # "none"
      /\ Rewards!build_submission_voter_reward_plan(n, s)
            = {[sub |-> s, wallet |-> w, side |-> side, amount |-> share] : w \in ws}
    <2>1. Rewards!build_submission_voter_reward_plan(n, s) =
             IF side = "none" \/ ws = {} \/ share = 0 THEN {}
             ELSE {[sub |-> s, wallet |-> w, side |-> side, amount |-> share] : w \in ws}
        BY DEF Rewards!build_submission_voter_reward_plan, ws, share
    <2>. QED BY <2>1
<1>4. /\ side \in Rewards!Side
      /\ side = "original" => status[s] \in {"approved", "minted"}
      /\ side = "not_original" => status[s] = "rejected"
    BY <1>3 DEF Rewards!get_submission_reward_decision, Rewards!Side, RewardTypes
<1>. HIDE DEF side
<1>. QED BY <1>1, <1>2, <1>3, <1>4 DEF Paid, PaidForTheDecision

\* A new block keeps what the ledger promises: validation lets only new rewards of
\* the node's own plan through, and one block for a submission.
LEMMA AcceptStep ==
    ASSUME Rewards!RewardAssumption, RewardInv, NEW n \in Nodes, NEW s \in Rewards!Sub,
           Rewards!accept_block_candidate(n, s)
    PROVE  RewardInv'
<1>. DEFINE b == Rewards!build_candidate(n, s).block
            k == Len(ledger) + 1
<1>1. /\ ledger' = Append(ledger, b) /\ b.sub = s /\ b.tips = pending
      /\ Rewards!validate_block(n, b, ledger)
      /\ status[s] = "approved" /\ status' = [status EXCEPT ![s] = "minted"]
      /\ pending' = 0 /\ votes' = votes
      /\ b = [sub |-> s, tips |-> pending, rewards |-> b.rewards]
    BY DEF Rewards!accept_block_candidate, Rewards!build_candidate
<1>. HIDE DEF b
<1>2. \A r \in b.rewards : /\ r.sub \in Rewards!Sub
                           /\ r \in Rewards!build_submission_voter_reward_plan(n, r.sub)
                           /\ Rewards!reward_id(r) \notin Rewards!settled_voter_reward_ids(ledger)
    BY <1>1 DEF Rewards!validate_block, Rewards!validate_voter_rewards
<1>3. ASSUME NEW r \in b.rewards
      PROVE  /\ r \in Paid /\ PaidForTheDecision(r)
             /\ \A q \in b.rewards : Rewards!reward_id(q) = Rewards!reward_id(r) => q = r
    BY <1>2, PlansAreSingle DEF RewardInv, Rewards!reward_id
<1>4. /\ b \in Minted /\ ledger \in Seq(Minted) /\ Len(ledger) \in Nat /\ DOMAIN ledger = 1 .. Len(ledger)
      /\ DOMAIN ledger' = 1 .. k /\ ledger'[k] = b /\ ledger' \in Seq(Minted)
      /\ \A i \in DOMAIN ledger : ledger'[i] = ledger[i]
    <2>1. b \in Minted
        <3>1. b.rewards \in SUBSET Paid
            BY <1>3
        <3>. QED BY <1>1, <3>1 DEF Minted, RewardInv, RewardTypes
    <2>2. ledger \in Seq(Minted)
        BY DEF RewardInv, RewardTypes
    <2>. HIDE DEF Minted
    <2>. QED BY <1>1, <2>1, <2>2
<1>5. status' \in [Rewards!Sub -> {"review", "approved", "rejected", "minted"}]
      /\ status'[s] = "minted" /\ \A t \in Rewards!Sub : t # s => status'[t] = status[t]
    BY <1>1 DEF RewardInv, RewardTypes
<1>6. \A i \in DOMAIN ledger : ledger[i].sub \in Rewards!Sub /\ ledger[i].sub # s /\ ledger[i].rewards \subseteq Paid
    <2>1. \A i \in DOMAIN ledger : ledger[i] \in Minted /\ status[ledger[i].sub] = "minted"
        BY <1>4 DEF RewardInv, MintedOnce
    <2>. QED BY <1>1, <2>1 DEF Minted
<1>7. MintedOnce'
    BY <1>1, <1>4, <1>5, <1>6 DEF RewardInv, MintedOnce
<1>8. \A i \in DOMAIN ledger' : \A r \in ledger'[i].rewards : PaidForTheDecision(r)'
    <2>1. ASSUME NEW r \in Paid, PaidForTheDecision(r) PROVE PaidForTheDecision(r)'
        BY <1>1, <1>5, <2>1 DEF PaidForTheDecision, Paid, Rewards!Side
    <2>2. \A i \in DOMAIN ledger : \A r \in ledger[i].rewards : r \in Paid /\ PaidForTheDecision(r)
        BY <1>6 DEF RewardInv
    <2>. HIDE DEF PaidForTheDecision
    <2>3. ASSUME NEW i \in DOMAIN ledger', NEW r \in ledger'[i].rewards PROVE PaidForTheDecision(r)'
        <3>1. CASE i = k
            BY <1>3, <1>4, <2>1, <3>1
        <3>2. CASE i \in DOMAIN ledger
            BY <1>4, <2>1, <2>2, <3>2
        <3>. QED BY <1>4, <3>1, <3>2
    <2>. QED BY <2>3
<1>9. Rewards!PaidOnce'
    <2>1. ASSUME NEW i \in DOMAIN ledger, NEW r \in ledger[i].rewards, NEW q \in b.rewards
          PROVE  Rewards!reward_id(r) # Rewards!reward_id(q)
        BY <1>2 DEF Rewards!settled_voter_reward_ids
    <2>2. SUFFICES ASSUME NEW i \in DOMAIN ledger', NEW j \in DOMAIN ledger',
                          NEW r \in ledger'[i].rewards, NEW q \in ledger'[j].rewards,
                          Rewards!reward_id(r) = Rewards!reward_id(q)
          PROVE  i = j /\ r = q
        BY DEF Rewards!PaidOnce, Rewards!reward_id
    <2>. HIDE DEF Rewards!reward_id
    <2>3. CASE i = k /\ j = k
        BY <1>3, <1>4, <2>2, <2>3
    <2>4. CASE i \in DOMAIN ledger /\ j \in DOMAIN ledger
        BY <1>4, <2>2, <2>4 DEF RewardInv, Rewards!PaidOnce
    <2>. QED BY <1>4, <2>1, <2>2, <2>3, <2>4
<1>10. RewardTypes'
    BY <1>1, <1>4, <1>5 DEF RewardInv, RewardTypes
<1>. QED BY <1>7, <1>8, <1>9, <1>10 DEF RewardInv

LEMMA RewardInvNext ==
    ASSUME Rewards!RewardAssumption, RewardInv, [Rewards!Next]_(Rewards!vars)
    PROVE  RewardInv'
<1>1. ASSUME UNCHANGED ledger, RewardTypes',
             \A s \in Rewards!Sub : /\ status[s] = "review" \/ status'[s] = status[s]
                                   /\ \A w \in Wallets : votes[s][w] = "none" \/ votes'[s][w] = votes[s][w]
      PROVE  RewardInv'
    <2>1. \A i \in DOMAIN ledger : ledger[i] \in Minted
        BY <1>1 DEF RewardInv, RewardTypes
    <2>2. ASSUME NEW i \in DOMAIN ledger, NEW r \in ledger[i].rewards PROVE PaidForTheDecision(r)'
        <3>1. r \in Paid /\ PaidForTheDecision(r)
            BY <2>1 DEF RewardInv, Minted
        <3>. QED BY <1>1, <3>1 DEF PaidForTheDecision, Paid, Rewards!Side
    <2>3. MintedOnce'
        BY <1>1, <2>1 DEF RewardInv, MintedOnce, Minted
    <2>4. Rewards!PaidOnce'
        BY <1>1 DEF RewardInv, Rewards!PaidOnce, Rewards!reward_id
    <2>. QED BY <1>1, <2>2, <2>3, <2>4 DEF RewardInv
<1>2. ASSUME NEW w \in Wallets, NEW s \in Rewards!Sub, NEW c \in Rewards!Side \cup {"unsure"},
             Rewards!cast_submission_vote(w, s, c)
      PROVE  RewardInv'
    <2>1. /\ votes[s][w] = "none" /\ votes' = [votes EXCEPT ![s][w] = c]
          /\ UNCHANGED <<status, pending, ledger>>
        BY <1>2 DEF Rewards!cast_submission_vote, Rewards!Chain
    <2>2. votes' \in [Rewards!Sub -> [Wallets -> Choices]]
        BY <2>1 DEF RewardInv, RewardTypes, Choices
    <2>3. \A t \in Rewards!Sub, u \in Wallets : votes[t][u] = "none" \/ votes'[t][u] = votes[t][u]
        BY <2>1 DEF RewardInv, RewardTypes
    <2>. QED BY <1>1, <2>1, <2>2, <2>3 DEF RewardInv, RewardTypes
<1>3. ASSUME NEW s \in Rewards!Sub, Rewards!evaluate_submission(s) PROVE RewardInv'
    <2>1. PICK end \in {"approved", "rejected"} :
             status[s] = "review" /\ status' = [status EXCEPT ![s] = end]
             /\ UNCHANGED <<votes, pending, ledger>>
        BY <1>3 DEF Rewards!evaluate_submission, Rewards!Chain
    <2>. QED BY <1>1, <2>1 DEF RewardInv, RewardTypes
<1>4. CASE UNCHANGED <<votes, status, ledger>> /\ pending' \in {pending, pending + 1}
    BY <1>1, <1>4 DEF RewardInv, RewardTypes
<1>5. ASSUME NEW n \in Nodes,
             Rewards!_validate_block_extends_chain(n) \/ Rewards!load_blockchain(n)
             \/ (\E w \in Wallets : Rewards!set_account_status(n, w))
      PROVE  RewardInv'
    BY <1>4, <1>5 DEF Rewards!_validate_block_extends_chain, Rewards!load_blockchain,
       Rewards!set_account_status, Rewards!Chain
<1>6. CASE Rewards!current_day_window \/ Rewards!add_transaction \/ UNCHANGED Rewards!vars
    BY <1>4, <1>6 DEF Rewards!current_day_window, Rewards!add_transaction, Rewards!Chain, Rewards!vars
<1>. QED BY <1>2, <1>3, <1>5, <1>6, AcceptStep DEF Rewards!Next

LEMMA RewardInvariance == ASSUME Rewards!RewardAssumption PROVE Rewards!Spec => []RewardInv
BY RewardInvInit, RewardInvNext, PTL DEF Rewards!Spec

\* No voter reward is paid twice, in one block or in two, whoever mines it and
\* however the voters' standing changed between the plans (validate_voter_rewards).
THEOREM RewardsArePaidOnce == ASSUME Rewards!RewardAssumption PROVE Rewards!Spec => []Rewards!PaidOnce
<1>1. RewardInv => Rewards!PaidOnce
    BY DEF RewardInv
<1>. QED BY <1>1, RewardInvariance, PTL

\* Whoever was paid as a voter voted for the side the submission was decided for,
\* and is not its creator; no later decision takes the ground of a payment away
\* (eligible_voter_reward_wallets, get_submission_reward_decision).
THEOREM TheMajorityIsPaid ==
    ASSUME Rewards!RewardAssumption PROVE Rewards!Spec => []Rewards!OnlyTheMajorityIsPaid
<1>1. RewardInv => Rewards!OnlyTheMajorityIsPaid
    BY DEF RewardInv, PaidForTheDecision, Rewards!OnlyTheMajorityIsPaid
<1>. QED BY <1>1, RewardInvariance, PTL

\* A submission is minted in one block at most, and one that is in a block never
\* leaves the status minted (validate_block, accept_block_candidate).
THEOREM SubmissionsAreMintedOnce == ASSUME Rewards!RewardAssumption PROVE Rewards!Spec => []MintedOnce
<1>1. RewardInv => MintedOnce
    BY DEF RewardInv
<1>. QED BY <1>1, RewardInvariance, PTL

\* Blocks that pay what the plans say, each reward once, for a submission once.
PaysFrom(plans, b, prior) ==
    /\ \A r \in b.rewards :
        r.sub \in Rewards!Sub /\ r \in plans[r.sub]
        /\ Rewards!reward_id(r) \notin Rewards!settled_voter_reward_ids(prior)
    /\ \A i \in DOMAIN prior : prior[i].sub # b.sub
ChainPays(plans, chain) == \A i \in DOMAIN chain : PaysFrom(plans, chain[i], SubSeq(chain, 1, i - 1))
Plans(n) == [s \in Rewards!Sub |-> Rewards!build_submission_voter_reward_plan(n, s)]

\* No access changes and no day has a limit of votes: every node finds every voter
\* eligible, and the whole chain is one that any of them would accept again.
SettledAccess == DAILY_VOTES = 0 /\ MaxChanges = 0
AgreedInv ==
    /\ RewardInv
    /\ suspended = [n \in Nodes |-> {}] /\ changes = 0 /\ refused = {}
    /\ height \in [Nodes -> 0 .. Len(ledger)]
    /\ \A n \in Nodes : ChainPays(Plans(n), ledger)

LEMMA ValidatingIsPaying ==
    ASSUME NEW n
    PROVE  /\ \A b, prior : Rewards!validate_block(n, b, prior) <=> PaysFrom(Plans(n), b, prior)
           /\ \A chain : Rewards!validate_chain(n, chain) <=> ChainPays(Plans(n), chain)
<1>1. \A b, prior : Rewards!validate_block(n, b, prior) <=> PaysFrom(Plans(n), b, prior)
    BY DEF Rewards!validate_block, Rewards!validate_voter_rewards, PaysFrom, Plans
<1>. QED BY <1>1 DEF Rewards!validate_chain, ChainPays

LEMMA SameBeginning ==
    ASSUME NEW S, NEW s \in Seq(S), NEW b \in S, NEW k \in 0 .. Len(s)
    PROVE  /\ SubSeq(s, 1, k) \in Seq(S) /\ Len(SubSeq(s, 1, k)) = k
           /\ \A m \in 0 .. k : SubSeq(SubSeq(s, 1, k), 1, m) = SubSeq(s, 1, m)
           /\ \A i \in 1 .. k : SubSeq(s, 1, k)[i] = s[i]
           /\ SubSeq(Append(s, b), 1, k) = SubSeq(s, 1, k)
           /\ SubSeq(s, 1, Len(s)) = s
<1>1. Len(s) \in Nat /\ DOMAIN s = 1 .. Len(s) /\ \A i \in 1 .. Len(s) : s[i] \in S
    OBVIOUS
<1>2. SubSeq(s, 1, k) \in Seq(S) /\ Len(SubSeq(s, 1, k)) = k /\ \A i \in 1 .. k : SubSeq(s, 1, k)[i] = s[i]
    BY <1>1
<1>3. ASSUME NEW m \in 0 .. k PROVE SubSeq(SubSeq(s, 1, k), 1, m) = SubSeq(s, 1, m)
    BY <1>1, <1>2
<1>4. SubSeq(Append(s, b), 1, k) = SubSeq(s, 1, k)
    <2>1. /\ Append(s, b) \in Seq(S) /\ Len(Append(s, b)) = Len(s) + 1
          /\ \A i \in 1 .. Len(s) : Append(s, b)[i] = s[i]
        OBVIOUS
    <2>. QED BY <1>1, <1>2, <2>1
<1>. QED BY <1>1, <1>2, <1>3, <1>4

LEMMA PrefixPays ==
    ASSUME NEW chain \in Seq(Minted), NEW plans, ChainPays(plans, chain), NEW k \in 0 .. Len(chain)
    PROVE  ChainPays(plans, SubSeq(chain, 1, k))
<1>. DEFINE p == SubSeq(chain, 1, k)
<1>1. CASE k = 0
    BY <1>1 DEF ChainPays
<1>2. CASE k > 0
    <2>1. 1 \in DOMAIN chain /\ chain[1] \in Minted
        BY <1>2
    <2>. HIDE DEF Minted
    <2>2. /\ p \in Seq(Minted) /\ Len(p) = k
          /\ \A m \in 0 .. k : SubSeq(p, 1, m) = SubSeq(chain, 1, m)
          /\ \A i \in 1 .. k : p[i] = chain[i]
        BY <2>1, SameBeginning
    <2>. HIDE DEF p
    <2>3. DOMAIN p = 1 .. k /\ 1 .. k \subseteq DOMAIN chain
        BY <2>2
    <2>4. ASSUME NEW i \in 1 .. k PROVE PaysFrom(plans, p[i], SubSeq(p, 1, i - 1))
        <3>1. i - 1 \in 0 .. k
            OBVIOUS
        <3>2. p[i] = chain[i] /\ SubSeq(p, 1, i - 1) = SubSeq(chain, 1, i - 1)
            BY <2>2, <3>1
        <3>. QED BY <2>3, <3>2 DEF ChainPays
    <2>5. ChainPays(plans, p)
        BY <2>3, <2>4 DEF ChainPays
    <2>. QED BY <2>5 DEF p
<1>. QED BY <1>1, <1>2

LEMMA AppendedPays ==
    ASSUME NEW chain \in Seq(Minted), NEW b \in Minted, NEW plans, NEW more, ChainPays(plans, chain),
           PaysFrom(plans, b, chain), \A s \in Rewards!Sub : plans[s] \subseteq more[s]
    PROVE  ChainPays(more, Append(chain, b))
<1>. DEFINE new == Append(chain, b)
<1>1. Len(chain) \in Nat /\ DOMAIN chain = 1 .. Len(chain)
    OBVIOUS
<1>. HIDE DEF Minted
<1>2. /\ DOMAIN new = 1 .. Len(chain) + 1 /\ new[Len(chain) + 1] = b
      /\ \A i \in 1 .. Len(chain) : new[i] = chain[i]
    OBVIOUS
<1>3. \A k \in 0 .. Len(chain) : SubSeq(new, 1, k) = SubSeq(chain, 1, k)
    BY SameBeginning
<1>4. SubSeq(chain, 1, Len(chain)) = chain
    BY <1>1, SameBeginning
<1>. HIDE DEF new
<1>5. \A c, prior : PaysFrom(plans, c, prior) => PaysFrom(more, c, prior)
    BY DEF PaysFrom
<1>6. ASSUME NEW i \in DOMAIN new PROVE PaysFrom(more, new[i], SubSeq(new, 1, i - 1))
    <2>1. i \in 1 .. Len(chain) + 1 /\ i - 1 \in 0 .. Len(chain)
        BY <1>1, <1>2
    <2>2. SubSeq(new, 1, i - 1) = SubSeq(chain, 1, i - 1)
        BY <1>3, <2>1
    <2>3. CASE i = Len(chain) + 1
        <3>1. i - 1 = Len(chain)
            BY <1>1, <2>3
        <3>. QED BY <1>2, <1>4, <1>5, <2>2, <2>3, <3>1
    <2>4. CASE i \in 1 .. Len(chain)
        BY <1>1, <1>2, <1>5, <2>2, <2>4 DEF ChainPays
    <2>. QED BY <1>1, <2>1, <2>3, <2>4
<1>. QED BY <1>6 DEF ChainPays, new

\* Nodes that know the same votes and exclude nobody make the same plan.
LEMMA EverybodyIsEligible ==
    ASSUME SettledAccess, AgreedInv, NEW n \in Nodes, NEW w \in Wallets PROVE Rewards!Eligible(n, w)
BY DEF SettledAccess, AgreedInv, Rewards!Eligible

LEMMA SamePlans ==
    ASSUME SettledAccess, AgreedInv, NEW n \in Nodes, NEW m \in Nodes PROVE Plans(n) = Plans(m)
<1>1. \A s : Rewards!eligible_voter_reward_wallets(n, s) = Rewards!eligible_voter_reward_wallets(m, s)
    <2>1. \A s, c : Rewards!Casting(s, c) \subseteq Wallets
        BY DEF Rewards!Casting
    <2>. QED BY <2>1, EverybodyIsEligible DEF Rewards!eligible_voter_reward_wallets
<1>. QED BY <1>1 DEF Plans, Rewards!build_submission_voter_reward_plan

\* What a decision pays stays: its votes are closed, and minting does not change it.
LEMMA PlansStay ==
    ASSUME SettledAccess, AgreedInv, NEW n \in Nodes, NEW s \in Rewards!Sub, UNCHANGED suspended,
           status[s] # "review" => /\ votes'[s] = votes[s]
                                   /\ \/ status'[s] = status[s]
                                      \/ status[s] = "approved" /\ status'[s] = "minted"
    PROVE  Rewards!build_submission_voter_reward_plan(n, s)
              \subseteq Rewards!build_submission_voter_reward_plan(n, s)'
<1>1. CASE Rewards!get_submission_reward_decision(s) = "none"
    BY <1>1 DEF Rewards!build_submission_voter_reward_plan
<1>2. CASE Rewards!get_submission_reward_decision(s) # "none"
    <2>1. status[s] # "review"
        BY <1>2 DEF Rewards!get_submission_reward_decision
    <2>2. \A c : Rewards!Casting(s, c)' = Rewards!Casting(s, c)
        BY <2>1 DEF Rewards!Casting
    <2>3. (Rewards!get_submission_reward_decision(s))' = Rewards!get_submission_reward_decision(s)
        BY <2>1, <2>2 DEF Rewards!get_submission_reward_decision
    <2>4. \A w \in Wallets : Rewards!Eligible(n, w) /\ Rewards!Eligible(n, w)'
        BY EverybodyIsEligible DEF SettledAccess, AgreedInv, Rewards!Eligible
    <2>5. Rewards!eligible_voter_reward_wallets(n, s)' = Rewards!eligible_voter_reward_wallets(n, s)
        <3>1. \A c : Rewards!Casting(s, c) \subseteq Wallets
            BY DEF Rewards!Casting
        <3>. QED BY <2>2, <2>3, <2>4, <3>1 DEF Rewards!eligible_voter_reward_wallets
    <2>. QED BY <2>3, <2>5 DEF Rewards!build_submission_voter_reward_plan
<1>. QED BY <1>1, <1>2

\* Everything but a new block keeps the ledger and what it was paid for.
LEMMA AgreedStays ==
    ASSUME SettledAccess, AgreedInv, RewardInv', UNCHANGED <<suspended, changes, ledger, refused>>,
           height' \in [Nodes -> 0 .. Len(ledger)],
           \A s \in Rewards!Sub : status[s] # "review" => votes'[s] = votes[s] /\ status'[s] = status[s]
    PROVE  AgreedInv'
<1>1. ASSUME NEW n \in Nodes PROVE ChainPays(Plans(n)', ledger')
    <2>1. \A s \in Rewards!Sub : Plans(n)[s] \subseteq Plans(n)'[s]
        BY PlansStay DEF Plans
    <2>2. ChainPays(Plans(n), ledger)
        BY DEF AgreedInv
    <2>. QED BY <2>1, <2>2 DEF ChainPays, PaysFrom
<1>2. \A n \in Nodes : ChainPays(Plans(n), ledger)'
    BY <1>1
<1>. QED BY <1>2 DEF AgreedInv

LEMMA AgreedAccepts ==
    ASSUME SettledAccess, AgreedInv, RewardInv', NEW n \in Nodes, NEW s \in Rewards!Sub,
           Rewards!accept_block_candidate(n, s)
    PROVE  AgreedInv'
<1>. DEFINE b == Rewards!build_candidate(n, s).block
<1>1. /\ height[n] = Len(ledger) /\ status[s] = "approved" /\ Rewards!validate_block(n, b, ledger)
      /\ ledger' = Append(ledger, b) /\ height' = [height EXCEPT ![n] = @ + 1]
      /\ status' = [status EXCEPT ![s] = "minted"] /\ UNCHANGED <<votes, suspended, refused, changes>>
    BY DEF Rewards!accept_block_candidate
<1>. HIDE DEF b
<1>2. ledger \in Seq(Minted) /\ ledger' \in Seq(Minted) /\ Len(ledger) \in Nat
    BY DEF AgreedInv, RewardInv, RewardTypes
<1>3. b \in Minted /\ Len(ledger') = Len(ledger) + 1
    <2>. HIDE DEF Minted
    <2>1. Len(ledger') = Len(ledger) + 1 /\ ledger'[Len(ledger) + 1] = b
        BY <1>1, <1>2
    <2>. QED BY <1>2, <2>1
<1>4. ASSUME NEW m \in Nodes PROVE ChainPays(Plans(m)', ledger')
    <2>1. PaysFrom(Plans(m), b, ledger)
        BY <1>1, ValidatingIsPaying, SamePlans
    <2>2. \A t \in Rewards!Sub : /\ votes'[t] = votes[t]
                                 /\ \/ status'[t] = status[t]
                                    \/ status[t] = "approved" /\ status'[t] = "minted"
        BY <1>1 DEF AgreedInv, RewardInv, RewardTypes
    <2>3. \A t \in Rewards!Sub : Plans(m)[t] \subseteq Plans(m)'[t]
        BY <1>1, <2>2, PlansStay DEF Plans
    <2>4. ChainPays(Plans(m), ledger)
        BY DEF AgreedInv
    <2>5. ASSUME NEW plans, NEW more, ChainPays(plans, ledger), PaysFrom(plans, b, ledger),
                 \A t \in Rewards!Sub : plans[t] \subseteq more[t]
          PROVE  ChainPays(more, Append(ledger, b))
        BY <1>2, <1>3, <2>5, AppendedPays
    <2>. QED BY <1>1, <2>1, <2>3, <2>4, <2>5
<1>5. height' \in [Nodes -> 0 .. Len(ledger')]
    BY <1>1, <1>2, <1>3 DEF AgreedInv
<1>6. \A m \in Nodes : ChainPays(Plans(m), ledger)'
    BY <1>4
<1>. QED BY <1>1, <1>5, <1>6 DEF AgreedInv

LEMMA AgreedInvNext ==
    ASSUME Rewards!RewardAssumption, SettledAccess, AgreedInv, [Rewards!Next]_(Rewards!vars)
    PROVE  AgreedInv'
<1>. SUFFICES ASSUME RewardInv' PROVE AgreedInv'
    BY RewardInvNext DEF AgreedInv
<1>1. \A n \in Nodes, k \in 0 .. Len(ledger) : Rewards!validate_chain(n, SubSeq(ledger, 1, k))
    <2>1. ledger \in Seq(Minted) /\ \A n \in Nodes : ChainPays(Plans(n), ledger)
        BY DEF AgreedInv, RewardInv, RewardTypes
    <2>. QED BY <2>1, PrefixPays, ValidatingIsPaying
<1>2. Len(ledger) \in Nat /\ height \in [Nodes -> 0 .. Len(ledger)] /\ changes = 0
    BY DEF AgreedInv, RewardInv, RewardTypes
<1>3. ASSUME NEW w \in Wallets, NEW s \in Rewards!Sub, NEW c, Rewards!cast_submission_vote(w, s, c)
      PROVE  AgreedInv'
    <2>1. /\ status[s] = "review" /\ votes' = [votes EXCEPT ![s][w] = c]
          /\ UNCHANGED <<status, suspended, changes, ledger, refused, height>>
        BY <1>3 DEF Rewards!cast_submission_vote, Rewards!Chain
    <2>2. \A t \in Rewards!Sub : status[t] # "review" => votes'[t] = votes[t]
        BY <2>1 DEF AgreedInv, RewardInv, RewardTypes
    <2>. QED BY <1>2, <2>1, <2>2, AgreedStays
<1>4. ASSUME NEW s \in Rewards!Sub, Rewards!evaluate_submission(s) PROVE AgreedInv'
    <2>1. /\ status[s] = "review" /\ \E end : status' = [status EXCEPT ![s] = end]
          /\ UNCHANGED <<votes, suspended, changes, ledger, refused, height>>
        BY <1>4 DEF Rewards!evaluate_submission, Rewards!Chain
    <2>2. \A t \in Rewards!Sub : status[t] # "review" => status'[t] = status[t]
        BY <2>1
    <2>. QED BY <1>2, <2>1, <2>2, AgreedStays
<1>5. ASSUME NEW n \in Nodes, Rewards!_validate_block_extends_chain(n) PROVE AgreedInv'
    <2>1. height[n] < Len(ledger)
        BY <1>5 DEF Rewards!_validate_block_extends_chain
    <2>2. height[n] + 1 \in 0 .. Len(ledger)
        BY <1>2, <2>1
    <2>3. Rewards!validate_chain(n, SubSeq(ledger, 1, height[n] + 1))
        BY <1>1, <2>2
    <2>4. /\ height' = [height EXCEPT ![n] = @ + 1]
          /\ UNCHANGED <<votes, status, suspended, changes, ledger, refused>>
        BY <1>5, <2>3 DEF Rewards!_validate_block_extends_chain
    <2>5. height' \in [Nodes -> 0 .. Len(ledger)]
        BY <1>2, <2>2, <2>4
    <2>. QED BY <2>4, <2>5, AgreedStays
<1>6. ASSUME NEW n \in Nodes, Rewards!load_blockchain(n) PROVE AgreedInv'
    <2>1. Rewards!validate_chain(n, Rewards!ChainOf(n))
        BY <1>1, <1>2 DEF Rewards!ChainOf
    <2>2. UNCHANGED <<votes, status, suspended, changes, ledger, refused, height>>
        BY <1>6, <2>1 DEF Rewards!load_blockchain
    <2>. QED BY <1>2, <2>2, AgreedStays
<1>7. ASSUME NEW n, NEW w, Rewards!set_account_status(n, w) PROVE AgreedInv'
    BY <1>2, <1>7 DEF Rewards!set_account_status, SettledAccess
<1>8. CASE Rewards!current_day_window \/ Rewards!add_transaction \/ UNCHANGED Rewards!vars
    <2>1. UNCHANGED <<votes, status, suspended, changes, ledger, refused, height>>
        BY <1>8 DEF Rewards!current_day_window, Rewards!add_transaction, Rewards!Chain, Rewards!vars
    <2>. QED BY <1>2, <2>1, AgreedStays
<1>9. ASSUME NEW n \in Nodes, NEW s \in Rewards!Sub, Rewards!accept_block_candidate(n, s) PROVE AgreedInv'
    BY <1>9, AgreedAccepts DEF Rewards!RewardAssumption
<1>. QED BY <1>3, <1>4, <1>5, <1>6, <1>7, <1>8, <1>9 DEF Rewards!Next

\* Where access does not change and no day limits the votes, a block that one node
\* mines is a block for the others, and a chain that was once accepted is accepted
\* at every later restart, although its rewards are always compared with the plan
\* of today: no vote and no decision changes what a decision pays.  Both fail as
\* soon as an account is suspended or a day limits the votes (README, section 5).
THEOREM SettledNodesAgree ==
    ASSUME Rewards!RewardAssumption, SettledAccess
    PROVE  Rewards!Spec => [](Rewards!NodesAgree /\ Rewards!AcceptedStaysValid)
<1>1. Rewards!Init => AgreedInv
    <2>1. SUFFICES ASSUME Rewards!Init PROVE AgreedInv
        OBVIOUS
    <2>2. ledger = <<>> /\ Len(ledger) = 0 /\ height = [n \in Nodes |-> 0]
        BY <2>1 DEF Rewards!Init
    <2>3. \A n \in Nodes : ChainPays(Plans(n), ledger)
        BY <2>2 DEF ChainPays
    <2>. QED BY <2>1, <2>2, <2>3, RewardInvInit DEF AgreedInv, Rewards!Init
<1>2. SettledAccess /\ AgreedInv /\ [Rewards!Next]_(Rewards!vars) => AgreedInv'
    BY AgreedInvNext
<1>3. AgreedInv => Rewards!NodesAgree /\ Rewards!AcceptedStaysValid
    <2>1. SUFFICES ASSUME AgreedInv, NEW n \in Nodes PROVE Rewards!validate_chain(n, Rewards!ChainOf(n))
        BY DEF AgreedInv, Rewards!NodesAgree, Rewards!AcceptedStaysValid
    <2>2. ledger \in Seq(Minted) /\ ChainPays(Plans(n), ledger) /\ height[n] \in 0 .. Len(ledger)
        BY <2>1 DEF AgreedInv, RewardInv, RewardTypes
    <2>. QED BY <2>2, PrefixPays, ValidatingIsPaying DEF Rewards!ChainOf
<1>. QED BY <1>1, <1>2, <1>3, PTL DEF Rewards!Spec

\* What the folds of the community modules compute, without their recursion: a
\* function on the subsets of a finite set that takes one chosen element away at a
\* time exists and is the only one.
FoldsOn(it, T, base, pick, step) ==
    \A s \in SUBSET T : it[s] = IF s = {} THEN base ELSE step[<<pick[s], it[s \ {pick[s]}]>>]
Folding(S, V, base, pick, step) ==
    /\ IsFiniteSet(S) /\ base \in V
    /\ \A s \in SUBSET S : s # {} => pick[s] \in s
    /\ \A x \in S, v \in V : step[<<x, v>>] \in V
\* The same for a function whose values are not known.
FoldsWithin(jt, T, V, base, pick, step) ==
    \A s \in SUBSET T :
        /\ s = {} => jt[s] = base
        /\ s # {} /\ jt[s \ {pick[s]}] \in V => jt[s] = step[<<pick[s], jt[s \ {pick[s]}]>>]

LEMMA MinimalSubset ==
    ASSUME NEW S, IsFiniteSet(S), NEW Bad \in SUBSET (SUBSET S), Bad # {}
    PROVE  \E T \in Bad : \A U \in SUBSET T : U # T => U \notin Bad
<1>1. Bad \subseteq FiniteSubsetsOf(S)
    BY FS_Subset DEF FiniteSubsetsOf
<1>2. PICK T \in Bad : \A U \in Bad : <<U, T>> \notin StrictSubsetOrdering(S)
    BY <1>1, FS_StrictSubsetOrderingWellFounded, WFMin
<1>. QED BY <1>2 DEF StrictSubsetOrdering

LEMMA LeastNatural ==
    ASSUME NEW T \in SUBSET Nat, T # {} PROVE \E m \in T : \A n \in T : m <= n
<1>1. PICK k \in T : TRUE
    OBVIOUS
<1>. DEFINE below == {0 .. n : n \in {m \in T : m <= k}}
<1>2. below \in SUBSET (SUBSET (0 .. k)) /\ below # {} /\ IsFiniteSet(0 .. k)
    <2>1. k \in Nat /\ 0 \in Int /\ k \in Int
        BY <1>1
    <2>2. IsFiniteSet(0 .. k)
        BY <2>1, FS_Interval
    <2>3. 0 .. k \in below
        BY <2>1
    <2>4. \A n \in T : n <= k => 0 .. n \in SUBSET (0 .. k)
        BY <2>1
    <2>. QED BY <2>2, <2>3, <2>4
<1>3. PICK s \in below : \A u \in SUBSET s : u # s => u \notin below
    <2>. HIDE DEF below
    <2>. QED BY <1>2, MinimalSubset
<1>4. PICK m \in T : m <= k /\ s = 0 .. m
    BY <1>3
<1>5. ASSUME NEW n \in T, n < m PROVE FALSE
    <2>1. 0 .. n \in below /\ 0 .. n \subseteq s /\ 0 .. n # s
        BY <1>4, <1>5
    <2>. QED BY <1>3, <2>1
<1>. QED BY <1>4, <1>5

\* Functions that follow the same recursion agree.
FoldsAgree(S, T, V, base, pick, step, it, jt) ==
    /\ Folding(S, V, base, pick, step)
    /\ it \in [SUBSET S -> V] /\ FoldsOn(it, S, base, pick, step)
    /\ T \in SUBSET S /\ FoldsWithin(jt, T, V, base, pick, step)
    => \A s \in SUBSET T : jt[s] = it[s]

LEMMA OneFold ==
    ASSUME NEW S, NEW T, NEW V, NEW base, NEW pick, NEW step, NEW it, NEW jt
    PROVE  FoldsAgree(S, T, V, base, pick, step, it, jt)
<1>. SUFFICES ASSUME Folding(S, V, base, pick, step), it \in [SUBSET S -> V], FoldsOn(it, S, base, pick, step),
                     T \in SUBSET S, FoldsWithin(jt, T, V, base, pick, step)
              PROVE  \A s \in SUBSET T : jt[s] = it[s]
    BY DEF FoldsAgree
<1>. DEFINE Bad == {s \in SUBSET T : jt[s] # it[s]}
<1>1. SUFFICES ASSUME Bad # {} PROVE FALSE
    OBVIOUS
<1>2. PICK s \in Bad : \A u \in SUBSET s : u # s => u \notin Bad
    <2>1. IsFiniteSet(T) /\ Bad \in SUBSET (SUBSET T)
        BY FS_Subset DEF Folding
    <2>. HIDE DEF Bad
    <2>. QED BY <1>1, <2>1, MinimalSubset
<1>3. s \in SUBSET T /\ s \in SUBSET S /\ s # {} /\ pick[s] \in s
    BY <1>2 DEF FoldsOn, FoldsWithin, Folding
<1>4. s \ {pick[s]} \notin Bad
    BY <1>2, <1>3
<1>5. jt[s \ {pick[s]}] = it[s \ {pick[s]}]
    BY <1>3, <1>4
<1>6. it[s \ {pick[s]}] \in V
    BY <1>3
<1>. QED BY <1>2, <1>3, <1>5, <1>6 DEF FoldsOn, FoldsWithin

LEMMA SomeFold ==
    ASSUME NEW S, NEW V, NEW base, NEW pick, NEW step, Folding(S, V, base, pick, step)
    PROVE  \E it \in [SUBSET S -> V] : FoldsOn(it, S, base, pick, step)
<1>. DEFINE Has(T) == \E it \in [SUBSET T -> V] : FoldsOn(it, T, base, pick, step)
            Bad == {T \in SUBSET S : ~Has(T)}
<1>1. SUFFICES ASSUME Bad # {} PROVE FALSE
    OBVIOUS
<1>2. PICK T \in Bad : \A U \in SUBSET T : U # T => U \notin Bad
    <2>1. IsFiniteSet(S) /\ Bad \in SUBSET (SUBSET S)
        BY DEF Folding
    <2>. HIDE DEF Bad
    <2>. QED BY <1>1, <2>1, MinimalSubset
<1>3. \A U \in SUBSET T : U # T => Has(U)
    BY <1>2
<1>. DEFINE C(U) == CHOOSE it \in [SUBSET U -> V] : FoldsOn(it, U, base, pick, step)
<1>4. ASSUME NEW U \in SUBSET T, U # T PROVE C(U) \in [SUBSET U -> V] /\ FoldsOn(C(U), U, base, pick, step)
    BY <1>3, <1>4
<1>. HIDE DEF C
<1>. DEFINE new == [s \in SUBSET T |->
                IF s = {} THEN base ELSE step[<<pick[s], C(s \ {pick[s]})[s \ {pick[s]}]>>]]
<1>5. ASSUME NEW s \in SUBSET T, s # {}
      PROVE  /\ pick[s] \in s /\ pick[s] \in S /\ s \ {pick[s]} \in SUBSET T /\ s \ {pick[s]} # T
             /\ C(s \ {pick[s]})[s \ {pick[s]}] \in V
    <2>1. pick[s] \in s
        BY <1>5 DEF Folding
    <2>2. s \ {pick[s]} \in SUBSET T /\ s \ {pick[s]} # T
        BY <2>1
    <2>3. C(s \ {pick[s]}) \in [SUBSET (s \ {pick[s]}) -> V]
        BY <1>4, <2>2
    <2>. QED BY <2>1, <2>2, <2>3
<1>6. new \in [SUBSET T -> V]
    BY <1>5 DEF Folding
<1>7. ASSUME NEW w \in SUBSET T, w # T PROVE new[w] = C(w)[w]
    <2>1. C(w) \in [SUBSET w -> V] /\ FoldsOn(C(w), w, base, pick, step)
        BY <1>4, <1>7
    <2>2. CASE w = {}
        BY <2>1, <2>2 DEF FoldsOn
    <2>3. CASE w # {}
        <3>. DEFINE u == w \ {pick[w]}
        <3>1. u \in SUBSET T /\ u # T /\ u \in SUBSET w
            BY <1>5, <2>3
        <3>2. C(u) \in [SUBSET u -> V] /\ FoldsOn(C(u), u, base, pick, step)
            BY <1>4, <3>1
        <3>3. Folding(w, V, base, pick, step)
            BY FS_Subset DEF Folding
        <3>. HIDE DEF u
        <3>4. FoldsWithin(C(u), u, V, base, pick, step)
            BY <3>2 DEF FoldsOn, FoldsWithin
        <3>5. \A s \in SUBSET u : C(u)[s] = C(w)[s]
            <4>1. FoldsAgree(w, u, V, base, pick, step, C(w), C(u))
                BY OneFold
            <4>. QED BY <2>1, <3>1, <3>3, <3>4, <4>1 DEF FoldsAgree
        <3>6. C(u)[u] = C(w)[u]
            BY <3>5
        <3>7. C(w)[w] = step[<<pick[w], C(w)[u]>>]
            BY <2>1, <2>3 DEF FoldsOn, u
        <3>8. new[w] = step[<<pick[w], C(u)[u]>>]
            BY <2>3 DEF u
        <3>. QED BY <3>6, <3>7, <3>8
    <2>. QED BY <2>2, <2>3
<1>8. ASSUME NEW s \in SUBSET T
      PROVE  new[s] = IF s = {} THEN base ELSE step[<<pick[s], new[s \ {pick[s]}]>>]
    <2>1. CASE s = {}
        BY <2>1
    <2>2. CASE s # {}
        BY <1>5, <1>7, <2>2
    <2>. QED BY <2>1, <2>2
<1>. HIDE DEF new
<1>9. FoldsOn(new, T, base, pick, step)
    BY <1>8 DEF FoldsOn
<1>10. Has(T)
    BY <1>6, <1>9
<1>. QED BY <1>2, <1>10

LEMMA MaxOf ==
    ASSUME NEW k \in Nat, NEW s \in SUBSET (1 .. k), s # {}
    PROVE  Rewards!Max(s) \in s /\ \A y \in s : Rewards!Max(s) >= y
<1>. DEFINE T == {k - x : x \in s}
<1>1. T \in SUBSET Nat /\ T # {}
    <2>1. \A x \in s : x \in 1 .. k
        OBVIOUS
    <2>2. \A x \in 1 .. k : k - x \in Nat
        OBVIOUS
    <2>. QED BY <2>1, <2>2
<1>2. PICK m \in T : \A n \in T : m <= n
    <2>. HIDE DEF T
    <2>. QED BY <1>1, LeastNatural
<1>3. PICK x \in s : m = k - x
    BY <1>2
<1>4. \A y \in s : x >= y
    <2>1. SUFFICES ASSUME NEW y \in s PROVE x >= y
        OBVIOUS
    <2>2. k - x <= k - y
        BY <1>2, <1>3
    <2>. QED BY <2>2
<1>. QED BY <1>4 DEF Rewards!Max

LEMMA MaxOfAll == ASSUME NEW k \in Nat, k # 0 PROVE Rewards!Max(1 .. k) = k /\ (1 .. k) \ {k} = 1 .. (k - 1)
<1>1. Rewards!Max(1 .. k) \in 1 .. k /\ \A y \in 1 .. k : Rewards!Max(1 .. k) >= y
    <2>1. 1 .. k \in SUBSET (1 .. k) /\ 1 .. k # {}
        OBVIOUS
    <2>. QED BY <2>1, MaxOf
<1>. QED BY <1>1

\* Tips are added one after the other.
LEMMA TipsFold ==
    ASSUME Rewards!RewardAssumption, NEW pool \in Int, NEW n \in Nat
    PROVE  \E it \in [SUBSET (1 .. n) -> Int] :
              /\ it[{}] = pool
              /\ \A s \in SUBSET (1 .. n) : s # {} =>
                    it[s] = it[s \ {Rewards!Max(s)}] + Rewards!TipShare(it[s \ {Rewards!Max(s)}])
              /\ \A k \in 0 .. n : Rewards!AfterTips(pool, k) = it[1 .. k]
<1>. DEFINE S == 1 .. n
            pick == [s \in SUBSET S |-> Rewards!Max(s)]
            step == [a \in S \X Int |-> a[2] + Rewards!TipShare(a[2])]
<1>1. \A v \in Int : Rewards!TipShare(v) \in Int
    BY DEF Rewards!TipShare, Rewards!RewardAssumption
<1>2. Folding(S, Int, pool, pick, step)
    <2>1. IsFiniteSet(S)
        BY FS_Interval
    <2>2. \A s \in SUBSET S : s # {} => pick[s] \in s
        BY MaxOf
    <2>3. \A x \in S, v \in Int : step[<<x, v>>] \in Int
        BY <1>1
    <2>. HIDE DEF S, pick, step
    <2>. QED BY <2>1, <2>2, <2>3 DEF Folding
<1>3. PICK it \in [SUBSET S -> Int] : FoldsOn(it, S, pool, pick, step)
    <2>. HIDE DEF S, pick, step
    <2>. QED BY <1>2, SomeFold
<1>4. it[{}] = pool
    BY <1>3 DEF FoldsOn
<1>5. ASSUME NEW s \in SUBSET S, s # {}
      PROVE  it[s] = it[s \ {Rewards!Max(s)}] + Rewards!TipShare(it[s \ {Rewards!Max(s)}])
    <2>1. Rewards!Max(s) \in S /\ s \ {Rewards!Max(s)} \in SUBSET S
        BY <1>5, MaxOf
    <2>2. it[s] = step[<<Rewards!Max(s), it[s \ {Rewards!Max(s)}]>>]
        BY <1>3, <1>5 DEF FoldsOn
    <2>. QED BY <2>1, <2>2
<1>6. ASSUME NEW k \in 0 .. n PROVE Rewards!AfterTips(pool, k) = it[1 .. k]
    <2>. DEFINE T == 1 .. k
                Sol(jt) == jt = [s \in SUBSET T |->
                    IF s = {} THEN pool
                    ELSE jt[s \ {Rewards!Max(s)}] + Rewards!TipShare(jt[s \ {Rewards!Max(s)}])]
                iter == CHOOSE jt : Sol(jt)
                part == [s \in SUBSET T |-> it[s]]
    <2>1. T \in SUBSET S
        OBVIOUS
    <2>2. Sol(part)
        <3>1. \A s \in SUBSET T : s # {} => s \in SUBSET S /\ s \ {Rewards!Max(s)} \in SUBSET T
            BY <2>1
        <3>. HIDE DEF S, T
        <3>. QED BY <1>4, <1>5, <3>1
    <2>3. Sol(iter)
        BY <2>2
    <2>. HIDE DEF iter
    <2>4. FoldsWithin(iter, T, Int, pool, pick, step)
        <3>1. ASSUME NEW s \in SUBSET T, s # {}, iter[s \ {pick[s]}] \in Int
              PROVE  iter[s] = step[<<pick[s], iter[s \ {pick[s]}]>>]
            <4>1. pick[s] = Rewards!Max(s) /\ Rewards!Max(s) \in S
                BY <2>1, <3>1, MaxOf
            <4>2. iter[s] = iter[s \ {Rewards!Max(s)}] + Rewards!TipShare(iter[s \ {Rewards!Max(s)}])
                BY <2>3, <3>1
            <4>3. \A x \in S, v \in Int : step[<<x, v>>] = v + Rewards!TipShare(v)
                OBVIOUS
            <4>. HIDE DEF S, T, pick, step, Sol
            <4>. QED BY <3>1, <4>1, <4>2, <4>3
        <3>2. iter[{}] = pool
            BY <2>3
        <3>. HIDE DEF S, T, pick, step, Sol
        <3>. QED BY <3>1, <3>2 DEF FoldsWithin
    <2>5. \A s \in SUBSET T : iter[s] = it[s]
        <3>. HIDE DEF S, T, pick, step, Sol
        <3>1. FoldsAgree(S, T, Int, pool, pick, step, it, iter)
            BY OneFold
        <3>. QED BY <1>2, <1>3, <2>1, <2>4, <3>1 DEF FoldsAgree
    <2>6. Rewards!AfterTips(pool, k) = iter[T]
        BY DEF Rewards!AfterTips, Rewards!FoldLeft, Rewards!MapThenFoldSet, iter
    <2>. QED BY <2>5, <2>6
<1>. QED BY <1>4, <1>5, <1>6

LEMMA TipsStep ==
    ASSUME Rewards!RewardAssumption, NEW pool \in Int, NEW k \in Nat
    PROVE  /\ Rewards!AfterTips(pool, 0) = pool /\ Rewards!AfterTips(pool, k) \in Int
           /\ Rewards!AfterTips(pool, k + 1)
                 = Rewards!AfterTips(pool, k) + Rewards!TipShare(Rewards!AfterTips(pool, k))
<1>1. PICK it \in [SUBSET (1 .. k + 1) -> Int] :
              /\ it[{}] = pool
              /\ \A s \in SUBSET (1 .. k + 1) : s # {} =>
                    it[s] = it[s \ {Rewards!Max(s)}] + Rewards!TipShare(it[s \ {Rewards!Max(s)}])
              /\ \A i \in 0 .. k + 1 : Rewards!AfterTips(pool, i) = it[1 .. i]
    <2>1. k + 1 \in Nat
        OBVIOUS
    <2>. QED BY <2>1, TipsFold
<1>2. 1 .. 0 = {} /\ 1 .. k \in SUBSET (1 .. k + 1) /\ 1 .. k + 1 # {}
    OBVIOUS
<1>3. Rewards!Max(1 .. k + 1) = k + 1 /\ (1 .. k + 1) \ {k + 1} = 1 .. k
    BY MaxOfAll
<1>4. it[1 .. k + 1] = it[1 .. k] + Rewards!TipShare(it[1 .. k])
    BY <1>1, <1>2, <1>3
<1>. QED BY <1>1, <1>2, <1>4

LEMMA AmountIsInt ==
    ASSUME NEW rs, IsFiniteSet(rs), \A r \in rs : r.amount \in Int
    PROVE  Rewards!Amount(rs) \in Int
<1>. DEFINE pick == [s \in SUBSET rs |-> CHOOSE x \in s : TRUE]
            step == [a \in rs \X Int |-> a[1].amount + a[2]]
            Sol(jt) == jt = [s \in SUBSET rs |->
                IF s = {} THEN 0
                ELSE (CHOOSE x \in s : TRUE).amount + jt[s \ {CHOOSE x \in s : TRUE}]]
            iter == CHOOSE jt : Sol(jt)
<1>1. \A x \in rs, v \in Int : step[<<x, v>>] = x.amount + v
    OBVIOUS
<1>2. Folding(rs, Int, 0, pick, step)
    <2>1. \A s \in SUBSET rs : s # {} => pick[s] \in s
        OBVIOUS
    <2>2. \A x \in rs, v \in Int : step[<<x, v>>] \in Int
        <3>. SUFFICES ASSUME NEW x \in rs, NEW v \in Int PROVE step[<<x, v>>] \in Int
            OBVIOUS
        <3>1. x.amount \in Int
            OBVIOUS
        <3>2. step[<<x, v>>] = x.amount + v
            BY <1>1
        <3>. HIDE DEF step
        <3>. QED BY <3>1, <3>2
    <2>. HIDE DEF pick, step
    <2>. QED BY <2>1, <2>2 DEF Folding
<1>3. PICK it \in [SUBSET rs -> Int] : FoldsOn(it, rs, 0, pick, step)
    <2>. HIDE DEF pick, step
    <2>. QED BY <1>2, SomeFold
<1>4. ASSUME NEW s \in SUBSET rs, s # {}
      PROVE  /\ pick[s] = (CHOOSE x \in s : TRUE) /\ pick[s] \in rs /\ s \ {pick[s]} \in SUBSET rs
             /\ it[s] = pick[s].amount + it[s \ {pick[s]}]
    <2>1. pick[s] = (CHOOSE x \in s : TRUE) /\ pick[s] \in rs /\ s \ {pick[s]} \in SUBSET rs
        BY <1>4
    <2>. HIDE DEF pick, step
    <2>2. it[s] = step[<<pick[s], it[s \ {pick[s]}]>>]
        BY <1>3, <1>4 DEF FoldsOn
    <2>. QED BY <1>1, <2>1, <2>2
<1>5. it[{}] = 0
    BY <1>3 DEF FoldsOn
<1>6. Sol(it)
    <2>1. \A s \in SUBSET rs : s # {} =>
             it[s] = (CHOOSE x \in s : TRUE).amount + it[s \ {CHOOSE x \in s : TRUE}]
        <3>. HIDE DEF pick
        <3>. QED BY <1>4
    <2>. HIDE DEF pick, step
    <2>. QED BY <1>5, <2>1
<1>7. Sol(iter)
    BY <1>6
<1>. HIDE DEF iter
<1>8. FoldsWithin(iter, rs, Int, 0, pick, step)
    <2>1. ASSUME NEW s \in SUBSET rs, s # {}, iter[s \ {pick[s]}] \in Int
          PROVE  iter[s] = step[<<pick[s], iter[s \ {pick[s]}]>>]
        <3>1. iter[s] = pick[s].amount + iter[s \ {pick[s]}]
            BY <1>4, <1>7, <2>1
        <3>. HIDE DEF pick, step
        <3>. QED BY <1>1, <1>4, <2>1, <3>1
    <2>2. iter[{}] = 0
        BY <1>7
    <2>. HIDE DEF pick, step
    <2>. QED BY <2>1, <2>2 DEF FoldsWithin
<1>9. iter[rs] = it[rs]
    <2>. HIDE DEF pick, step
    <2>1. FoldsAgree(rs, rs, Int, 0, pick, step, it, iter)
        BY OneFold
    <2>. QED BY <1>2, <1>3, <1>8, <2>1 DEF FoldsAgree
<1>10. Rewards!Amount(rs) = iter[rs]
    BY DEF Rewards!Amount, Rewards!MapThenSumSet, Rewards!MapThenFoldSet, iter
<1>. QED BY <1>9, <1>10

\* Where the pool was not short before the block's payments, tips included, it is
\* not short after them: below zero a tip adds no less than it adds above, and from
\* zero on it only adds.
LEMMA TipsCoverPayments ==
    ASSUME Rewards!RewardAssumption, NEW pool \in Int, NEW x \in Int, NEW k \in Nat,
           Rewards!AfterTips(pool, k) >= x
    PROVE  Rewards!AfterTips(pool - x, k) >= 0
<1>. DEFINE high(i) == Rewards!AfterTips(pool, i)
            low(i) == Rewards!AfterTips(pool - x, i)
            Bad == {i \in Nat : ~(low(i) >= 0 \/ low(i) >= high(i) - x)}
<1>1. \A i \in Nat : /\ high(i) \in Int /\ low(i) \in Int
                     /\ high(i + 1) = high(i) + Rewards!TipShare(high(i))
                     /\ low(i + 1) = low(i) + Rewards!TipShare(low(i))
    <2>1. pool - x \in Int
        OBVIOUS
    <2>. QED BY <2>1, TipsStep
<1>2. high(0) = pool /\ low(0) = pool - x
    <2>1. pool - x \in Int /\ 0 \in Nat
        OBVIOUS
    <2>. QED BY <2>1, TipsStep
<1>3. \A p, q \in Int : /\ Rewards!TipShare(p) \in Nat
                        /\ p < 0 => Rewards!TipShare(p) >= Rewards!TipShare(q)
    <2>1. TipUnits \in Nat /\ TipUnits % 4 = 0 /\ REWARD_POOL_SUPPLY \in Nat
        BY DEF Rewards!RewardAssumption
    <2>2. 3 * (TipUnits \div 4) \in Nat /\ TipUnits \div 2 \in Nat /\ 3 * (TipUnits \div 4) >= TipUnits \div 2
        BY <2>1
    <2>. DEFINE more == 3 * (TipUnits \div 4)
                less == TipUnits \div 2
    <2>3. \A p \in Int : Rewards!TipShare(p) = IF 4 * p < REWARD_POOL_SUPPLY THEN more ELSE less
        BY DEF Rewards!TipShare
    <2>. HIDE DEF more, less
    <2>4. more \in Nat /\ less \in Nat /\ more >= less
        BY <2>2 DEF more, less
    <2>. QED BY <2>1, <2>3, <2>4
<1>. HIDE DEF high, low
<1>4. Bad = {}
    <2>1. SUFFICES ASSUME Bad # {} PROVE FALSE
        OBVIOUS
    <2>2. PICK m \in Bad : \A n \in Bad : m <= n
        <3>1. Bad \in SUBSET Nat
            OBVIOUS
        <3>. HIDE DEF Bad
        <3>. QED BY <2>1, <3>1, LeastNatural
    <2>3. m # 0
        BY <1>2, <2>2
    <2>4. m - 1 \in Nat /\ m - 1 \notin Bad /\ (m - 1) + 1 = m
        BY <2>2, <2>3
    <2>5. low(m - 1) >= 0 \/ low(m - 1) >= high(m - 1) - x
        BY <2>4
    <2>6. /\ high(m - 1) \in Int /\ low(m - 1) \in Int
          /\ high(m) = high(m - 1) + Rewards!TipShare(high(m - 1))
          /\ low(m) = low(m - 1) + Rewards!TipShare(low(m - 1))
        BY <1>1, <2>4
    <2>7. low(m) >= 0 \/ low(m) >= high(m) - x
        BY <1>3, <2>5, <2>6
    <2>. QED BY <2>2, <2>7
<1>5. low(k) >= 0 \/ low(k) >= high(k) - x
    BY <1>4
<1>. QED BY <1>1, <1>5 DEF high, low

\* What a block leaves of a pool.
AfterBlock(pool, b) == Rewards!AfterTips(pool - MEME_BLOCK_REWARD - Rewards!Amount(b.rewards), b.tips)
Payable(b) == b.tips \in Nat /\ Rewards!Amount(b.rewards) \in Int

\* The pool after every set of places of a chain, each place after the smaller ones.
PoolTable(it, full, size) ==
    /\ it \in [SUBSET (1 .. size) -> Int] /\ it[{}] = REWARD_POOL_SUPPLY
    /\ \A s \in SUBSET (1 .. size) : s # {} =>
          it[s] = AfterBlock(it[s \ {Rewards!Max(s)}], full[Rewards!Max(s)])
    /\ \A q : DOMAIN q \in SUBSET (1 .. size) /\ (\A i \in DOMAIN q : q[i] = full[i]) =>
          Rewards!recompute_reward_pool_balance(q) = it[DOMAIN q]

LEMMA PoolFold ==
    ASSUME Rewards!RewardAssumption, NEW B, NEW full \in Seq(B), \A i \in DOMAIN full : Payable(full[i])
    PROVE  \E it : PoolTable(it, full, Len(full))
<1>. DEFINE n == Len(full)
            S == 1 .. n
            pick == [s \in SUBSET S |-> Rewards!Max(s)]
            step == [a \in S \X Int |-> AfterBlock(a[2], full[a[1]])]
<1>1. n \in Nat /\ DOMAIN full = S
    OBVIOUS
<1>2. \A x \in S, v \in Int : step[<<x, v>>] = AfterBlock(v, full[x]) /\ AfterBlock(v, full[x]) \in Int
    <2>1. SUFFICES ASSUME NEW x \in S, NEW v \in Int PROVE AfterBlock(v, full[x]) \in Int
        OBVIOUS
    <2>2. Payable(full[x]) /\ MEME_BLOCK_REWARD \in Nat
        BY <1>1 DEF Rewards!RewardAssumption
    <2>3. v - MEME_BLOCK_REWARD - Rewards!Amount(full[x].rewards) \in Int
        BY <2>2 DEF Payable
    <2>. QED BY <2>2, <2>3, TipsStep DEF AfterBlock, Payable
<1>3. ASSUME NEW s \in SUBSET S, s # {}
      PROVE  pick[s] = Rewards!Max(s) /\ pick[s] \in s /\ pick[s] \in S /\ s \ {pick[s]} \in SUBSET S
    BY <1>1, <1>3, MaxOf
<1>. HIDE DEF n, S, pick, step
<1>4. Folding(S, Int, REWARD_POOL_SUPPLY, pick, step)
    <2>1. IsFiniteSet(S)
        BY <1>1, FS_Interval DEF S
    <2>2. REWARD_POOL_SUPPLY \in Int
        BY DEF Rewards!RewardAssumption
    <2>. QED BY <1>2, <1>3, <2>1, <2>2 DEF Folding
<1>5. PICK it \in [SUBSET S -> Int] : FoldsOn(it, S, REWARD_POOL_SUPPLY, pick, step)
    BY <1>4, SomeFold
<1>6. it[{}] = REWARD_POOL_SUPPLY
    BY <1>5 DEF FoldsOn
<1>7. ASSUME NEW s \in SUBSET S, s # {}
      PROVE  it[s] = AfterBlock(it[s \ {Rewards!Max(s)}], full[Rewards!Max(s)])
    <2>1. it[s] = step[<<pick[s], it[s \ {pick[s]}]>>]
        BY <1>5, <1>7 DEF FoldsOn
    <2>. QED BY <1>2, <1>3, <1>7, <2>1
<1>8. ASSUME NEW q, DOMAIN q \in SUBSET S, \A i \in DOMAIN q : q[i] = full[i]
      PROVE  Rewards!recompute_reward_pool_balance(q) = it[DOMAIN q]
    <2>. DEFINE T == DOMAIN q
                Sol(jt) == jt = [s \in SUBSET T |->
                    IF s = {} THEN REWARD_POOL_SUPPLY
                    ELSE Rewards!AfterTips(jt[s \ {Rewards!Max(s)}] - MEME_BLOCK_REWARD
                             - Rewards!Amount(q[Rewards!Max(s)].rewards), q[Rewards!Max(s)].tips)]
                iter == CHOOSE jt : Sol(jt)
                part == [s \in SUBSET T |-> it[s]]
    <2>1. ASSUME NEW s \in SUBSET T, s # {}
          PROVE  s \in SUBSET S /\ s \ {Rewards!Max(s)} \in SUBSET T /\ q[Rewards!Max(s)] = full[Rewards!Max(s)]
        BY <1>3, <1>8, <2>1
    <2>2. Sol(part)
        <3>1. \A s \in SUBSET T : s # {} => part[s] =
                Rewards!AfterTips(part[s \ {Rewards!Max(s)}] - MEME_BLOCK_REWARD
                             - Rewards!Amount(q[Rewards!Max(s)].rewards), q[Rewards!Max(s)].tips)
            BY <1>7, <2>1 DEF AfterBlock
        <3>2. part[{}] = REWARD_POOL_SUPPLY
            BY <1>6
        <3>3. part = [s \in SUBSET T |-> part[s]]
            OBVIOUS
        <3>. HIDE DEF part, T
        <3>. QED BY <3>1, <3>2, <3>3
    <2>3. Sol(iter)
        BY <2>2
    <2>. HIDE DEF iter, part
    <2>4. FoldsWithin(iter, T, Int, REWARD_POOL_SUPPLY, pick, step)
        <3>1. ASSUME NEW s \in SUBSET T, s # {}, iter[s \ {pick[s]}] \in Int
              PROVE  iter[s] = step[<<pick[s], iter[s \ {pick[s]}]>>]
            <4>1. iter[s] = AfterBlock(iter[s \ {Rewards!Max(s)}], q[Rewards!Max(s)])
                BY <2>3, <3>1 DEF AfterBlock
            <4>. HIDE DEF T, Sol
            <4>. QED BY <1>2, <1>3, <2>1, <3>1, <4>1
        <3>2. iter[{}] = REWARD_POOL_SUPPLY
            BY <2>3
        <3>. HIDE DEF T, Sol
        <3>. QED BY <3>1, <3>2 DEF FoldsWithin
    <2>5. iter[T] = it[T]
        <3>1. FoldsAgree(S, T, Int, REWARD_POOL_SUPPLY, pick, step, it, iter)
            BY OneFold
        <3>. HIDE DEF T, Sol
        <3>2. T \in SUBSET S
            BY <1>8 DEF T
        <3>. QED BY <1>4, <1>5, <2>4, <3>1, <3>2 DEF FoldsAgree
    <2>6. Rewards!recompute_reward_pool_balance(q) = iter[T]
        BY DEF Rewards!recompute_reward_pool_balance, Rewards!FoldLeft, Rewards!MapThenFoldSet, iter
    <2>. QED BY <2>5, <2>6
<1>9. it \in [SUBSET S -> Int]
    BY <1>5
<1>. QED BY <1>6, <1>7, <1>8, <1>9 DEF S, n, PoolTable

\* The pool after one more block, and that it is the same in every copy of the chain.
LEMMA PoolStep ==
    ASSUME Rewards!RewardAssumption, NEW B, NEW chain \in Seq(B), NEW b \in B,
           \A i \in DOMAIN chain : Payable(chain[i]), Payable(b)
    PROVE  /\ Rewards!recompute_reward_pool_balance(<<>>) = REWARD_POOL_SUPPLY
           /\ Rewards!recompute_reward_pool_balance(chain) \in Int
           /\ Rewards!recompute_reward_pool_balance(Append(chain, b))
                 = AfterBlock(Rewards!recompute_reward_pool_balance(chain), b)
<1>. DEFINE full == Append(chain, b)
            n == Len(chain) + 1
<1>1. /\ Len(chain) \in Nat /\ DOMAIN chain = 1 .. Len(chain)
      /\ full \in Seq(B) /\ Len(full) = n /\ DOMAIN full = 1 .. n /\ full[n] = b
      /\ \A i \in 1 .. Len(chain) : full[i] = chain[i]
    OBVIOUS
<1>. HIDE DEF full
<1>2. \A i \in DOMAIN full : Payable(full[i])
    BY <1>1
<1>3. PICK it : PoolTable(it, full, n)
    BY <1>1, <1>2, PoolFold
<1>4. Rewards!Max(1 .. n) = n /\ (1 .. n) \ {n} = 1 .. Len(chain) /\ 1 .. n # {}
    <2>1. n \in Nat /\ n # 0 /\ n - 1 = Len(chain)
        BY <1>1
    <2>. QED BY <2>1, MaxOfAll
<1>5. it[1 .. n] = AfterBlock(it[1 .. Len(chain)], b)
    BY <1>1, <1>3, <1>4 DEF PoolTable
<1>6. Rewards!recompute_reward_pool_balance(chain) = it[1 .. Len(chain)] /\ 1 .. Len(chain) \in SUBSET (1 .. n)
    BY <1>1, <1>3 DEF PoolTable
<1>7. Rewards!recompute_reward_pool_balance(full) = it[1 .. n]
    BY <1>1, <1>3 DEF PoolTable
<1>8. Rewards!recompute_reward_pool_balance(<<>>) = it[{}]
    <2>1. DOMAIN <<>> = {}
        OBVIOUS
    <2>2. \A q : DOMAIN q = {} => Rewards!recompute_reward_pool_balance(q) = it[{}]
        BY <1>3 DEF PoolTable
    <2>. QED BY <2>1, <2>2
<1>. QED BY <1>3, <1>5, <1>6, <1>7, <1>8 DEF full, PoolTable

\* There are finitely many wallets and submissions to plan rewards for.
FinitePlans == IsFiniteSet(Wallets) /\ IsFiniteSet(Rewards!Sub)

LEMMA ImagesAreFinite ==
    ASSUME NEW S, IsFiniteSet(S), NEW f, DOMAIN f = S
    PROVE  IsFiniteSet({f[x] : x \in S})
<1>. DEFINE T == {f[x] : x \in S}
            g == [x \in S |-> f[x]]
<1>1. g \in Surjection(S, T)
    BY DEF Surjection
<1>. HIDE DEF g, T
<1>2. IsFiniteSet(T)
    BY <1>1, FS_Surjection
<1>. QED BY <1>2 DEF T

LEMMA RewardsAreFinite == ASSUME FinitePlans, NEW rs \in SUBSET Paid PROVE IsFiniteSet(rs)
<1>1. IsFiniteSet(SUBSET Wallets) /\ IsFiniteSet({"original", "not_original"})
    <2>1. IsFiniteSet({"original"} \cup {"not_original"})
        BY FS_EmptySet, FS_AddElement, FS_Singleton
    <2>2. {"original"} \cup {"not_original"} = {"original", "not_original"}
        OBVIOUS
    <2>. QED BY <2>1, <2>2, FS_SUBSET DEF FinitePlans
<1>. DEFINE share == [W \in SUBSET Wallets |-> Rewards!PerWallet(Rewards!Cardinality(W))]
<1>2. IsFiniteSet(Amounts)
    <2>1. Amounts = {share[W] : W \in SUBSET Wallets} /\ DOMAIN share = SUBSET Wallets
        BY DEF Amounts
    <2>. HIDE DEF share
    <2>. QED BY <1>1, <2>1, ImagesAreFinite
<1>. DEFINE all == (Rewards!Sub \X Wallets) \X (Rewards!Side \X Amounts)
            record == [a \in all |-> [sub |-> a[1][1], wallet |-> a[1][2],
                                      side |-> a[2][1], amount |-> a[2][2]]]
<1>3. IsFiniteSet(all)
    <2>1. IsFiniteSet(Rewards!Sub \X Wallets)
        BY FS_Product DEF FinitePlans
    <2>2. IsFiniteSet(Rewards!Side \X Amounts)
        BY <1>1, <1>2, FS_Product DEF Rewards!Side
    <2>. QED BY <2>1, <2>2, FS_Product
<1>4. Paid \subseteq {record[a] : a \in all}
    <2>1. SUFFICES ASSUME NEW r \in Paid PROVE \E a \in all : record[a] = r
        OBVIOUS
    <2>. DEFINE a == <<<<r.sub, r.wallet>>, <<r.side, r.amount>>>>
    <2>2. a \in all
        BY DEF Paid
    <2>3. record[a] = [sub |-> r.sub, wallet |-> r.wallet, side |-> r.side, amount |-> r.amount]
        BY <2>2
    <2>4. r = [sub |-> r.sub, wallet |-> r.wallet, side |-> r.side, amount |-> r.amount]
        BY DEF Paid
    <2>. QED BY <2>2, <2>3, <2>4
<1>5. IsFiniteSet({record[a] : a \in all})
    <2>1. DOMAIN record = all
        OBVIOUS
    <2>. HIDE DEF record, all
    <2>. QED BY <1>3, <2>1, ImagesAreFinite
<1>. HIDE DEF record, all
<1>6. rs \in SUBSET {record[a] : a \in all}
    BY <1>4
<1>. QED BY <1>5, <1>6, FS_Subset

\* What a plan pays is a number: the pool of the decision is shared by someone.
LEMMA PlansPayNumbers ==
    ASSUME Rewards!RewardAssumption, FinitePlans, NEW n, NEW s,
           NEW r \in Rewards!build_submission_voter_reward_plan(n, s)
    PROVE  r.amount \in Nat
<1>. DEFINE ws == Rewards!eligible_voter_reward_wallets(n, s)
            count == Rewards!Cardinality(ws)
<1>1. ws # {} /\ r.amount = Rewards!PerWallet(count)
    BY DEF Rewards!build_submission_voter_reward_plan
<1>2. count \in Nat \ {0}
    <2>1. ws \in SUBSET Wallets
        BY DEF Rewards!eligible_voter_reward_wallets, Rewards!Casting
    <2>. HIDE DEF ws
    <2>2. IsFiniteSet(ws)
        BY <2>1, FS_Subset DEF FinitePlans
    <2>3. Cardinality(ws) \in Nat /\ Cardinality(ws) # 0
        BY <1>1, <2>2, FS_EmptySet, FS_CardinalityType
    <2>4. Rewards!Cardinality(ws) = Cardinality(ws)
        BY DEF Rewards!Cardinality, Cardinality
    <2>. QED BY <2>3, <2>4
<1>. HIDE DEF count
<1>. DEFINE share == POOL_PER_DECISION \div count
<1>3. share \in Nat /\ MAX_PER_WALLET \in Nat
    BY <1>2 DEF Rewards!RewardAssumption
<1>4. Rewards!Min({share, MAX_PER_WALLET}) \in {share, MAX_PER_WALLET}
    <2>1. \E x \in {share, MAX_PER_WALLET} : \A y \in {share, MAX_PER_WALLET} : x =< y
        <3>. HIDE DEF share
        <3>. QED BY <1>3
    <2>. HIDE DEF share
    <2>. QED BY <2>1 DEF Rewards!Min
<1>5. r.amount = IF MAX_PER_WALLET > 0 THEN Rewards!Min({share, MAX_PER_WALLET}) ELSE share
    BY <1>1 DEF Rewards!PerWallet
<1>. HIDE DEF share
<1>. QED BY <1>3, <1>4, <1>5

PoolInv ==
    /\ RewardInv
    /\ \A i \in DOMAIN ledger : Payable(ledger[i])
    /\ Rewards!PoolNeverShort

LEMMA PoolInvInit == ASSUME Rewards!RewardAssumption, Rewards!Init PROVE PoolInv
<1>1. ledger = <<>> /\ REWARD_POOL_SUPPLY \in Nat
    BY DEF Rewards!Init, Rewards!RewardAssumption
<1>2. SubSeq(<<>>, 1, 0) = <<>> /\ Len(<<>>) = 0 /\ DOMAIN <<>> = {}
    OBVIOUS
<1>3. Rewards!recompute_reward_pool_balance(<<>>) = REWARD_POOL_SUPPLY
    <2>. DEFINE b == [tips |-> 0, rewards |-> {}]
    <2>1. IsFiniteSet({}) /\ \A r \in {} : r.amount \in Int
        BY FS_EmptySet
    <2>2. Rewards!Amount({}) \in Int
        BY <2>1, AmountIsInt
    <2>3. Payable(b)
        BY <2>2 DEF Payable
    <2>. HIDE DEF b
    <2>4. <<>> \in Seq({b}) /\ b \in {b}
        OBVIOUS
    <2>. QED BY <1>2, <2>3, <2>4, PoolStep
<1>4. RewardInv
    BY RewardInvInit
<1>5. \A i \in DOMAIN ledger : Payable(ledger[i])
    BY <1>1, <1>2
<1>6. ASSUME NEW i \in 0 .. Len(ledger) PROVE Rewards!recompute_reward_pool_balance(SubSeq(ledger, 1, i)) >= 0
    <2>1. SubSeq(ledger, 1, i) = <<>>
        BY <1>1, <1>2
    <2>2. Rewards!recompute_reward_pool_balance(SubSeq(ledger, 1, i)) = REWARD_POOL_SUPPLY
        BY <1>3, <2>1, Zenon
    <2>3. REWARD_POOL_SUPPLY >= 0
        BY <1>1
    <2>. QED BY <2>2, <2>3
<1>. QED BY <1>4, <1>5, <1>6 DEF PoolInv, Rewards!PoolNeverShort

\* A new block leaves a pool that its candidate found to suffice.
LEMMA PoolAccept ==
    ASSUME Rewards!RewardAssumption, FinitePlans, PoolInv, NEW n \in Nodes, NEW s \in Rewards!Sub,
           Rewards!accept_block_candidate(n, s), RewardInv'
    PROVE  PoolInv'
<1>. DEFINE b == Rewards!build_candidate(n, s).block
            before == Rewards!recompute_reward_pool_balance(ledger)
            k == Len(ledger) + 1
<1>1. /\ ledger' = Append(ledger, b) /\ b.tips = pending /\ Rewards!validate_block(n, b, ledger)
      /\ Rewards!AfterTips(before, pending) >= MEME_BLOCK_REWARD + Rewards!Amount(b.rewards)
    BY DEF Rewards!accept_block_candidate, Rewards!build_candidate
<1>. HIDE DEF b
<1>2. /\ ledger \in Seq(Minted) /\ pending \in Nat /\ ledger' \in Seq(Minted)
      /\ MEME_BLOCK_REWARD \in Nat
    BY DEF PoolInv, RewardInv, RewardTypes, Rewards!RewardAssumption
<1>3. /\ Len(ledger) \in Nat /\ DOMAIN ledger = 1 .. Len(ledger)
      /\ DOMAIN ledger' = 1 .. k /\ ledger'[k] = b /\ Len(ledger') = k
      /\ \A i \in DOMAIN ledger : ledger'[i] = ledger[i]
    <2>. HIDE DEF Minted
    <2>. QED BY <1>1, <1>2
<1>4. b \in Minted
    <2>1. ledger'[k] \in Minted
        <3>. HIDE DEF Minted
        <3>. QED BY <1>2, <1>3
    <2>. QED BY <1>3, <2>1
<1>5. Payable(b)
    <2>1. IsFiniteSet(b.rewards)
        BY <1>4, RewardsAreFinite DEF Minted
    <2>2. \A r \in b.rewards : r.amount \in Int
        BY <1>1, PlansPayNumbers DEF Rewards!validate_block, Rewards!validate_voter_rewards
    <2>. QED BY <1>1, <1>2, <2>1, <2>2, AmountIsInt DEF Payable
<1>6. \A i \in DOMAIN ledger' : Payable(ledger'[i])
    BY <1>3, <1>5 DEF PoolInv
<1>7. before \in Int /\ Rewards!recompute_reward_pool_balance(ledger') = AfterBlock(before, b)
    <2>. HIDE DEF Minted
    <2>. QED BY <1>1, <1>2, <1>4, <1>5, PoolStep DEF PoolInv
<1>8. AfterBlock(before, b) >= 0
    <2>. DEFINE x == MEME_BLOCK_REWARD + Rewards!Amount(b.rewards)
    <2>1. x \in Int /\ before - x = before - MEME_BLOCK_REWARD - Rewards!Amount(b.rewards)
        BY <1>2, <1>5, <1>7 DEF Payable
    <2>2. Rewards!AfterTips(before, pending) >= x
        BY <1>1
    <2>. HIDE DEF x, before
    <2>3. Rewards!AfterTips(before - x, pending) >= 0
        BY <1>2, <1>7, <2>1, <2>2, TipsCoverPayments
    <2>. QED BY <1>1, <2>1, <2>3 DEF AfterBlock
<1>9. ASSUME NEW i \in 0 .. k PROVE Rewards!recompute_reward_pool_balance(SubSeq(ledger', 1, i)) >= 0
    <2>. HIDE DEF Minted
    <2>1. CASE i = k
        <3>1. SubSeq(ledger', 1, k) = ledger'
            BY <1>2, <1>3
        <3>. QED BY <1>7, <1>8, <2>1, <3>1
    <2>2. CASE i \in 0 .. Len(ledger)
        <3>1. SubSeq(ledger', 1, i) = SubSeq(ledger, 1, i)
            BY <1>1, <1>2, <1>4, <2>2, SameBeginning
        <3>. QED BY <2>2, <3>1 DEF PoolInv, Rewards!PoolNeverShort
    <2>. QED BY <1>3, <2>1, <2>2
<1>. QED BY <1>3, <1>6, <1>9 DEF PoolInv, Rewards!PoolNeverShort

LEMMA PoolInvNext ==
    ASSUME Rewards!RewardAssumption, FinitePlans, PoolInv, [Rewards!Next]_(Rewards!vars)
    PROVE  PoolInv'
<1>1. RewardInv'
    BY RewardInvNext DEF PoolInv
<1>2. CASE UNCHANGED ledger
    BY <1>1, <1>2 DEF PoolInv, Rewards!PoolNeverShort, Payable
<1>3. CASE \E n \in Nodes, s \in Rewards!Sub : Rewards!accept_block_candidate(n, s)
    BY <1>1, <1>3, PoolAccept
<1>4. \/ UNCHANGED ledger
      \/ \E n \in Nodes, s \in Rewards!Sub : Rewards!accept_block_candidate(n, s)
    BY DEF Rewards!Next, Rewards!vars, Rewards!Chain, Rewards!cast_submission_vote,
       Rewards!evaluate_submission, Rewards!_validate_block_extends_chain, Rewards!load_blockchain,
       Rewards!set_account_status, Rewards!current_day_window, Rewards!add_transaction
<1>. QED BY <1>2, <1>3, <1>4

\* The reward pool, computed again from the blocks of any beginning of the chain, is
\* never overdrawn, although the candidate counts the tips of the transactions that
\* are only paid into the pool after its rewards (recompute_reward_pool_balance,
\* build_candidate), and although they are split by what the pool then holds.
THEOREM PoolIsNeverShort ==
    ASSUME Rewards!RewardAssumption, FinitePlans PROVE Rewards!Spec => []Rewards!PoolNeverShort
<1>1. PoolInv => Rewards!PoolNeverShort
    BY DEF PoolInv
<1>. QED BY <1>1, PoolInvInit, PoolInvNext, PTL DEF Rewards!Spec

-----------------------------------------------------------------------------
(* Originality certificates                                                *)

LEMMA CardinalityOfVotes == ASSUME NEW S PROVE Certify!Cardinality(S) = Cardinality(S)
BY DEF Certify!Cardinality, Cardinality

Found(n) == {certs[n][i] : i \in DOMAIN certs[n]}
Penalty == [voter : Voters, start : Int]

CertTypes ==
    /\ now \in 0 .. MaxTime /\ tip \in 1 .. MaxHeight
    /\ head \in [Nodes -> 0 .. MaxHeight] /\ \A n \in Nodes : head[n] <= tip
    /\ penalties \in [Nodes -> SUBSET Penalty]
    /\ votes \in [Nodes -> SUBSET Certify!Vote]
    /\ certs \in [Nodes -> Seq(Certify!Certificate)]
    /\ status \in [Nodes -> {"pending", "approved", "rejected", "minted"}]
    /\ stops \in 0 .. MaxStops

\* A node has one vote of a voter, of a height the node had finalized.
VotesOK(n) ==
    /\ IsFiniteSet(votes[n])
    /\ \A v \in votes[n] : v.at <= head[n]
    /\ \A u, v \in votes[n] : u.voter = v.voter => u = v

\* What a node's own records say of a certificate it has; until it learns of a
\* penalty, they still say so.
Supported(n, c) ==
    /\ c \in Certify!Certificate
    /\ c.ref \in 0 .. tip /\ Certify!Approved(c.votes)
    /\ c.version = 2 => c.votes = Certify!build_protocol_v1_vote_set_payload(votes[n])
    /\ c.version = 3 =>
          /\ c.votes \subseteq votes[n] /\ c.ref \in 1 .. head[n]
          /\ Certify!Cardinality(c.votes) >= MIN_VALID_VOTES
          /\ Certify!EstablishedCount(c.snapshot) >= MIN_ESTABLISHED_VOTES
          /\ penalties[n] = {} =>
                /\ c.votes = Certify!get_certificate_v3_vote_context(n, c.ref)
                /\ c.snapshot = Certify!build_reviewer_snapshot(n, c.votes, c.ref)

\* A certificate of a submission that still waits was issued here, after all votes.
IssuedHere(n) ==
    status[n] = "pending" =>
        \A c \in Found(n) : c.version = 3 => \A v \in votes[n] : v.at <= c.ref

CertInv ==
    /\ CertTypes
    /\ \A n \in Nodes :
          /\ VotesOK(n) /\ IssuedHere(n)
          /\ \A c \in Found(n) : Supported(n, c)
          /\ Certify!Certified(n) => certs[n] # <<>>

LEMMA CertInvInit == ASSUME Certify!CertificateAssumption, Certify!Init PROVE CertInv
<1>1. CertTypes /\ certs = [n \in Nodes |-> <<>>]
    BY DEF Certify!CertificateAssumption, Certify!Init, CertTypes
<1>2. \A n \in Nodes : Found(n) = {} /\ VotesOK(n) /\ ~Certify!Certified(n)
    BY <1>1, FS_EmptySet DEF Certify!Init, Found, VotesOK, Certify!Certified
<1>. QED BY <1>1, <1>2 DEF CertInv, IssuedHere

-----------------------------------------------------------------------------
(* Standing without penalties *)

\* Whether a voter may review at a height, as long as nothing is held against it.
MayReview(w, h) == h >= EstablishedAt[w] \/ h >= QualifiedAt[w]

LEMMA StandingWithoutPenalty ==
    ASSUME NEW n \in Nodes, penalties[n] = {}, NEW w \in Voters, NEW h \in Nat
    PROVE  /\ Certify!get_reviewer_status_at_reference(n, w, h) =
                 IF h >= EstablishedAt[w] THEN "established"
                 ELSE IF h >= QualifiedAt[w] THEN "probationary" ELSE "ineligible"
           /\ Certify!get_reviewer_status_at_reference(n, w, h) # "ineligible" <=> MayReview(w, h)
BY DEF Certify!get_reviewer_status_at_reference, MayReview

\* Which votes count then at a finalized reference.
LEMMA ContextWithoutPenalty ==
    ASSUME CertTypes, NEW n \in Nodes, penalties[n] = {}, NEW h \in 1 .. head[n]
    PROVE  Certify!get_certificate_v3_vote_context(n, h) =
              {v \in votes[n] : v.at \in 1 .. head[n] /\ MayReview(v.voter, v.at) /\ MayReview(v.voter, h)}
<1>1. \A v \in votes[n] : v.voter \in Voters /\ v.at \in Nat
    BY DEF CertTypes, Certify!Vote
<1>2. h \in Nat
    BY DEF CertTypes
<1>3. \A v \in votes[n] :
         (/\ Certify!validate_certificate_v3_vote_record(n, v)
          /\ Certify!get_reviewer_status_at_reference(n, v.voter, h) # "ineligible")
         <=> (v.at \in 1 .. head[n] /\ MayReview(v.voter, v.at) /\ MayReview(v.voter, h))
    BY <1>1, <1>2, StandingWithoutPenalty
       DEF Certify!validate_certificate_v3_vote_record, Certify!is_finalized_canonical_reference
<1>4. Certify!is_finalized_canonical_reference(n, h)
    BY DEF Certify!is_finalized_canonical_reference
<1>. QED BY <1>3, <1>4, Zenon DEF Certify!get_certificate_v3_vote_context

LEMMA SnapshotWithoutPenalty ==
    ASSUME NEW n \in Nodes, penalties[n] = {}, NEW V \in SUBSET Certify!Vote, NEW h \in Nat
    PROVE  Certify!build_reviewer_snapshot(n, V, h) =
              {[voter |-> v.voter, status |->
                   IF h >= EstablishedAt[v.voter] THEN "established"
                   ELSE IF h >= QualifiedAt[v.voter] THEN "probationary" ELSE "ineligible"] : v \in V}
<1>1. \A v \in V : Certify!get_reviewer_status_at_reference(n, v.voter, h) =
                     IF h >= EstablishedAt[v.voter] THEN "established"
                     ELSE IF h >= QualifiedAt[v.voter] THEN "probationary" ELSE "ineligible"
    BY StandingWithoutPenalty DEF Certify!Vote
<1>. QED BY <1>1 DEF Certify!build_reviewer_snapshot

\* A node's records go on supporting a certificate while chain and finality grow.
LEMMA SupportStays ==
    ASSUME Certify!CertificateAssumption, CertTypes, CertTypes', NEW n \in Nodes, VotesOK(n), NEW c, Supported(n, c),
           votes'[n] = votes[n], tip' >= tip, head'[n] >= head[n],
           penalties'[n] = {} => penalties[n] = {}
    PROVE  Supported(n, c)'
<1>1. /\ tip \in Nat /\ tip' \in Nat /\ head[n] \in Nat /\ head'[n] \in Nat /\ c.ref \in Nat
      /\ 0 .. tip \subseteq 0 .. tip' /\ 1 .. head[n] \subseteq 1 .. head'[n]
    <2>1. MaxHeight \in Nat /\ tip \in Nat /\ tip' \in Nat /\ head[n] \in Nat /\ head'[n] \in Nat
        BY DEF CertTypes, Certify!CertificateAssumption
    <2>2. c.ref \in Nat
        BY <2>1 DEF Supported
    <2>. QED BY <2>1, <2>2
<1>2. Certify!build_protocol_v1_vote_set_payload(votes'[n]) = Certify!build_protocol_v1_vote_set_payload(votes[n])
    BY DEF Certify!build_protocol_v1_vote_set_payload
<1>3. ASSUME c.version = 3, penalties'[n] = {}
      PROVE  /\ c.votes = Certify!get_certificate_v3_vote_context(n, c.ref)'
             /\ c.snapshot = Certify!build_reviewer_snapshot(n, c.votes, c.ref)'
    <2>1. /\ penalties[n] = {} /\ c.ref \in 1 .. head[n] /\ c.ref \in 1 .. head'[n]
          /\ c.votes = Certify!get_certificate_v3_vote_context(n, c.ref)
          /\ c.snapshot = Certify!build_reviewer_snapshot(n, c.votes, c.ref)
          /\ c.votes \in SUBSET Certify!Vote
        BY <1>1, <1>3 DEF Supported, Certify!Certificate
    <2>2. \A w, h : Certify!get_reviewer_status_at_reference(n, w, h)' = Certify!get_reviewer_status_at_reference(n, w, h)
        BY <1>3, <2>1 DEF Certify!get_reviewer_status_at_reference
    <2>3. \A v \in votes[n] : v.at \in 1 .. head[n] <=> v.at \in 1 .. head'[n]
        BY <1>1 DEF VotesOK, CertTypes, Certify!Vote
    <2>4. c.votes = Certify!get_certificate_v3_vote_context(n, c.ref)'
        <3>1. \A v \in votes[n] : Certify!validate_certificate_v3_vote_record(n, v)'
                                <=> Certify!validate_certificate_v3_vote_record(n, v)
            BY <2>2, <2>3 DEF Certify!validate_certificate_v3_vote_record, Certify!is_finalized_canonical_reference
        <3>2. Certify!is_finalized_canonical_reference(n, c.ref) /\ Certify!is_finalized_canonical_reference(n, c.ref)'
            BY <2>1 DEF Certify!is_finalized_canonical_reference
        <3>. QED BY <2>1, <2>2, <3>1, <3>2 DEF Certify!get_certificate_v3_vote_context
    <2>5. Certify!build_reviewer_snapshot(n, c.votes, c.ref)' = Certify!build_reviewer_snapshot(n, c.votes, c.ref)
        BY <2>2 DEF Certify!build_reviewer_snapshot
    <2>. QED BY <2>1, <2>4, <2>5
<1>4. Certify!EstablishedCount(c.snapshot) >= MIN_ESTABLISHED_VOTES
         <=> Certify!EstablishedCount(c.snapshot)' >= MIN_ESTABLISHED_VOTES
    BY DEF Certify!EstablishedCount
<1>. QED BY <1>1, <1>2, <1>3, <1>4 DEF Supported

-----------------------------------------------------------------------------
(* Counting *)

\* One vote of a voter.
OneEach(V) == IsFiniteSet(V) /\ V \subseteq Certify!Vote /\ \A u, v \in V : u.voter = v.voter => u = v

LEMMA PayloadCardinality ==
    ASSUME NEW V, OneEach(V)
    PROVE  /\ IsFiniteSet(Certify!build_protocol_v1_vote_set_payload(V))
           /\ Cardinality(Certify!build_protocol_v1_vote_set_payload(V)) = Cardinality(V)
<1>. DEFINE P == {[voter |-> v.voter, at |-> 0] : v \in V}
            f == [v \in V |-> [voter |-> v.voter, at |-> 0]]
<1>1. f \in [V -> P] /\ \A u, v \in V : f[u] = f[v] => u = v
    BY DEF OneEach, Certify!Vote
<1>2. \A p \in P : \E v \in V : f[v] = p
    OBVIOUS
<1>3. ExistsBijection(V, P)
    BY <1>1, <1>2 DEF ExistsBijection, Bijection, Injection, Surjection, IsInjective
<1>4. IsFiniteSet(P) /\ Cardinality(V) = Cardinality(P)
    BY <1>3, FS_Bijection DEF OneEach
<1>. QED BY <1>4 DEF Certify!build_protocol_v1_vote_set_payload

LEMMA PayloadCount ==
    ASSUME NEW V, OneEach(V)
    PROVE  \A x : Certify!Count(Certify!build_protocol_v1_vote_set_payload(V), x) = Certify!Count(V, x)
<1>1. SUFFICES ASSUME NEW x
      PROVE Certify!Count(Certify!build_protocol_v1_vote_set_payload(V), x) = Certify!Count(V, x)
    OBVIOUS
<1>. DEFINE W == {v \in V : Choice[v.voter] = x}
<1>2. OneEach(W)
    BY FS_Subset DEF OneEach
<1>3. {p \in Certify!build_protocol_v1_vote_set_payload(V) : Choice[p.voter] = x}
        = Certify!build_protocol_v1_vote_set_payload(W)
    BY DEF Certify!build_protocol_v1_vote_set_payload
<1>4. Cardinality(Certify!build_protocol_v1_vote_set_payload(W)) = Cardinality(W)
    BY <1>2, PayloadCardinality
<1>. HIDE DEF W
<1>5. Certify!Cardinality(Certify!build_protocol_v1_vote_set_payload(W)) = Certify!Cardinality(W)
    BY <1>4, CardinalityOfVotes
<1>. QED BY <1>3, <1>5 DEF Certify!Count, W

LEMMA PayloadApproves ==
    ASSUME NEW V, OneEach(V), Certify!Approved(V)
    PROVE  Certify!Approved(Certify!build_protocol_v1_vote_set_payload(V))
BY PayloadCount DEF Certify!Approved

\* Nothing is approved without votes.
LEMMA ApprovalTakesVotes ==
    ASSUME NEW V, IsFiniteSet(V), Certify!Approved(V)
    PROVE  Certify!Cardinality(V) >= 1 /\ Certify!Cardinality(V) \in Nat
<1>1. ASSUME V = {} PROVE FALSE
    <2>1. \A x : Certify!Count(V, x) = 0
        BY <1>1, CardinalityOfVotes, FS_EmptySet DEF Certify!Count
    <2>. QED BY <2>1 DEF Certify!Approved
<1>2. Cardinality(V) \in Nat /\ Cardinality(V) # 0
    BY <1>1, FS_CardinalityType, FS_EmptySet
<1>. QED BY <1>2, CardinalityOfVotes

-----------------------------------------------------------------------------
(* A certificate issued from a node's own votes *)

LEMMA ContextIsOfOwnVotes ==
    ASSUME NEW n, NEW h
    PROVE  /\ Certify!get_certificate_v3_vote_context(n, h) \subseteq votes[n]
           /\ \A v \in Certify!get_certificate_v3_vote_context(n, h) :
                 Certify!get_reviewer_status_at_reference(n, v.voter, h) # "ineligible"
BY DEF Certify!get_certificate_v3_vote_context

LEMMA FreshIsSupported ==
    ASSUME Certify!CertificateAssumption, CertTypes, NEW n \in Nodes, VotesOK(n),
           Certify!Ready(n), Certify!Passed(n)
    PROVE  LET c == Certify!from_approved_submission(n, head[n] > 0)
           IN  Supported(n, c) /\ (c.version = 3 => c.ref = head[n])
<1>. DEFINE c == Certify!from_approved_submission(n, head[n] > 0)
            V == Certify!get_certificate_v3_vote_context(n, head[n])
<1>0. /\ head[n] \in 0 .. MaxHeight /\ head[n] <= tip /\ tip \in 1 .. MaxHeight /\ MaxHeight \in Nat
      /\ now \in 0 .. MaxTime /\ MinimumVotes[now] \in Nat /\ MIN_VALID_VOTES \in Nat
      /\ OneEach(votes[n])
    BY DEF CertTypes, Certify!CertificateAssumption, VotesOK, OneEach
<1>1. CASE head[n] > 0
    <2>. DEFINE S == Certify!build_reviewer_snapshot(n, V, head[n])
    <2>1. V \subseteq votes[n] /\ V \in SUBSET Certify!Vote
        BY <1>0, ContextIsOfOwnVotes DEF OneEach
    <2>2. S \in SUBSET [voter : Voters, status : {"established", "probationary"}]
        <3>1. \A v \in V : /\ v.voter \in Voters
                           /\ Certify!get_reviewer_status_at_reference(n, v.voter, head[n]) \in {"established", "probationary"}
            BY <2>1, ContextIsOfOwnVotes DEF Certify!get_reviewer_status_at_reference, Certify!Vote
        <3>. HIDE DEF V
        <3>. QED BY <3>1 DEF Certify!build_reviewer_snapshot
    <2>3. /\ Certify!Approved(V) /\ Certify!Cardinality(V) >= MIN_VALID_VOTES
          /\ Certify!EstablishedCount(S) >= MIN_ESTABLISHED_VOTES
        BY <1>1 DEF Certify!Ready, Certify!Passed
    <2>4. c = [version |-> 3, votes |-> V, ref |-> head[n], snapshot |-> S,
               minimum |-> MIN_VALID_VOTES, approved_at |-> now, issuer |-> n]
        BY <1>1 DEF Certify!from_approved_submission, Certify!calculate_vote_hash,
                    Certify!build_milestone5_vote_set_payload_v3
    <2>. HIDE DEF V, S, c
    <2>5. c \in Certify!Certificate
        BY <1>0, <2>1, <2>2, <2>4 DEF Certify!Certificate
    <2>6. /\ c.version = 3 /\ c.votes = V /\ c.ref = head[n] /\ c.snapshot = S
          /\ c.ref \in 1 .. head[n] /\ c.ref \in 0 .. tip
        BY <1>0, <1>1, <2>4
    <2>7. V = Certify!get_certificate_v3_vote_context(n, c.ref)
          /\ S = Certify!build_reviewer_snapshot(n, V, c.ref)
        BY <2>6 DEF V, S
    <2>8. Supported(n, c)
        BY <2>1, <2>3, <2>5, <2>6, <2>7 DEF Supported
    <2>. QED BY <2>6, <2>8 DEF c
<1>2. CASE ~(head[n] > 0)
    <2>. DEFINE P == Certify!build_protocol_v1_vote_set_payload(votes[n])
    <2>1. c = [version |-> 2, votes |-> P, ref |-> tip, snapshot |-> {},
               minimum |-> MinimumVotes[now], approved_at |-> now, issuer |-> n]
        BY <1>2 DEF Certify!from_approved_submission, Certify!calculate_vote_hash
    <2>2. Certify!Approved(P)
        BY <1>0, <1>2, PayloadApproves DEF Certify!Passed
    <2>3. P \in SUBSET Certify!Vote
        BY <1>0 DEF Certify!build_protocol_v1_vote_set_payload, Certify!Vote, OneEach
    <2>4. P = Certify!build_protocol_v1_vote_set_payload(votes[n])
        OBVIOUS
    <2>. HIDE DEF P, c
    <2>5. c \in Certify!Certificate
        BY <1>0, <2>1, <2>3 DEF Certify!Certificate
    <2>6. c.version = 2 /\ c.votes = P /\ c.ref = tip /\ tip \in 0 .. tip
        BY <1>0, <2>1
    <2>7. Supported(n, c)
        BY <2>2, <2>4, <2>5, <2>6 DEF Supported
    <2>. QED BY <2>6, <2>7 DEF c
<1>. QED BY <1>1, <1>2

-----------------------------------------------------------------------------
(* Steps *)

Elements(s) == {s[i] : i \in DOMAIN s}

LEMMA FoundAppended ==
    ASSUME NEW S, NEW s \in Seq(S), NEW c \in S
    PROVE  /\ Append(s, c) \in Seq(S) /\ Append(s, c) # <<>>
           /\ Elements(Append(s, c)) = Elements(s) \union {c}
           /\ s # <<>> => Head(Append(s, c)) = Head(s)
<1>1. DOMAIN Append(s, c) = 1 .. (Len(s) + 1) /\ DOMAIN s = 1 .. Len(s) /\ Len(s) \in Nat
    OBVIOUS
<1>2. (\A i \in 1 .. Len(s) : Append(s, c)[i] = s[i]) /\ Append(s, c)[Len(s) + 1] = c
    OBVIOUS
<1>. QED BY <1>1, <1>2 DEF Elements

LEMMA HeadIsFound ==
    ASSUME CertTypes, NEW n \in Nodes, certs[n] # <<>>
    PROVE  Head(certs[n]) \in Found(n) /\ Head(certs[n]) \in Certify!ToSet(certs[n])
<1>1. certs[n] \in Seq(Certify!Certificate)
    BY DEF CertTypes
<1>2. 1 \in DOMAIN certs[n] /\ Head(certs[n]) = certs[n][1]
    BY <1>1
<1>. QED BY <1>2 DEF Found, Certify!ToSet

\* What an evaluation stores is supported, and only a first certificate is new.
LEMMA IssuedIsSupported ==
    ASSUME Certify!CertificateAssumption, CertInv, NEW n \in Nodes,
           certs[n] = <<>> => Certify!Ready(n) /\ Certify!Passed(n),
           certs' = [certs EXCEPT ![n] =
               IF Certify!create_originality_certificate(n) \in Certify!ToSet(@) THEN @
               ELSE Append(@, Certify!create_originality_certificate(n))]
    PROVE  /\ certs' \in [Nodes -> Seq(Certify!Certificate)]
           /\ certs'[n] # <<>>
           /\ \A m \in Nodes \ {n} : certs'[m] = certs[m]
           /\ certs[n] # <<>> => certs'[n] = certs[n]
           /\ certs[n] = <<>> =>
                 \A c \in {certs'[n][i] : i \in DOMAIN certs'[n]} :
                    Supported(n, c) /\ (c.version = 3 => c.ref = head[n])
           /\ certs[n] = <<>> => {certs'[n][i] : i \in DOMAIN certs'[n]} = {Certify!create_originality_certificate(n)}
<1>. DEFINE c == Certify!create_originality_certificate(n)
            after == IF c \in Certify!ToSet(certs[n]) THEN certs[n] ELSE Append(certs[n], c)
<1>1. certs \in [Nodes -> Seq(Certify!Certificate)] /\ certs[n] \in Seq(Certify!Certificate)
    BY DEF CertInv, CertTypes
<1>2. certs' = [certs EXCEPT ![n] = after]
    BY <1>1
<1>3. CASE certs[n] # <<>>
    <2>1. c = Head(certs[n]) /\ c \in Certify!ToSet(certs[n])
        BY <1>3, HeadIsFound DEF CertInv, Certify!create_originality_certificate
    <2>2. after = certs[n]
        BY <2>1
    <2>. HIDE DEF after, c
    <2>. QED BY <1>1, <1>2, <1>3, <2>2
<1>4. CASE certs[n] = <<>>
    <2>1. c = Certify!from_approved_submission(n, head[n] > 0)
        BY <1>4 DEF Certify!create_originality_certificate
    <2>2. Supported(n, c) /\ (c.version = 3 => c.ref = head[n])
        BY <1>4, <2>1, FreshIsSupported DEF CertInv
    <2>3. c \notin Certify!ToSet(certs[n])
        BY <1>4 DEF Certify!ToSet
    <2>4. after = Append(certs[n], c)
        BY <2>3
    <2>5. c \in Certify!Certificate
        BY <2>2 DEF Supported
    <2>6. {certs[n][i] : i \in DOMAIN certs[n]} = {}
        BY <1>4
    <2>. HIDE DEF c
    <2>7. /\ after \in Seq(Certify!Certificate) /\ after # <<>>
          /\ {after[i] : i \in DOMAIN after} = {c}
        <3>1. Elements(certs[n]) = {}
            BY <2>6 DEF Elements
        <3>2. /\ Append(certs[n], c) \in Seq(Certify!Certificate) /\ Append(certs[n], c) # <<>>
              /\ Elements(Append(certs[n], c)) = Elements(certs[n]) \union {c}
            BY <1>1, <2>5, FoundAppended
        <3>3. Elements(after) = {c} /\ after \in Seq(Certify!Certificate) /\ after # <<>>
            BY <2>4, <3>1, <3>2
        <3>. HIDE DEF after
        <3>. QED BY <3>3 DEF Elements
    <2>. HIDE DEF after
    <2>8. certs' \in [Nodes -> Seq(Certify!Certificate)] /\ certs'[n] = after
          /\ \A m \in Nodes \ {n} : certs'[m] = certs[m]
        BY <1>1, <1>2, <2>7
    <2>. QED BY <1>4, <2>2, <2>7, <2>8 DEF c
<1>. QED BY <1>3, <1>4

\* A node whose certificates stay keeps its part of the invariant.
NodeOK(n) ==
    /\ VotesOK(n) /\ IssuedHere(n)
    /\ \A c \in Found(n) : Supported(n, c)
    /\ Certify!Certified(n) => certs[n] # <<>>

LEMMA NodeStays ==
    ASSUME Certify!CertificateAssumption, CertTypes, CertTypes', NEW n \in Nodes, NodeOK(n),
           votes'[n] = votes[n], tip' >= tip, head'[n] >= head[n],
           penalties'[n] = {} => penalties[n] = {},
           certs'[n] = certs[n],
           status'[n] = status[n] \/ (status'[n] \in {"approved", "minted"} /\ certs[n] # <<>>)
              \/ status'[n] = "rejected"
    PROVE  NodeOK(n)'
<1>1. VotesOK(n)'
    BY DEF VotesOK, NodeOK, CertTypes, Certify!Vote, Certify!CertificateAssumption
<1>2. Found(n)' = Found(n)
    BY DEF Found
<1>3. \A c \in Found(n) : Supported(n, c)'
    BY SupportStays DEF NodeOK
<1>4. IssuedHere(n)'
    BY <1>2 DEF NodeOK, IssuedHere
<1>5. Certify!Certified(n)' => certs'[n] # <<>>
    BY DEF NodeOK, Certify!Certified
<1>. QED BY <1>1, <1>2, <1>3, <1>4, <1>5 DEF NodeOK

LEMMA CertInvIsByNode ==
    /\ CertInv <=> CertTypes /\ \A n \in Nodes : NodeOK(n)
    /\ CertInv' <=> CertTypes' /\ \A n \in Nodes : NodeOK(n)'
BY DEF CertInv, NodeOK

\* A vote: only where no certificate is.
LEMMA VoteKeeps ==
    ASSUME Certify!CertificateAssumption, CertInv, NEW n \in Nodes, NEW v \in Certify!Vote,
           Certify!Votable(n, v.voter), v.at <= head[n],
           votes' = [votes EXCEPT ![n] = @ \union {v}],
           UNCHANGED <<penalties, certs, link, status, block, stops, now, tip, head>>
    PROVE  CertInv'
<1>1. CertTypes'
    BY DEF CertInv, CertTypes, Certify!Certificate, Certify!Vote
<1>2. certs[n] = <<>> /\ \A u \in votes[n] : u.voter # v.voter
    BY DEF Certify!Votable, Certify!is_submission_voting_locked
<1>3. votes'[n] = votes[n] \union {v} /\ \A m \in Nodes \ {n} : votes'[m] = votes[m]
    BY DEF CertInv, CertTypes
<1>4. VotesOK(n)'
    <2>1. IsFiniteSet(votes[n] \union {v})
        BY FS_AddElement DEF CertInv, VotesOK
    <2>. QED BY <1>2, <1>3, <2>1 DEF CertInv, VotesOK
<1>5. NodeOK(n)'
    <2>1. Found(n)' = {} /\ certs'[n] = <<>>
        BY <1>2 DEF Found
    <2>2. Certify!Certified(n)' <=> Certify!Certified(n)
        BY DEF Certify!Certified
    <2>. QED BY <1>2, <1>4, <2>1, <2>2, CertInvIsByNode DEF NodeOK, IssuedHere
<1>6. \A m \in Nodes \ {n} : NodeOK(m)'
    <2>1. tip \in Nat /\ \A m \in Nodes : head[m] \in Nat
        BY DEF CertInv, CertTypes, Certify!CertificateAssumption
    <2>. QED BY <1>1, <1>3, <2>1, NodeStays, CertInvIsByNode
<1>. QED BY <1>1, <1>5, <1>6, CertInvIsByNode

\* Time, chain, finality, penalties and blocks.
LEMMA RestKeeps ==
    ASSUME Certify!CertificateAssumption, CertInv,
           votes' = votes, certs' = certs, tip' >= tip, CertTypes',
           \A m \in Nodes : head'[m] >= head[m] /\ (penalties'[m] = {} => penalties[m] = {}),
           \A m \in Nodes : status'[m] = status[m] \/ status'[m] = "rejected"
                \/ (status'[m] \in {"approved", "minted"} /\ certs[m] # <<>>)
    PROVE  CertInv'
BY NodeStays, CertInvIsByNode

LEMMA EvaluationKeeps ==
    ASSUME Certify!CertificateAssumption, CertInv, NEW n \in Nodes,
           certs[n] = <<>> => Certify!Ready(n) /\ Certify!Passed(n),
           certs' = [certs EXCEPT ![n] =
               IF Certify!create_originality_certificate(n) \in Certify!ToSet(@) THEN @
               ELSE Append(@, Certify!create_originality_certificate(n))],
           \/ UNCHANGED status
           \/ status' = [status EXCEPT ![n] = "approved"],
           stops' \in 0 .. MaxStops,
           UNCHANGED <<penalties, votes, now, tip, head>>
    PROVE  CertInv'
<1>1. /\ certs' \in [Nodes -> Seq(Certify!Certificate)]
      /\ certs'[n] # <<>>
      /\ \A m \in Nodes \ {n} : certs'[m] = certs[m]
      /\ certs[n] # <<>> => certs'[n] = certs[n]
      /\ certs[n] = <<>> =>
            \A c \in Found(n)' : Supported(n, c) /\ (c.version = 3 => c.ref = head[n])
    BY IssuedIsSupported DEF Found
<1>2. CertTypes'
    BY <1>1 DEF CertInv, CertTypes
<1>3. status \in [Nodes -> {"pending", "approved", "rejected", "minted"}]
    BY DEF CertInv, CertTypes
<1>4. /\ tip' >= tip /\ \A m \in Nodes : head'[m] >= head[m]
      /\ \A m \in Nodes \ {n} : status'[m] = status[m]
      /\ status'[n] = status[n] \/ status'[n] = "approved"
    <2>1. tip \in Nat /\ \A m \in Nodes : head[m] \in Nat
        BY DEF CertInv, CertTypes, Certify!CertificateAssumption
    <2>. QED BY <1>3, <2>1
<1>5. \A m \in Nodes \ {n} : NodeOK(m)'
    BY <1>1, <1>2, <1>4, NodeStays, CertInvIsByNode
<1>6. CASE certs[n] # <<>>
    <2>1. NodeOK(n)'
        BY <1>1, <1>2, <1>4, <1>6, NodeStays, CertInvIsByNode
    <2>. QED BY <1>2, <1>5, <2>1, CertInvIsByNode
<1>7. CASE certs[n] = <<>>
    <2>1. \A c \in Found(n)' : Supported(n, c)'
        <3>1. VotesOK(n) /\ CertTypes
            BY DEF CertInv
        <3>. QED BY <1>1, <1>2, <1>4, <1>7, <3>1, SupportStays
    <2>2. VotesOK(n)'
        BY DEF CertInv, VotesOK
    <2>3. IssuedHere(n)'
        BY <1>1, <1>7 DEF IssuedHere, CertInv, VotesOK
    <2>4. NodeOK(n)'
        BY <1>1, <2>1, <2>2, <2>3 DEF NodeOK
    <2>. QED BY <1>2, <1>5, <2>4, CertInvIsByNode
<1>. QED BY <1>6, <1>7

LEMMA TransferKeeps ==
    ASSUME Certify!CertificateAssumption, CertInv, NEW n \in Nodes, NEW m \in Nodes,
           NEW c \in Found(m), Certify!_store_peer_certificate(n, c)
    PROVE  CertInv' /\ Found(n)' = Found(n) \union {c}
<1>1. c \in Certify!Certificate
    BY DEF CertInv, Supported
<1>2. /\ Certify!Approved(c.votes) /\ c.ref \in 0 .. tip
      /\ Certify!_validate_certificate_vote_set_against_local_submission(n, c)
      /\ c.version = 3 => Certify!ValidQuorum(n, c, Certify!get_certificate_v3_vote_context(n, c.ref))
    BY DEF Certify!_store_peer_certificate, Certify!validate_originality_certificate,
           Certify!validate_certificate_for_submission
<1>3. Supported(n, c)
    <2>1. c.version = 2 => c.votes = Certify!build_protocol_v1_vote_set_payload(votes[n])
        BY <1>2 DEF Certify!_validate_certificate_vote_set_against_local_submission, Certify!calculate_vote_hash
    <2>2. ASSUME c.version = 3
          PROVE  /\ c.votes \subseteq votes[n] /\ c.ref \in 1 .. head[n]
                 /\ Certify!Cardinality(c.votes) >= MIN_VALID_VOTES
                 /\ Certify!EstablishedCount(c.snapshot) >= MIN_ESTABLISHED_VOTES
                 /\ c.votes = Certify!get_certificate_v3_vote_context(n, c.ref)
                 /\ c.snapshot = Certify!build_reviewer_snapshot(n, c.votes, c.ref)
        <3>1. Certify!ValidQuorum(n, c, Certify!get_certificate_v3_vote_context(n, c.ref))
            BY <1>2, <2>2
        <3>2. Certify!get_certificate_v3_vote_context(n, c.ref) = c.votes
            BY <3>1 DEF Certify!ValidQuorum
        <3>3. /\ Certify!is_finalized_canonical_reference(n, c.ref)
              /\ Certify!build_reviewer_snapshot(n, c.votes, c.ref) = c.snapshot
              /\ Certify!Cardinality(c.votes) >= MIN_VALID_VOTES
              /\ Certify!EstablishedCount(c.snapshot) >= MIN_ESTABLISHED_VOTES
            BY <3>1, <3>2 DEF Certify!ValidQuorum
        <3>4. c.votes \subseteq votes[n]
            BY <3>2, ContextIsOfOwnVotes
        <3>. QED BY <3>2, <3>3, <3>4 DEF Certify!is_finalized_canonical_reference
    <2>. QED BY <1>1, <1>2, <2>1, <2>2 DEF Supported
<1>4. certs' = [certs EXCEPT ![n] = Append(@, c)]
      /\ status' = [status EXCEPT ![n] = IF @ = "pending" THEN "approved" ELSE @]
      /\ UNCHANGED <<penalties, votes, now, tip, head, stops>>
    BY DEF Certify!_store_peer_certificate, Certify!Clock
<1>5. /\ certs' \in [Nodes -> Seq(Certify!Certificate)] /\ certs'[n] = Append(certs[n], c)
      /\ \A k \in Nodes \ {n} : certs'[k] = certs[k]
    <2>1. Append(certs[n], c) \in Seq(Certify!Certificate) /\ certs \in [Nodes -> Seq(Certify!Certificate)]
        BY <1>1, FoundAppended DEF CertInv, CertTypes
    <2>. QED BY <1>4, <2>1
<1>6. certs'[n] # <<>> /\ Found(n)' = Found(n) \union {c}
    <2>1. certs[n] \in Seq(Certify!Certificate)
        BY DEF CertInv, CertTypes
    <2>2. Append(certs[n], c) # <<>> /\ Elements(Append(certs[n], c)) = Elements(certs[n]) \union {c}
        BY <1>1, <2>1, FoundAppended
    <2>3. Found(n) = Elements(certs[n]) /\ Found(n)' = Elements(certs'[n])
        BY DEF Found, Elements
    <2>. QED BY <1>5, <2>2, <2>3
<1>7. /\ status' \in [Nodes -> {"pending", "approved", "rejected", "minted"}] /\ status'[n] # "pending"
      /\ \A k \in Nodes \ {n} : status'[k] = status[k]
    BY <1>4 DEF CertInv, CertTypes
<1>8. CertTypes'
    BY <1>4, <1>5, <1>7 DEF CertInv, CertTypes
<1>9. tip' >= tip /\ \A k \in Nodes : head'[k] >= head[k]
    <2>1. tip \in Nat /\ \A k \in Nodes : head[k] \in Nat
        BY DEF CertInv, CertTypes, Certify!CertificateAssumption
    <2>. QED BY <1>4, <2>1
<1>10. \A k \in Nodes \ {n} : NodeOK(k)'
    BY <1>4, <1>5, <1>7, <1>8, <1>9, NodeStays, CertInvIsByNode
<1>11. NodeOK(n)'
    <2>1. \A d \in Found(n) \union {c} : Supported(n, d)'
        <3>1. VotesOK(n) /\ CertTypes /\ \A d \in Found(n) \union {c} : Supported(n, d)
            BY <1>3 DEF CertInv
        <3>. QED BY <1>4, <1>8, <1>9, <3>1, SupportStays
    <2>2. VotesOK(n)'
        BY <1>4 DEF CertInv, VotesOK
    <2>. QED BY <1>6, <1>7, <2>1, <2>2 DEF NodeOK, IssuedHere
<1>. QED BY <1>6, <1>8, <1>10, <1>11, CertInvIsByNode

LEMMA CertInvNext ==
    ASSUME Certify!CertificateAssumption, CertInv, [Certify!Next]_(Certify!vars) PROVE CertInv'
<1>0. /\ CertTypes /\ MaxHeight \in Nat /\ tip \in Nat /\ now \in Nat
      /\ \A n \in Nodes : head[n] \in Nat
    BY DEF CertInv, CertTypes, Certify!CertificateAssumption
<1>1. CASE Certify!Tick \/ Certify!Grow
    <2>1. CertTypes'
        BY <1>0, <1>1 DEF Certify!Tick, Certify!Grow, CertTypes, Certify!Records, Certify!CertificateAssumption
    <2>. QED BY <1>0, <1>1, <2>1, RestKeeps DEF Certify!Tick, Certify!Grow, Certify!Records
<1>2. ASSUME NEW n \in Nodes, Certify!finalize(n) PROVE CertInv'
    <2>1. /\ head' = [head EXCEPT ![n] = @ + 1] /\ head[n] < tip
          /\ UNCHANGED <<now, tip, penalties, votes, certs, link, status, block, stops>>
        BY <1>2 DEF Certify!finalize, Certify!Records
    <2>2. /\ head' \in [Nodes -> 0 .. MaxHeight] /\ \A m \in Nodes : head'[m] <= tip
          /\ \A m \in Nodes : head'[m] >= head[m]
        BY <1>0, <2>1 DEF CertTypes
    <2>3. CertTypes'
        BY <2>1, <2>2 DEF CertInv, CertTypes
    <2>. QED BY <1>0, <2>1, <2>2, <2>3, RestKeeps
<1>3. ASSUME NEW n \in Nodes, NEW w \in Voters, Certify!cast_submission_vote(n, w) PROVE CertInv'
    <2>. DEFINE v == [voter |-> w, at |-> head[n]]
    <2>1. v \in Certify!Vote /\ v.voter = w /\ v.at <= head[n]
        BY <1>0 DEF Certify!Vote, CertTypes
    <2>2. /\ Certify!Votable(n, w) /\ votes' = [votes EXCEPT ![n] = @ \union {v}]
          /\ UNCHANGED <<penalties, certs, link, status, block, stops, now, tip, head>>
        BY <1>3 DEF Certify!cast_submission_vote, Certify!Clock
    <2>. HIDE DEF v
    <2>. QED BY <2>1, <2>2, VoteKeeps
<1>4. ASSUME NEW n \in Nodes, NEW m \in Nodes, NEW v \in votes[m], Certify!receive_peer_vote(n, v) PROVE CertInv'
    <2>1. v \in Certify!Vote
        BY DEF CertInv, CertTypes
    <2>2. v.at <= head[n]
        BY <1>0, <1>4, <2>1 DEF Certify!receive_peer_vote, Certify!Vote
    <2>3. /\ Certify!Votable(n, v.voter) /\ votes' = [votes EXCEPT ![n] = @ \union {v}]
          /\ UNCHANGED <<penalties, certs, link, status, block, stops, now, tip, head>>
        BY <1>4 DEF Certify!receive_peer_vote, Certify!Clock
    <2>. QED BY <2>1, <2>2, <2>3, VoteKeeps
<1>5. ASSUME NEW n \in Nodes, NEW w \in Voters, Certify!record_reviewer_offense(n, w) PROVE CertInv'
    <2>. DEFINE p == [voter |-> w, start |-> Certify!review_epoch(head[n])]
    <2>1. p \in Penalty
        <3>1. REVIEW_EPOCH_BLOCKS \in Nat \ {0} /\ head[n] \in Nat
            BY <1>0 DEF Certify!CertificateAssumption
        <3>2. Certify!review_epoch(head[n]) \in Int
            BY <3>1 DEF Certify!review_epoch
        <3>. QED BY <3>2 DEF Penalty
    <2>2. /\ penalties' = [penalties EXCEPT ![n] = @ \union {p}]
          /\ UNCHANGED <<votes, certs, link, status, block, stops, now, tip, head>>
        BY <1>5 DEF Certify!record_reviewer_offense, Certify!Clock
    <2>. HIDE DEF p
    <2>3. penalties' \in [Nodes -> SUBSET Penalty] /\ \A m \in Nodes : penalties'[m] = {} => penalties[m] = {}
        BY <1>0, <2>1, <2>2 DEF CertTypes
    <2>4. CertTypes'
        BY <1>0, <2>2, <2>3 DEF CertTypes
    <2>. QED BY <1>0, <2>2, <2>3, <2>4, RestKeeps
<1>6. ASSUME NEW n \in Nodes, Certify!evaluate_submission(n) PROVE CertInv'
    <2>1. CASE Certify!Passed(n)
        BY <1>0, <1>6, <2>1, EvaluationKeeps DEF Certify!evaluate_submission, Certify!Clock, CertTypes
    <2>2. CASE ~Certify!Passed(n)
        <3>1. /\ status' = [status EXCEPT ![n] = "rejected"]
              /\ UNCHANGED <<penalties, votes, certs, stops, now, tip, head>>
            BY <1>6, <2>2 DEF Certify!evaluate_submission, Certify!Clock
        <3>2. CertTypes' /\ \A m \in Nodes : status'[m] = status[m] \/ status'[m] = "rejected"
            BY <1>0, <3>1 DEF CertTypes
        <3>. QED BY <1>0, <3>1, <3>2, RestKeeps
    <2>. QED BY <2>1, <2>2
<1>7. ASSUME NEW n \in Nodes, Certify!StoppedInEvaluation(n) PROVE CertInv'
    <2>1. stops' \in 0 .. MaxStops
        BY <1>0, <1>7 DEF Certify!StoppedInEvaluation, CertTypes, Certify!CertificateAssumption
    <2>. QED BY <1>7, <2>1, EvaluationKeeps DEF Certify!StoppedInEvaluation, Certify!Clock
<1>8. ASSUME NEW n \in Nodes, Certify!certificate_block_metadata(n) \/ Certify!validate_certificate_metadata(n)
      PROVE CertInv'
    <2>1. /\ status[n] = "approved" /\ status' = [status EXCEPT ![n] = "minted"]
          /\ UNCHANGED <<penalties, votes, certs, stops, now, tip, head>>
        BY <1>8 DEF Certify!certificate_block_metadata, Certify!validate_certificate_metadata, Certify!Clock
    <2>2. certs[n] # <<>>
        BY <2>1 DEF CertInv, Certify!Certified
    <2>3. CertTypes' /\ \A m \in Nodes : status'[m] = status[m] \/ (status'[m] = "minted" /\ certs[m] # <<>>)
        BY <1>0, <2>1, <2>2 DEF CertTypes
    <2>. QED BY <1>0, <2>1, <2>3, RestKeeps
<1>9. ASSUME NEW n \in Nodes, NEW m \in Nodes, NEW c \in Certify!ToSet(certs[m]),
             Certify!_store_peer_certificate(n, c)
      PROVE  CertInv'
    BY <1>9, TransferKeeps DEF Found, Certify!ToSet
<1>10. CASE UNCHANGED Certify!vars
    <2>1. UNCHANGED <<now, tip, head, penalties, votes, certs, link, status, block, stops>>
        BY <1>10 DEF Certify!vars
    <2>2. CertTypes'
        BY <1>0, <2>1 DEF CertTypes
    <2>. QED BY <1>0, <2>1, <2>2, RestKeeps
<1>. QED BY <1>1, <1>2, <1>3, <1>4, <1>5, <1>6, <1>7, <1>8, <1>9, <1>10 DEF Certify!Next

-----------------------------------------------------------------------------
(* Theorems *)

LEMMA CertInvAlways == ASSUME Certify!CertificateAssumption PROVE Certify!Spec => []CertInv
<1>1. Certify!Init => CertInv
    BY CertInvInit
<1>2. CertInv /\ [Certify!Next]_(Certify!vars) => CertInv'
    BY CertInvNext
<1>. QED BY <1>1, <1>2, PTL DEF Certify!Spec

\* Once a node has a certificate its votes do not change any more, through
\* evaluation, transfer, blocks and stops (certificate_service.py).
THEOREM CertifiedVotesAreFrozen ==
    ASSUME Certify!CertificateAssumption PROVE Certify!Spec => Certify!CertifiedVotesAreFrozen
<1>1. CertInv /\ [Certify!Next]_(Certify!vars) => [Certify!KeepsCertifiedVotes]_(Certify!vars)
    <2>1. SUFFICES ASSUME CertInv, Certify!Next, NEW k \in Nodes, certs[k] # <<>> PROVE votes'[k] = votes[k]
        BY DEF Certify!KeepsCertifiedVotes, Certify!vars
    <2>2. votes \in [Nodes -> SUBSET Certify!Vote]
        BY <2>1 DEF CertInv, CertTypes
    <2>3. ASSUME NEW n \in Nodes, NEW v, Certify!Votable(n, v.voter),
                 votes' = [votes EXCEPT ![n] = @ \union {v}]
          PROVE  votes'[k] = votes[k]
        BY <2>1, <2>2, <2>3 DEF Certify!Votable, Certify!is_submission_voting_locked
    <2>4. ASSUME NEW n \in Nodes, NEW w \in Voters, Certify!cast_submission_vote(n, w) PROVE votes'[k] = votes[k]
        <3>. DEFINE v == [voter |-> w, at |-> head[n]]
        <3>1. v.voter = w
            OBVIOUS
        <3>2. Certify!Votable(n, w) /\ votes' = [votes EXCEPT ![n] = @ \union {v}]
            BY <2>4 DEF Certify!cast_submission_vote
        <3>. HIDE DEF v
        <3>. QED BY <2>3, <3>1, <3>2
    <2>5. ASSUME NEW n \in Nodes, NEW m \in Nodes, NEW v \in votes[m], Certify!receive_peer_vote(n, v)
          PROVE  votes'[k] = votes[k]
        BY <2>3, <2>5 DEF Certify!receive_peer_vote
    <2>. QED BY <2>1, <2>4, <2>5 DEF Certify!Next, Certify!Tick, Certify!Grow, Certify!finalize,
            Certify!Records, Certify!record_reviewer_offense, Certify!evaluate_submission,
            Certify!StoppedInEvaluation, Certify!certificate_block_metadata,
            Certify!validate_certificate_metadata, Certify!_store_peer_certificate
<1>. QED BY <1>1, CertInvAlways, PTL DEF Certify!Spec, Certify!CertifiedVotesAreFrozen

\* What an approved node has in its records: a certificate over votes it holds.
LEMMA SupportIsOwnVotes ==
    ASSUME Certify!CertificateAssumption, CertInv, NEW n \in Nodes, NEW c \in Found(n)
    PROVE  /\ \A v \in c.votes : \E u \in votes[n] : u.voter = v.voter
           /\ c.version = 2 => Certify!Cardinality(c.votes) = Certify!Cardinality(votes[n])
           /\ Certify!Cardinality(c.votes) >= (IF c.version = 3 THEN MIN_VALID_VOTES ELSE 1)
<1>1. Supported(n, c) /\ OneEach(votes[n]) /\ c.version \in {2, 3}
    BY DEF CertInv, CertTypes, VotesOK, OneEach, Supported, Certify!Certificate
<1>2. CASE c.version = 3
    BY <1>1, <1>2 DEF Supported
<1>3. CASE c.version = 2
    <2>1. c.votes = Certify!build_protocol_v1_vote_set_payload(votes[n]) /\ Certify!Approved(c.votes)
        BY <1>1, <1>3 DEF Supported
    <2>2. Cardinality(c.votes) = Cardinality(votes[n])
        BY <1>1, <2>1, PayloadCardinality
    <2>3. IsFiniteSet(c.votes)
        BY <1>1, <2>1, PayloadCardinality
    <2>4. Certify!Cardinality(c.votes) >= 1
        BY <2>1, <2>3, ApprovalTakesVotes
    <2>5. \A v \in c.votes : \E u \in votes[n] : u.voter = v.voter
        BY <2>1 DEF Certify!build_protocol_v1_vote_set_payload
    <2>. QED BY <1>3, <2>2, <2>4, <2>5, CardinalityOfVotes
<1>. QED BY <1>1, <1>2, <1>3

\* A node approves nothing its own votes do not carry, even when the approval came
\* with a peer's certificate and reviewers were penalised since
\* (certificate_service.py, peer_sync.py).
THEOREM ApprovedByOwnVotes ==
    ASSUME Certify!CertificateAssumption PROVE Certify!Spec => []Certify!ApprovedByOwnVotes
<1>1. CertInv => Certify!ApprovedByOwnVotes
    <2>1. SUFFICES ASSUME CertInv, NEW n \in Nodes, Certify!Certified(n)
          PROVE  \E c \in Certify!ToSet(certs[n]) :
                    /\ \A v \in c.votes : \E u \in votes[n] : u.voter = v.voter
                    /\ c.version = 2 => Certify!Cardinality(c.votes) = Certify!Cardinality(votes[n])
                    /\ Certify!Cardinality(c.votes) >= (IF c.version = 3 THEN MIN_VALID_VOTES ELSE 1)
        BY DEF Certify!ApprovedByOwnVotes
    <2>2. certs[n] # <<>>
        BY <2>1 DEF CertInv
    <2>3. Head(certs[n]) \in Found(n) /\ Head(certs[n]) \in Certify!ToSet(certs[n])
        BY <2>1, <2>2, HeadIsFound DEF CertInv
    <2>. QED BY <2>1, <2>3, SupportIsOwnVotes
<1>. QED BY <1>1, CertInvAlways, PTL

\* With one issuer: nothing is anywhere before the issuer has it.
OneInv(i) ==
    /\ \A n, m \in Nodes : \A c \in Found(n), d \in Found(m) : c = d
    /\ certs[i] = <<>> => \A n \in Nodes : certs[n] = <<>>

LEMMA OneInvKept ==
    ASSUME Certify!CertificateAssumption, NEW i, Issuers = {i},
           CertInv, OneInv(i), [Certify!Next]_(Certify!vars)
    PROVE  OneInv(i)'
<1>0. CertTypes /\ i \in Nodes
    BY DEF CertInv, Certify!CertificateAssumption
<1>1. CASE UNCHANGED certs
    BY <1>1 DEF OneInv, Found
<1>2. ASSUME NEW n \in Nodes, n \in Issuers,
             certs[n] = <<>> => Certify!Ready(n) /\ Certify!Passed(n),
             certs' = [certs EXCEPT ![n] =
                 IF Certify!create_originality_certificate(n) \in Certify!ToSet(@) THEN @
                 ELSE Append(@, Certify!create_originality_certificate(n))]
      PROVE  OneInv(i)'
    <2>1. /\ certs'[n] # <<>> /\ n = i
          /\ \A m \in Nodes \ {n} : certs'[m] = certs[m]
          /\ certs[n] # <<>> => certs'[n] = certs[n]
          /\ certs[n] = <<>> =>
                {certs'[n][k] : k \in DOMAIN certs'[n]} = {Certify!create_originality_certificate(n)}
        BY <1>2, IssuedIsSupported
    <2>2. CASE certs[n] # <<>>
        <3>1. \A m \in Nodes : certs'[m] = certs[m] /\ Found(m)' = Found(m)
            BY <2>1, <2>2 DEF Found
        <3>. QED BY <1>0, <3>1 DEF OneInv
    <2>3. CASE certs[n] = <<>>
        <3>1. \A m \in Nodes \ {n} : Found(m)' = {}
            BY <2>1, <2>3 DEF OneInv, Found
        <3>2. Found(n)' = {Certify!create_originality_certificate(n)}
            BY <2>1, <2>3 DEF Found
        <3>3. \A m, k \in Nodes : \A c \in Found(m)', d \in Found(k)' : c = d
            BY <3>1, <3>2
        <3>. QED BY <2>1, <3>3 DEF OneInv
    <2>. QED BY <2>2, <2>3
<1>3. ASSUME NEW n \in Nodes, NEW m \in Nodes, NEW c \in Found(m), Certify!_store_peer_certificate(n, c)
      PROVE  OneInv(i)'
    <2>1. Found(n)' = Found(n) \union {c}
        BY <1>3, TransferKeeps
    <2>2. certs' = [certs EXCEPT ![n] = Append(@, c)] /\ c \in Certify!Certificate
        BY <1>3 DEF Certify!_store_peer_certificate, CertInv, Supported
    <2>3. \A k \in Nodes \ {n} : certs'[k] = certs[k] /\ Found(k)' = Found(k)
        BY <1>0, <2>2 DEF CertTypes, Found
    <2>4. \A k, l \in Nodes : \A a \in Found(k)', b \in Found(l)' : a = b
        BY <2>1, <2>3 DEF OneInv
    <2>5. certs[i] # <<>>
        BY DEF OneInv, Found
    <2>6. certs'[i] # <<>>
        <3>1. CASE i = n
            <4>1. certs[n] \in Seq(Certify!Certificate) /\ certs'[n] = Append(certs[n], c)
                BY <1>0, <2>2 DEF CertTypes
            <4>. QED BY <2>2, <3>1, <4>1, FoundAppended
        <3>. QED BY <1>0, <2>3, <2>5, <3>1
    <2>. QED BY <2>4, <2>6 DEF OneInv
<1>4. ASSUME NEW n \in Nodes, NEW m \in Nodes, NEW c \in Certify!ToSet(certs[m]),
             Certify!_store_peer_certificate(n, c)
      PROVE  OneInv(i)'
    BY <1>3, <1>4 DEF Found, Certify!ToSet
<1>5. ASSUME NEW n \in Nodes, Certify!evaluate_submission(n) PROVE OneInv(i)'
    BY <1>1, <1>2, <1>5 DEF Certify!evaluate_submission
<1>6. ASSUME NEW n \in Nodes, Certify!StoppedInEvaluation(n) PROVE OneInv(i)'
    BY <1>2, <1>6 DEF Certify!StoppedInEvaluation
<1>. QED BY <1>1, <1>4, <1>5, <1>6 DEF Certify!Next, Certify!vars, Certify!Tick, Certify!Grow, Certify!finalize,
        Certify!Records, Certify!record_reviewer_offense, Certify!cast_submission_vote,
        Certify!receive_peer_vote, Certify!certificate_block_metadata, Certify!validate_certificate_metadata

\* A submission that one node evaluates has one certificate on all nodes, whatever
\* is stopped and evaluated again or comes back from a peer
\* (create_originality_certificate, certificate_service.py).
THEOREM OneCertificate ==
    ASSUME Certify!CertificateAssumption, NEW i, Issuers = {i}
    PROVE  Certify!Spec => []Certify!OneCertificate
<1>1. Certify!Init => OneInv(i)
    BY DEF Certify!Init, OneInv, Found, Certify!CertificateAssumption
<1>2. CertInv /\ OneInv(i) /\ [Certify!Next]_(Certify!vars) => OneInv(i)'
    BY OneInvKept
<1>3. OneInv(i) => Certify!OneCertificate
    BY DEF OneInv, Certify!OneCertificate, Found, Certify!ToSet
<1>. QED BY <1>1, <1>2, <1>3, CertInvAlways, PTL DEF Certify!Spec

\* While no penalty is known to a node, its certificates are valid there.
LEMMA SupportIsValid ==
    ASSUME CertInv, NEW n \in Nodes, penalties[n] = {}, NEW c \in Found(n)
    PROVE  Certify!validate_originality_certificate(n, c)
BY DEF CertInv, Supported, Certify!validate_originality_certificate,
       Certify!validate_certificate_for_submission, Certify!ValidQuorum,
       Certify!is_finalized_canonical_reference

LEMMA EstablishedIsCounted ==
    ASSUME NEW n, NEW V, IsFiniteSet(V), NEW g
    PROVE  /\ IsFiniteSet(Certify!build_reviewer_snapshot(n, V, g))
           /\ Certify!EstablishedCount(Certify!build_reviewer_snapshot(n, V, g)) \in Nat
<1>. DEFINE S == Certify!build_reviewer_snapshot(n, V, g)
            f == [v \in V |-> [voter |-> v.voter, status |-> Certify!get_reviewer_status_at_reference(n, v.voter, g)]]
<1>1. f \in Surjection(V, S)
    BY DEF Surjection, Certify!build_reviewer_snapshot
<1>2. IsFiniteSet(S)
    BY <1>1, FS_Surjection
<1>. HIDE DEF S
<1>3. Cardinality({r \in S : r.status = "established"}) \in Nat
    BY <1>2, FS_Subset, FS_CardinalityType
<1>. QED BY <1>2, <1>3, CardinalityOfVotes DEF Certify!EstablishedCount, S

\* Finality that moves on keeps whoever voted in the count, and establishes more.
LEMMA LaterCountsTheSame ==
    ASSUME Certify!CertificateAssumption, CertTypes, NEW n \in Nodes, penalties[n] = {}, VotesOK(n),
           NEW h \in 1 .. head[n], \A v \in votes[n] : v.at <= h
    PROVE  /\ Certify!get_certificate_v3_vote_context(n, head[n]) = Certify!get_certificate_v3_vote_context(n, h)
           /\ Certify!EstablishedCount(Certify!build_reviewer_snapshot(n,
                    Certify!get_certificate_v3_vote_context(n, h), h))
                <= Certify!EstablishedCount(Certify!build_reviewer_snapshot(n,
                    Certify!get_certificate_v3_vote_context(n, h), head[n]))
<1>. DEFINE V == Certify!get_certificate_v3_vote_context(n, h)
            Snapshot(g) == Certify!build_reviewer_snapshot(n, V, g)
            E(g) == {r \in Snapshot(g) : r.status = "established"}
<1>1. /\ h \in Nat /\ head[n] \in Nat /\ h <= head[n] /\ head[n] \in 1 .. head[n]
      /\ \A v \in votes[n] : v \in Certify!Vote /\ v.voter \in Voters /\ v.at \in Nat /\ v.at <= h
      /\ \A w \in Voters : EstablishedAt[w] \in Nat /\ QualifiedAt[w] \in Nat
    BY DEF CertTypes, Certify!Vote, Certify!CertificateAssumption
<1>2. Certify!get_certificate_v3_vote_context(n, head[n]) = V
    <2>1. \A v \in votes[n] : MayReview(v.voter, v.at) => MayReview(v.voter, h) /\ MayReview(v.voter, head[n])
        BY <1>1 DEF MayReview
    <2>2. head[n] \in 1 .. head[n] /\ \A v \in votes[n] : v.at \in 1 .. head[n] <=> v.at >= 1
        BY <1>1
    <2>3. Certify!get_certificate_v3_vote_context(n, head[n]) =
              {v \in votes[n] : v.at \in 1 .. head[n] /\ MayReview(v.voter, v.at) /\ MayReview(v.voter, head[n])}
        BY <2>2, ContextWithoutPenalty
    <2>4. V = {v \in votes[n] : v.at \in 1 .. head[n] /\ MayReview(v.voter, v.at) /\ MayReview(v.voter, h)}
        BY ContextWithoutPenalty
    <2>. HIDE DEF V
    <2>. QED BY <2>1, <2>3, <2>4
<1>3. V \in SUBSET Certify!Vote /\ IsFiniteSet(V)
    BY <1>1, ContextIsOfOwnVotes, FS_Subset DEF VotesOK
<1>. HIDE DEF V
<1>4. E(h) \subseteq E(head[n])
    <2>1. /\ Snapshot(h) = {[voter |-> v.voter, status |->
                   IF h >= EstablishedAt[v.voter] THEN "established"
                   ELSE IF h >= QualifiedAt[v.voter] THEN "probationary" ELSE "ineligible"] : v \in V}
          /\ Snapshot(head[n]) = {[voter |-> v.voter, status |->
                   IF head[n] >= EstablishedAt[v.voter] THEN "established"
                   ELSE IF head[n] >= QualifiedAt[v.voter] THEN "probationary" ELSE "ineligible"] : v \in V}
        BY <1>1, <1>3, SnapshotWithoutPenalty
    <2>2. SUFFICES ASSUME NEW r \in Snapshot(h), r.status = "established" PROVE r \in Snapshot(head[n])
        OBVIOUS
    <2>3. PICK v \in V : r = [voter |-> v.voter, status |->
                   IF h >= EstablishedAt[v.voter] THEN "established"
                   ELSE IF h >= QualifiedAt[v.voter] THEN "probationary" ELSE "ineligible"]
        BY <2>1
    <2>4. v.voter \in Voters /\ h >= EstablishedAt[v.voter] /\ head[n] >= EstablishedAt[v.voter]
        BY <1>1, <1>3, <2>2, <2>3 DEF Certify!Vote
    <2>5. r = [voter |-> v.voter, status |-> "established"]
        BY <2>3, <2>4
    <2>. HIDE DEF Snapshot
    <2>. QED BY <2>1, <2>4, <2>5
<1>5. IsFiniteSet(Snapshot(head[n]))
    BY <1>3, EstablishedIsCounted
<1>6. Cardinality(E(h)) <= Cardinality(E(head[n]))
    BY <1>4, <1>5, FS_Subset
<1>7. Certify!EstablishedCount(Snapshot(h)) <= Certify!EstablishedCount(Snapshot(head[n]))
    BY <1>6, CardinalityOfVotes DEF Certify!EstablishedCount
<1>. QED BY <1>2, <1>7 DEF V

\* While a node knows no penalty, the certificate of a submission it approved is
\* valid there (it is validated again at every use), and an evaluation that was cut
\* off can be taken to its end, however far chain and finality moved on: the votes
\* are locked, so nothing else could approve the submission (certificate_service.py).
THEOREM CertificatesStayUsable ==
    ASSUME Certify!CertificateAssumption
    PROVE  Certify!Spec => []((\A n \in Nodes : penalties[n] = {}) => Certify!StaysValid /\ Certify!NotStuck)
<1>1. CertInv => ((\A n \in Nodes : penalties[n] = {}) => Certify!StaysValid /\ Certify!NotStuck)
    <2>1. SUFFICES ASSUME CertInv, \A n \in Nodes : penalties[n] = {} PROVE Certify!StaysValid /\ Certify!NotStuck
        OBVIOUS
    <2>2. ASSUME NEW n \in Nodes, certs[n] # <<>>
          PROVE  /\ Head(certs[n]) \in Found(n)
                 /\ Certify!validate_originality_certificate(n, Head(certs[n]))
        BY <2>1, <2>2, HeadIsFound, SupportIsValid DEF CertInv
    <2>3. Certify!StaysValid
        BY <2>1, <2>2 DEF Certify!StaysValid, CertInv
    <2>4. ASSUME NEW n \in Nodes, certs[n] # <<>>, status[n] = "pending", Head(certs[n]).version = 3
          PROVE  Certify!Ready(n) /\ Certify!Passed(n)
        <3>. DEFINE c == Head(certs[n])
                    V == Certify!get_certificate_v3_vote_context(n, c.ref)
        <3>1. c \in Found(n) /\ Supported(n, c) /\ CertTypes /\ VotesOK(n) /\ IssuedHere(n) /\ penalties[n] = {}
            BY <2>1, <2>2, <2>4 DEF CertInv
        <3>2. /\ c.ref \in 1 .. head[n] /\ c.votes = V /\ Certify!Approved(c.votes)
              /\ Certify!Cardinality(c.votes) >= MIN_VALID_VOTES
              /\ c.snapshot = Certify!build_reviewer_snapshot(n, c.votes, c.ref)
              /\ Certify!EstablishedCount(c.snapshot) >= MIN_ESTABLISHED_VOTES
            BY <2>4, <3>1 DEF Supported
        <3>3. \A v \in votes[n] : v.at <= c.ref
            BY <2>4, <3>1 DEF IssuedHere
        <3>. HIDE DEF c
        <3>4. /\ Certify!get_certificate_v3_vote_context(n, head[n]) = V
              /\ Certify!EstablishedCount(Certify!build_reviewer_snapshot(n, V, c.ref))
                    <= Certify!EstablishedCount(Certify!build_reviewer_snapshot(n, V, head[n]))
            BY <3>1, <3>2, <3>3, LaterCountsTheSame
        <3>5. head[n] > 0
            BY <3>1, <3>2 DEF CertTypes, Certify!CertificateAssumption
        <3>6. Certify!EstablishedCount(Certify!build_reviewer_snapshot(n, V, head[n])) >= MIN_ESTABLISHED_VOTES
            <4>1. \A g : IsFiniteSet(V) => Certify!EstablishedCount(Certify!build_reviewer_snapshot(n, V, g)) \in Nat
                BY EstablishedIsCounted
            <4>2. IsFiniteSet(V)
                BY <3>1, ContextIsOfOwnVotes, FS_Subset DEF VotesOK
            <4>. QED BY <3>2, <3>4, <4>1, <4>2 DEF Certify!CertificateAssumption
        <3>. QED BY <3>2, <3>4, <3>5, <3>6 DEF Certify!Ready, Certify!Passed
    <2>. QED BY <2>2, <2>3, <2>4 DEF Certify!NotStuck
<1>. QED BY <1>1, CertInvAlways, PTL

-----------------------------------------------------------------------------
(* Access accounts and invitations                                         *)

\* One copy of the records when n accounts were ever created.
RecordsOK(d, n) ==
    /\ d \in Access!Records
    /\ \A a \in Access!Accounts :
          /\ d.acct[a].bound = {w \in Wallets : d.bind[w] = [account |-> a, status |-> "active"]}
          /\ d.acct[a] # Access!Absent => a <= n
    /\ \A w \in Wallets : d.bind[w] # Access!Unbound => d.bind[w].account \in 1 .. n

AccessInv ==
    /\ minted \in 0 .. MaxAccounts
    /\ RecordsOK(store, minted)
    /\ DOMAIN mem = Procs /\ \A p \in Procs : RecordsOK(mem[p], minted)
    /\ sessions \in Seq([account : 1 .. MaxAccounts, wallet : Wallets \union {"none"}])
    /\ \A s \in DOMAIN sessions : sessions[s].account \in 1 .. minted

LEMMA AccessInvInit == ASSUME Access!AccessAssumption, Access!Init PROVE AccessInv
<1>1. store \in Access!Records
    BY DEF Access!Init, Access!Records, Access!Absent, Access!Unbound, Access!Accounts, Access!AccessAssumption
<1>2. RecordsOK(store, minted)
    BY <1>1 DEF Access!Init, Access!Absent, Access!Unbound, Access!Accounts, RecordsOK
<1>. QED BY <1>2 DEF AccessInv, Access!Init, Access!AccessAssumption

-----------------------------------------------------------------------------
(* Edits of one copy *)

Live == [status |-> "active", code |-> "live", bound |-> {}]

\* Nothing about bindings, and no account that was not there.
LEMMA OtherEdits ==
    ASSUME NEW d, NEW e, NEW n, RecordsOK(d, n), e \in Access!Records, e.bind = d.bind,
           \A a \in Access!Accounts : /\ e.acct[a].bound = d.acct[a].bound
                                      /\ d.acct[a] = Access!Absent => e.acct[a] = Access!Absent
    PROVE  RecordsOK(e, n)
BY DEF RecordsOK

LEMMA MoreAccounts ==
    ASSUME NEW d, NEW n \in Nat, NEW m \in Nat, n <= m, RecordsOK(d, n) PROVE RecordsOK(d, m)
BY DEF RecordsOK, Access!Accounts, Access!Records

LEMMA CreateEdit ==
    ASSUME Access!AccessAssumption, NEW d, NEW n \in Nat, n + 1 \in Access!Accounts, RecordsOK(d, n)
    PROVE  RecordsOK(Access!_create_access_account_record(d, n + 1), n + 1)
<1>. DEFINE e == Access!_create_access_account_record(d, n + 1)
<1>1. /\ e.bind = d.bind /\ e.acct[n + 1] = Live
      /\ \A a \in Access!Accounts \ {n + 1} : e.acct[a] = d.acct[a]
      /\ e \in Access!Records
    BY DEF RecordsOK, Access!_create_access_account_record, Access!Records, Live
<1>2. {w \in Wallets : d.bind[w] = [account |-> n + 1, status |-> "active"]} = {}
    BY DEF RecordsOK, Access!Unbound
<1>3. d \in Access!Records /\ MaxAccounts \in Nat
    BY DEF RecordsOK, Access!AccessAssumption
<1>. HIDE DEF e
<1>4. \A a \in Access!Accounts :
          /\ e.acct[a].bound = {w \in Wallets : e.bind[w] = [account |-> a, status |-> "active"]}
          /\ e.acct[a] # Access!Absent => a <= n + 1
    BY <1>1, <1>2, <1>3 DEF RecordsOK, Live, Access!Accounts
<1>5. \A w \in Wallets : e.bind[w] # Access!Unbound => e.bind[w].account \in 1 .. (n + 1)
    BY <1>1, <1>3 DEF RecordsOK
<1>. QED BY <1>1, <1>4, <1>5 DEF RecordsOK, e

LEMMA BindEdit ==
    ASSUME Access!AccessAssumption, NEW d, NEW n \in 0 .. MaxAccounts, RecordsOK(d, n), NEW a \in 1 .. n, NEW w \in Wallets,
           Access!MayBind(d, a, w)
    PROVE  RecordsOK(Access!Bound(d, a, w), n)
<1>. DEFINE e == Access!Bound(d, a, w)
<1>1. d \in Access!Records /\ MaxAccounts \in Nat /\ a \in Access!Accounts
    BY DEF RecordsOK, Access!AccessAssumption, Access!Accounts
<1>2. /\ e \in Access!Records
      /\ e.bind[w] = [account |-> a, status |-> "active"]
      /\ \A x \in Wallets \ {w} : e.bind[x] = d.bind[x]
      /\ e.acct[a].bound = d.acct[a].bound \union {w}
      /\ \A b \in Access!Accounts \ {a} : e.acct[b] = d.acct[b]
    <2>. DEFINE acct == [d.acct EXCEPT ![a] = [d.acct[a] EXCEPT !.bound = @ \union {w}, !.code = "redeemed"]]
                bind == [d.bind EXCEPT ![w] = [account |-> a, status |-> "active"]]
    <2>1. e = [d EXCEPT !.bind = bind, !.acct = acct]
        BY <1>1 DEF Access!Bound, Access!Records
    <2>2. /\ bind \in [Wallets -> [account : 0 .. MaxAccounts, status : {"none", "active", "revoked"}]]
          /\ bind[w] = [account |-> a, status |-> "active"] /\ \A x \in Wallets \ {w} : bind[x] = d.bind[x]
        BY <1>1 DEF Access!Records, Access!Accounts
    <2>3. d.acct \in [Access!Accounts -> [status : {"none", "active", "suspended", "revoked"},
                                          code : {"none", "live", "redeemed"}, bound : SUBSET Wallets]]
        BY <1>1 DEF Access!Records
    <2>4. /\ acct \in [Access!Accounts -> [status : {"none", "active", "suspended", "revoked"},
                                          code : {"none", "live", "redeemed"}, bound : SUBSET Wallets]]
          /\ acct[a].bound = d.acct[a].bound \union {w} /\ \A b \in Access!Accounts \ {a} : acct[b] = d.acct[b]
        BY <1>1, <2>3
    <2>. HIDE DEF e, acct, bind
    <2>5. e.bind = bind /\ e.acct = acct /\ e \in Access!Records
        BY <1>1, <2>1, <2>2, <2>4 DEF Access!Records
    <2>. QED BY <2>2, <2>4, <2>5
<1>3. d.bind[w].account = a \/ d.bind[w] = Access!Unbound
    BY DEF Access!MayBind
<1>. HIDE DEF e
<1>4. \A b \in Access!Accounts :
          e.acct[b].bound = {x \in Wallets : e.bind[x] = [account |-> b, status |-> "active"]}
    <2>1. \A b \in Access!Accounts :
              d.acct[b].bound = {x \in Wallets : d.bind[x] = [account |-> b, status |-> "active"]}
        BY DEF RecordsOK
    <2>2. e.acct[a].bound = {x \in Wallets : e.bind[x] = [account |-> a, status |-> "active"]}
        BY <1>1, <1>2, <2>1
    <2>3. ASSUME NEW b \in Access!Accounts, b # a
          PROVE  e.acct[b].bound = {x \in Wallets : e.bind[x] = [account |-> b, status |-> "active"]}
        <3>1. d.bind[w] # [account |-> b, status |-> "active"] /\ e.bind[w] # [account |-> b, status |-> "active"]
            BY <1>2, <1>3, <2>3 DEF Access!Unbound
        <3>. QED BY <1>2, <2>1, <2>3, <3>1
    <2>. QED BY <2>2, <2>3
<1>5. \A b \in Access!Accounts : e.acct[b] # Access!Absent => b <= n
    <2>1. \A b \in Access!Accounts : d.acct[b] # Access!Absent => b <= n
        BY DEF RecordsOK
    <2>2. a <= n
        BY <1>1
    <2>. QED BY <1>2, <2>1, <2>2
<1>6. \A x \in Wallets : e.bind[x] # Access!Unbound => e.bind[x].account \in 1 .. n
    BY <1>2 DEF RecordsOK
<1>. QED BY <1>2, <1>4, <1>5, <1>6 DEF RecordsOK, e

Unbinding(d, w) ==
    [d EXCEPT !.bind[w].status = "revoked", !.acct[d.bind[w].account].bound = @ \ {w}]

LEMMA UnbindEdit ==
    ASSUME Access!AccessAssumption, NEW d, NEW n \in 0 .. MaxAccounts, RecordsOK(d, n), NEW w \in Wallets,
           d.bind[w] # Access!Unbound
    PROVE  RecordsOK(Unbinding(d, w), n)
<1>. DEFINE e == Unbinding(d, w)
            a == d.bind[w].account
<1>1. d \in Access!Records /\ MaxAccounts \in Nat /\ a \in 1 .. n /\ a \in Access!Accounts
    BY DEF RecordsOK, Access!AccessAssumption, Access!Accounts
<1>2. /\ e \in Access!Records
      /\ e.bind[w] = [account |-> a, status |-> "revoked"]
      /\ \A x \in Wallets \ {w} : e.bind[x] = d.bind[x]
      /\ e.acct[a].bound = d.acct[a].bound \ {w}
      /\ e.acct[a].status = d.acct[a].status /\ e.acct[a].code = d.acct[a].code
      /\ \A b \in Access!Accounts \ {a} : e.acct[b] = d.acct[b]
    <2>. DEFINE acct == [d.acct EXCEPT ![a] = [d.acct[a] EXCEPT !.bound = @ \ {w}]]
                bind == [d.bind EXCEPT ![w] = [d.bind[w] EXCEPT !.status = "revoked"]]
    <2>1. e = [d EXCEPT !.bind = bind, !.acct = acct]
        BY <1>1 DEF Unbinding, Access!Records
    <2>2. /\ bind \in [Wallets -> [account : 0 .. MaxAccounts, status : {"none", "active", "revoked"}]]
          /\ bind[w] = [account |-> a, status |-> "revoked"] /\ \A x \in Wallets \ {w} : bind[x] = d.bind[x]
        BY <1>1 DEF Access!Records, Access!Accounts
    <2>3. d.acct \in [Access!Accounts -> [status : {"none", "active", "suspended", "revoked"},
                                          code : {"none", "live", "redeemed"}, bound : SUBSET Wallets]]
        BY <1>1 DEF Access!Records
    <2>4. /\ acct \in [Access!Accounts -> [status : {"none", "active", "suspended", "revoked"},
                                          code : {"none", "live", "redeemed"}, bound : SUBSET Wallets]]
          /\ acct[a].bound = d.acct[a].bound \ {w} /\ \A b \in Access!Accounts \ {a} : acct[b] = d.acct[b]
          /\ acct[a].status = d.acct[a].status /\ acct[a].code = d.acct[a].code
        BY <1>1, <2>3
    <2>. HIDE DEF e, acct, bind
    <2>5. e.bind = bind /\ e.acct = acct /\ e \in Access!Records
        BY <1>1, <2>1, <2>2, <2>4 DEF Access!Records
    <2>. QED BY <2>2, <2>4, <2>5
<1>. HIDE DEF e
<1>4. \A b \in Access!Accounts :
          e.acct[b].bound = {x \in Wallets : e.bind[x] = [account |-> b, status |-> "active"]}
    <2>1. \A b \in Access!Accounts :
              d.acct[b].bound = {x \in Wallets : d.bind[x] = [account |-> b, status |-> "active"]}
        BY DEF RecordsOK
    <2>2. \A b \in Access!Accounts : e.bind[w] # [account |-> b, status |-> "active"]
        BY <1>2
    <2>3. \A b \in Access!Accounts \ {a} : d.bind[w] # [account |-> b, status |-> "active"]
        OBVIOUS
    <2>4. e.acct[a].bound = {x \in Wallets : e.bind[x] = [account |-> a, status |-> "active"]}
        BY <1>1, <1>2, <2>1, <2>2
    <2>5. ASSUME NEW b \in Access!Accounts, b # a
          PROVE  e.acct[b].bound = {x \in Wallets : e.bind[x] = [account |-> b, status |-> "active"]}
        <3>1. d.bind[w] # [account |-> b, status |-> "active"] /\ e.bind[w] # [account |-> b, status |-> "active"]
            BY <2>2, <2>3, <2>5
        <3>. HIDE DEF a
        <3>. QED BY <1>2, <2>1, <2>5, <3>1
    <2>. HIDE DEF a
    <2>. QED BY <2>4, <2>5
<1>5. \A b \in Access!Accounts : e.acct[b] # Access!Absent => b <= n
    <2>1. \A b \in Access!Accounts : d.acct[b] # Access!Absent => b <= n
        BY DEF RecordsOK
    <2>2. a <= n
        BY <1>1
    <2>. QED BY <1>2, <2>1, <2>2
<1>6. \A x \in Wallets : e.bind[x] # Access!Unbound => e.bind[x].account \in 1 .. n
    BY <1>1, <1>2 DEF RecordsOK
<1>. QED BY <1>2, <1>4, <1>5, <1>6 DEF RecordsOK, e

-----------------------------------------------------------------------------
(* Steps of the two processes *)

LEMMA CommitStep ==
    ASSUME Access!AccessAssumption, AccessInv, NEW p \in Procs, NEW d, minted' \in minted .. MaxAccounts,
           RecordsOK(d, minted'), mem' = [mem EXCEPT ![p] = d], store' = d \/ store' = store,
           sessions' \in Seq([account : 1 .. MaxAccounts, wallet : Wallets \union {"none"}]),
           \A s \in DOMAIN sessions' : sessions'[s].account \in 1 .. minted'
    PROVE  AccessInv'
<1>1. minted \in Nat /\ minted' \in Nat /\ minted <= minted' /\ minted' \in 0 .. MaxAccounts
    BY DEF AccessInv, Access!AccessAssumption
<1>2. RecordsOK(store, minted') /\ \A q \in Procs : RecordsOK(mem[q], minted')
    BY <1>1, MoreAccounts DEF AccessInv
<1>3. RecordsOK(store', minted')
    BY <1>2
<1>4. DOMAIN mem' = Procs /\ \A q \in Procs : mem'[q] = d \/ mem'[q] = mem[q]
    BY DEF AccessInv
<1>5. \A q \in Procs : RecordsOK(mem'[q], minted')
    BY <1>2, <1>4
<1>. QED BY <1>1, <1>3, <1>4, <1>5 DEF AccessInv

LEMMA SaveStep ==
    ASSUME Access!AccessAssumption, AccessInv, NEW p \in Procs, NEW d, NEW name, NEW aud,
           Access!Commit(p, d, name, aud), RecordsOK(d, minted), UNCHANGED <<minted, sessions>>
    PROVE  AccessInv'
<1>1. mem' = [mem EXCEPT ![p] = d] /\ store' = d /\ minted' = minted /\ sessions' = sessions
    BY DEF Access!Commit
<1>2. minted' \in minted .. MaxAccounts
    BY <1>1 DEF AccessInv, Access!AccessAssumption
<1>3. /\ sessions' \in Seq([account : 1 .. MaxAccounts, wallet : Wallets \union {"none"}])
      /\ RecordsOK(d, minted') /\ \A s \in DOMAIN sessions' : sessions'[s].account \in 1 .. minted'
    BY <1>1 DEF AccessInv
<1>. QED BY <1>1, <1>2, <1>3, CommitStep

LEMMA KeepStep ==
    ASSUME Access!AccessAssumption, AccessInv, NEW p \in Procs,
           mem' = [mem EXCEPT ![p] = store] \/ mem' = mem, UNCHANGED <<store, minted>>,
           sessions' = sessions \/ sessions' = <<>>
    PROVE  AccessInv'
<1>1. RecordsOK(store', minted') /\ DOMAIN mem' = Procs /\ minted' \in 0 .. MaxAccounts
    BY DEF AccessInv
<1>2. \A q \in Procs : mem'[q] = store \/ mem'[q] = mem[q]
    BY DEF AccessInv
<1>3. \A q \in Procs : RecordsOK(mem'[q], minted')
    BY <1>2 DEF AccessInv
<1>4. /\ sessions' \in Seq([account : 1 .. MaxAccounts, wallet : Wallets \union {"none"}])
      /\ \A s \in DOMAIN sessions' : sessions'[s].account \in 1 .. minted
    <2>1. CASE sessions' = sessions
        BY <2>1 DEF AccessInv
    <2>2. CASE sessions' = <<>>
        BY <2>2
    <2>. QED BY <2>1, <2>2
<1>. QED BY <1>1, <1>3, <1>4 DEF AccessInv

\* The edits that operations make of a copy, all of them.
LEMMA EditsAreOK ==
    ASSUME Access!AccessAssumption, NEW d, NEW n \in 0 .. MaxAccounts, RecordsOK(d, n)
    PROVE  /\ \A r \in Requests, x \in {"none", "pending", "approved", "rejected"} :
                 RecordsOK([d EXCEPT !.req[r] = x], n)
           /\ \A w \in Wallets, x \in {"none", "pending", "approved", "rejected"} :
                 RecordsOK([d EXCEPT !.over[w] = x], n)
           /\ \A w \in Wallets :
                 /\ RecordsOK([d EXCEPT !.allow = Append(@, [wallet |-> w, status |-> "active"])], n)
                 /\ RecordsOK([d EXCEPT !.over[w] = "approved",
                              !.allow = Append(@, [wallet |-> w, status |-> "active"])], n)
           /\ \A e \in DOMAIN d.allow, x \in {"active", "inactive", "revoked"} :
                 RecordsOK([d EXCEPT !.allow[e].status = x], n)
           /\ \A a \in Access!Accounts, x \in {"active", "suspended", "revoked"} :
                 d.acct[a] # Access!Absent => RecordsOK([d EXCEPT !.acct[a].status = x], n)
<1>1. d \in Access!Records
    BY DEF RecordsOK
<1>2. ASSUME NEW r \in Requests, NEW x \in {"none", "pending", "approved", "rejected"}
      PROVE  RecordsOK([d EXCEPT !.req[r] = x], n)
    <2>. DEFINE k == [d EXCEPT !.req[r] = x]
    <2>2. k \in Access!Records /\ k.bind = d.bind /\ k.acct = d.acct
        BY <1>1 DEF Access!Records
    <2>. HIDE DEF k
    <2>3. RecordsOK(k, n)
        BY <2>2, OtherEdits
    <2>. QED BY <2>3 DEF k
<1>3. ASSUME NEW w \in Wallets, NEW x \in {"none", "pending", "approved", "rejected"}
      PROVE  RecordsOK([d EXCEPT !.over[w] = x], n)
    <2>. DEFINE k == [d EXCEPT !.over[w] = x]
    <2>2. k \in Access!Records /\ k.bind = d.bind /\ k.acct = d.acct
        BY <1>1 DEF Access!Records
    <2>. HIDE DEF k
    <2>3. RecordsOK(k, n)
        BY <2>2, OtherEdits
    <2>. QED BY <2>3 DEF k
<1>4. ASSUME NEW w \in Wallets
      PROVE  RecordsOK([d EXCEPT !.allow = Append(@, [wallet |-> w, status |-> "active"])], n)
    <2>. DEFINE k == [d EXCEPT !.allow = Append(@, [wallet |-> w, status |-> "active"])]
    <2>1. Append(d.allow, [wallet |-> w, status |-> "active"])
             \in Seq([wallet : Wallets, status : {"active", "inactive", "revoked"}])
        BY <1>1 DEF Access!Records
    <2>2. k \in Access!Records /\ k.bind = d.bind /\ k.acct = d.acct
        BY <1>1, <2>1 DEF Access!Records
    <2>. HIDE DEF k
    <2>3. RecordsOK(k, n)
        BY <2>2, OtherEdits
    <2>. QED BY <2>3 DEF k
<1>7. ASSUME NEW w \in Wallets
      PROVE  RecordsOK([d EXCEPT !.over[w] = "approved", !.allow = Append(@, [wallet |-> w, status |-> "active"])], n)
    <2>. DEFINE k == [d EXCEPT !.over[w] = "approved", !.allow = Append(@, [wallet |-> w, status |-> "active"])]
    <2>1. Append(d.allow, [wallet |-> w, status |-> "active"])
             \in Seq([wallet : Wallets, status : {"active", "inactive", "revoked"}])
        BY <1>1 DEF Access!Records
    <2>2. k \in Access!Records /\ k.bind = d.bind /\ k.acct = d.acct
        BY <1>1, <2>1 DEF Access!Records
    <2>. HIDE DEF k
    <2>3. RecordsOK(k, n)
        BY <2>2, OtherEdits
    <2>. QED BY <2>3 DEF k
<1>5. ASSUME NEW e \in DOMAIN d.allow, NEW x \in {"active", "inactive", "revoked"}
      PROVE  RecordsOK([d EXCEPT !.allow[e].status = x], n)
    <2>. DEFINE k == [d EXCEPT !.allow[e].status = x]
                entry == [d.allow[e] EXCEPT !.status = x]
                Kind == [wallet : Wallets, status : {"active", "inactive", "revoked"}]
    <2>0. d.allow \in Seq(Kind)
        BY <1>1 DEF Access!Records
    <2>1. entry \in Kind /\ k = [d EXCEPT !.allow = [d.allow EXCEPT ![e] = entry]]
        <3>1. d.allow[e] \in Kind
            <4>. HIDE DEF Kind, entry, k
            <4>. QED BY <2>0
        <3>2. entry \in Kind
            BY <3>1
        <3>3. k = [d EXCEPT !.allow = [d.allow EXCEPT ![e] = entry]]
            BY Zenon
        <3>. QED BY <3>2, <3>3
    <2>. HIDE DEF entry, k, Kind
    <2>2. [d.allow EXCEPT ![e] = entry] \in Seq(Kind)
        BY <2>0, <2>1
    <2>3. k \in Access!Records /\ k.bind = d.bind /\ k.acct = d.acct
        BY <1>1, <2>1, <2>2 DEF Access!Records, Kind
    <2>4. RecordsOK(k, n)
        BY <2>3, OtherEdits
    <2>. QED BY <2>4 DEF k
<1>6. ASSUME NEW a \in Access!Accounts, NEW x \in {"active", "suspended", "revoked"}, d.acct[a] # Access!Absent
      PROVE  RecordsOK([d EXCEPT !.acct[a].status = x], n)
    <2>0. d.acct \in [Access!Accounts -> [status : {"none", "active", "suspended", "revoked"},
                                          code : {"none", "live", "redeemed"}, bound : SUBSET Wallets]]
        BY <1>1 DEF Access!Records
    <2>. DEFINE k == [d EXCEPT !.acct[a].status = x]
                acct == [d.acct EXCEPT ![a] = [d.acct[a] EXCEPT !.status = x]]
                Kind == [Access!Accounts -> [status : {"none", "active", "suspended", "revoked"},
                                             code : {"none", "live", "redeemed"}, bound : SUBSET Wallets]]
    <2>1. d.acct \in Kind /\ k = [d EXCEPT !.acct = acct]
        <3>1. d.acct \in Kind
            BY <2>0
        <3>2. k = [d EXCEPT !.acct = acct]
            BY <1>1, Zenon DEF Access!Records
        <3>. QED BY <3>1, <3>2
    <2>2. acct \in Kind /\ \A b \in Access!Accounts : acct[b].bound = d.acct[b].bound /\ (b # a => acct[b] = d.acct[b])
        BY <2>1
    <2>. HIDE DEF acct, k, Kind
    <2>3. k \in Access!Records /\ k.bind = d.bind /\ k.acct = acct
        BY <1>1, <2>1, <2>2 DEF Access!Records, Kind
    <2>4. RecordsOK(k, n)
        BY <1>6, <2>2, <2>3, OtherEdits
    <2>. QED BY <2>4 DEF k
<1>. QED BY <1>2, <1>3, <1>4, <1>5, <1>6, <1>7

LEMMA CreateStep ==
    ASSUME Access!AccessAssumption, AccessInv, NEW p \in Procs, minted < MaxAccounts, minted' = minted + 1,
           NEW d, d = Access!_create_access_account_record(mem[p], minted + 1)
               \/ \E r \in Requests : d = [Access!_create_access_account_record(mem[p], minted + 1)
                                              EXCEPT !.req[r] = "approved"],
           mem' = [mem EXCEPT ![p] = d], store' = d, sessions' = sessions
    PROVE  AccessInv'
<1>. DEFINE new == Access!_create_access_account_record(mem[p], minted + 1)
<1>1. /\ minted \in Nat /\ minted + 1 \in Access!Accounts /\ minted' \in 0 .. MaxAccounts
      /\ minted' \in minted .. MaxAccounts /\ RecordsOK(mem[p], minted)
    BY DEF AccessInv, Access!AccessAssumption, Access!Accounts
<1>2. RecordsOK(new, minted')
    BY <1>1, CreateEdit
<1>. HIDE DEF new
<1>3. RecordsOK(d, minted')
    <2>1. \A r \in Requests : RecordsOK([new EXCEPT !.req[r] = "approved"], minted')
        BY <1>1, <1>2, EditsAreOK
    <2>. QED BY <1>2, <2>1 DEF new
<1>4. /\ sessions' \in Seq([account : 1 .. MaxAccounts, wallet : Wallets \union {"none"}])
      /\ \A s \in DOMAIN sessions' : sessions'[s].account \in 1 .. minted'
    BY <1>1 DEF AccessInv
<1>. QED BY <1>1, <1>3, <1>4, CommitStep

LEMMA LoginStep ==
    ASSUME Access!AccessAssumption, AccessInv, NEW a \in Access!Accounts, Access!complete_access_login_operation(a)
    PROVE  AccessInv'
<1>1. /\ mem["api"].acct[a].code = "live" /\ "api" \in Procs
      /\ sessions' = Append(sessions, [account |-> a, wallet |-> "none"])
      /\ mem' = [mem EXCEPT !["api"] = mem["api"]] /\ store' = mem["api"] /\ minted' = minted
    BY DEF Access!complete_access_login_operation, Access!Operation, Access!Commit, Access!AccessAssumption
<1>2. /\ RecordsOK(mem["api"], minted') /\ minted' \in minted .. MaxAccounts
      /\ minted \in Nat /\ \A s \in DOMAIN sessions : sessions[s].account \in 1 .. minted
    BY <1>1 DEF AccessInv, Access!AccessAssumption
<1>3. a \in 1 .. minted
    <2>1. mem["api"].acct[a] # Access!Absent
        BY <1>1 DEF Access!Absent
    <2>2. a <= minted' /\ minted' = minted
        BY <1>1, <1>2, <2>1 DEF RecordsOK
    <2>. QED BY <1>2, <2>2 DEF Access!Accounts
<1>4. /\ sessions' \in Seq([account : 1 .. MaxAccounts, wallet : Wallets \union {"none"}])
      /\ \A s \in DOMAIN sessions' : sessions'[s].account \in 1 .. minted'
    <2>1. /\ sessions \in Seq([account : 1 .. MaxAccounts, wallet : Wallets \union {"none"}])
          /\ a \in 1 .. MaxAccounts
        BY DEF AccessInv, Access!Accounts
    <2>. QED BY <1>1, <1>2, <1>3, <2>1
<1>. QED BY <1>1, <1>2, <1>4, CommitStep

LEMMA BindStep ==
    ASSUME Access!AccessAssumption, AccessInv, NEW s \in DOMAIN sessions, NEW w \in Wallets,
           Access!bind_access_wallet_operation(s, w)
    PROVE  AccessInv'
<1>. DEFINE a == sessions[s].account
            d == Access!Bound(mem["api"], a, w)
<1>1. /\ "api" \in Procs /\ a \in 1 .. minted /\ RecordsOK(mem["api"], minted)
      /\ minted \in 0 .. MaxAccounts /\ Access!MayBind(mem["api"], a, w) /\ minted' = minted
      /\ minted' \in minted .. MaxAccounts
    BY DEF AccessInv, Access!bind_access_wallet_operation, Access!AccessAssumption
<1>2. RecordsOK(d, minted')
    BY <1>1, BindEdit
<1>3. mem' = [mem EXCEPT !["api"] = d] /\ (store' = d \/ store' = store)
    BY DEF Access!bind_access_wallet_operation, Access!Operation, Access!Commit
<1>4. /\ sessions' \in Seq([account : 1 .. MaxAccounts, wallet : Wallets \union {"none"}])
      /\ \A i \in DOMAIN sessions' : sessions'[i].account \in 1 .. minted'
    <2>1. sessions' = [sessions EXCEPT ![s].wallet = w] \/ sessions' = sessions
        BY DEF Access!bind_access_wallet_operation
    <2>2. \A i \in DOMAIN sessions : sessions[i].account \in 1 .. minted
        BY DEF AccessInv
    <2>. DEFINE Session == [account : 1 .. MaxAccounts, wallet : Wallets \union {"none"}]
                marked == [sessions[s] EXCEPT !.wallet = w]
    <2>3. sessions \in Seq(Session)
        BY DEF AccessInv
    <2>6. sessions[s] \in Session
        <3>. HIDE DEF Session
        <3>. QED BY <2>3
    <2>7. marked \in Session /\ marked.account = sessions[s].account
        BY <2>6
    <2>8. sessions' = [sessions EXCEPT ![s] = marked] \/ sessions' = sessions
        BY <2>1
    <2>5. /\ sessions' \in Seq(Session) /\ DOMAIN sessions' = DOMAIN sessions
          /\ \A i \in DOMAIN sessions : i # s => sessions'[i] = sessions[i]
          /\ (sessions'[s] = marked \/ sessions' = sessions)
        <3>. HIDE DEF Session, marked
        <3>. QED BY <2>3, <2>7, <2>8
    <2>4. DOMAIN sessions' = DOMAIN sessions /\ \A i \in DOMAIN sessions : sessions'[i].account = sessions[i].account
        <3>. HIDE DEF Session, marked
        <3>1. CASE sessions' = sessions
            BY <3>1
        <3>2. CASE sessions'[s] = marked
            BY <2>5, <2>7, <3>2
        <3>. QED BY <2>5, <3>1, <3>2
    <2>. QED BY <1>1, <2>2, <2>4, <2>5
<1>. HIDE DEF d
<1>. QED BY <1>1, <1>2, <1>3, <1>4, CommitStep

LEMMA AccessInvNext ==
    ASSUME Access!AccessAssumption, AccessInv, [Access!Next]_(Access!vars) PROVE AccessInv'
<1>0. /\ "api" \in Procs /\ minted \in 0 .. MaxAccounts
      /\ \A p \in Procs : RecordsOK(mem[p], minted) /\ mem[p] \in Access!Records
    BY DEF AccessInv, Access!AccessAssumption, RecordsOK
<1>1. ASSUME NEW p \in Procs,
             Access!refresh_access_control_state_from_storage(p) \/ Access!Finish(p)
      PROVE  AccessInv'
    BY <1>1, KeepStep DEF Access!refresh_access_control_state_from_storage, Access!Finish
<1>2. ASSUME NEW p \in Procs, NEW r \in Requests, Access!approve_access_request(p, r) PROVE AccessInv'
    BY <1>2, CreateStep DEF Access!approve_access_request, Access!Operation, Access!Commit
<1>3. ASSUME NEW p \in Procs, NEW r \in Requests, Access!reject_access_request(p, r) PROVE AccessInv'
    BY <1>0, <1>3, SaveStep, EditsAreOK DEF Access!reject_access_request, Access!Operation
<1>4. ASSUME NEW p \in Procs, Access!create_access_invite(p) PROVE AccessInv'
    BY <1>4, CreateStep DEF Access!create_access_invite, Access!Operation, Access!Commit
<1>5. ASSUME NEW p \in Procs, NEW a \in Access!Accounts, NEW x \in {"active", "suspended", "revoked"},
             Access!update_access_account_status(p, a, x)
      PROVE  AccessInv'
    <2>. DEFINE d == [mem[p] EXCEPT !.acct[a].status = x]
    <2>1. RecordsOK(d, minted)
        BY <1>0, <1>5, EditsAreOK DEF Access!update_access_account_status
    <2>2. Access!Commit(p, d, [op |-> x, on |-> "none", account |-> a], TRUE) /\ UNCHANGED <<minted, sessions>>
        BY <1>5 DEF Access!update_access_account_status, Access!Operation
    <2>. HIDE DEF d
    <2>. QED BY <1>0, <2>1, <2>2, SaveStep
<1>6. ASSUME NEW p \in Procs, NEW w \in Wallets, Access!revoke_wallet_binding(p, w) PROVE AccessInv'
    <2>1. RecordsOK(Unbinding(mem[p], w), minted)
        BY <1>0, <1>6, UnbindEdit DEF Access!revoke_wallet_binding
    <2>. QED BY <1>6, <2>1, SaveStep DEF Access!revoke_wallet_binding, Access!Operation, Unbinding
<1>7. CASE Access!RefreshFails \/ Access!RestartApi
    BY <1>0, <1>7, KeepStep DEF Access!RefreshFails, Access!RestartApi
<1>8. CASE Access!_persist_access_admin_operation \/ Access!SaveOther
    BY <1>0, <1>8, SaveStep DEF Access!_persist_access_admin_operation, Access!SaveOther
<1>9. ASSUME NEW r \in Requests, Access!submit_access_request(r) PROVE AccessInv'
    BY <1>0, <1>9, SaveStep, EditsAreOK DEF Access!submit_access_request
<1>10. ASSUME NEW w \in Wallets, Access!submit_override_request(w) PROVE AccessInv'
    BY <1>0, <1>10, SaveStep, EditsAreOK DEF Access!submit_override_request
<1>11. ASSUME NEW w \in Wallets, Access!approve_override_request(w) PROVE AccessInv'
    <2>. DEFINE d == [mem["api"] EXCEPT !.over[w] = "approved", !.allow = Append(@, [wallet |-> w, status |-> "active"])]
    <2>1. RecordsOK(d, minted)
        BY <1>0, <1>11, EditsAreOK DEF Access!approve_override_request
    <2>2. Access!Commit("api", d, [op |-> "override", on |-> w, account |-> 0], TRUE) /\ UNCHANGED <<minted, sessions>>
        BY <1>11 DEF Access!approve_override_request, Access!Operation
    <2>. HIDE DEF d
    <2>. QED BY <1>0, <2>1, <2>2, SaveStep
<1>12. ASSUME NEW w \in Wallets, Access!reject_override_request(w) PROVE AccessInv'
    BY <1>0, <1>12, SaveStep, EditsAreOK DEF Access!reject_override_request, Access!Operation
<1>13. ASSUME NEW w \in Wallets, Access!create_allowlist_entry(w) PROVE AccessInv'
    <2>. DEFINE d == [mem["api"] EXCEPT !.allow = Append(@, [wallet |-> w, status |-> "active"])]
    <2>1. RecordsOK(d, minted)
        BY <1>0, <1>13, EditsAreOK DEF Access!create_allowlist_entry
    <2>2. Access!Commit("api", d, [op |-> "allow", on |-> w, account |-> 0], TRUE) /\ UNCHANGED <<minted, sessions>>
        BY <1>13 DEF Access!create_allowlist_entry, Access!Operation
    <2>. HIDE DEF d
    <2>. QED BY <1>0, <2>1, <2>2, SaveStep
<1>14. ASSUME NEW e \in Access!Entries, NEW x \in {"active", "inactive", "revoked"},
              Access!update_allowlist_entry(e, x)
       PROVE  AccessInv'
    <2>. DEFINE d == [mem["api"] EXCEPT !.allow[e].status = x]
    <2>1. RecordsOK(d, minted)
        BY <1>0, <1>14, EditsAreOK DEF Access!update_allowlist_entry
    <2>2. Access!Commit("api", d, [op |-> "entry", on |-> x, account |-> 0], TRUE) /\ UNCHANGED <<minted, sessions>>
        BY <1>14 DEF Access!update_allowlist_entry, Access!Operation
    <2>. HIDE DEF d
    <2>. QED BY <1>0, <2>1, <2>2, SaveStep
<1>15. CASE UNCHANGED Access!vars
    BY <1>0, <1>15, KeepStep DEF Access!vars
<1>. QED BY <1>1, <1>2, <1>3, <1>4, <1>5, <1>6, <1>7, <1>8, <1>9, <1>10, <1>11, <1>12, <1>13, <1>14, <1>15,
        LoginStep, BindStep DEF Access!Next

\* In the store, and in the copy of either process, the wallets listed in an
\* account are the active bindings to it, kept in another list, through stale
\* copies, refused bindings and reads that fail (access_control_service.py).
THEOREM BindingsAgree ==
    ASSUME Access!AccessAssumption PROVE Access!Spec => []Access!BindingsAgree
<1>1. Access!Init => AccessInv
    BY AccessInvInit
<1>2. AccessInv /\ [Access!Next]_(Access!vars) => AccessInv'
    BY AccessInvNext
<1>3. AccessInv => Access!BindingsAgree
    BY DEF AccessInv, RecordsOK, Access!BindingsAgree
<1>. QED BY <1>1, <1>2, <1>3, PTL DEF Access!Spec

-----------------------------------------------------------------------------
(* Suspensions, with any processes *)

\* One process takes the copy d and may save it: d shuts what its own copy shut.
LEMMA ShutStays ==
    ASSUME Access!AccessAssumption, AccessInv, NEW p \in Procs, NEW d,
           mem' = [mem EXCEPT ![p] = d], store' = d \/ store' = store,
           \A a \in Access!Accounts : \/ last'.op = "active" /\ last'.account = a
                                      \/ d.acct[a].status = mem[p].acct[a].status
                                      \/ Access!Shut(d, a) \/ ~Access!Shut(mem[p], a)
    PROVE  Access!KeepsSuspensions
<1>1. mem'[p] = d /\ \A q \in Procs : q # p => mem'[q] = mem[q]
    BY DEF AccessInv
<1>. QED BY <1>1 DEF Access!KeepsSuspensions, Access!Shut

\* A read, or a step that leaves the copies alone.
LEMMA ShutIsRead ==
    ASSUME Access!AccessAssumption, AccessInv, store' = store,
           mem' = mem \/ \E p \in Procs : mem' = [mem EXCEPT ![p] = store]
    PROVE  Access!KeepsSuspensions
<1>1. \A q \in Procs : mem'[q] = mem[q] \/ mem'[q] = store
    BY DEF AccessInv
<1>. QED BY <1>1 DEF Access!KeepsSuspensions, Access!Shut

LEMMA SuspensionNext ==
    ASSUME Access!AccessAssumption, AccessInv, Access!Next
    PROVE  Access!KeepsSuspensions
<1>0. /\ "api" \in Procs /\ minted \in 0 .. MaxAccounts
      /\ \A p \in Procs : RecordsOK(mem[p], minted) /\ mem[p] \in Access!Records
    BY DEF AccessInv, Access!AccessAssumption, RecordsOK
<1>a. ASSUME NEW p \in Procs, NEW d, mem' = [mem EXCEPT ![p] = d], store' = d, d.acct = mem[p].acct
      PROVE  Access!KeepsSuspensions
    BY <1>a, ShutStays
<1>1. ASSUME NEW p \in Procs,
             Access!refresh_access_control_state_from_storage(p) \/ Access!Finish(p)
      PROVE  Access!KeepsSuspensions
    BY <1>1, ShutIsRead DEF Access!refresh_access_control_state_from_storage, Access!Finish
<1>2. ASSUME NEW p \in Procs, minted < MaxAccounts, NEW d, mem' = [mem EXCEPT ![p] = d], store' = d,
             d.acct = [mem[p].acct EXCEPT ![minted + 1] = Live]
      PROVE  Access!KeepsSuspensions
    <2>1. minted + 1 \in Access!Accounts /\ mem[p].acct[minted + 1] = Access!Absent
        <3>1. minted + 1 \in Access!Accounts /\ ~(minted + 1 <= minted)
            BY <1>0, <1>2 DEF Access!Accounts, Access!AccessAssumption
        <3>2. \A a \in Access!Accounts : mem[p].acct[a] # Access!Absent => a <= minted
            BY <1>0 DEF RecordsOK
        <3>. QED BY <3>1, <3>2
    <2>2. DOMAIN mem[p].acct = Access!Accounts
        BY <1>0 DEF Access!Records
    <2>3. \A a \in Access!Accounts : a # minted + 1 => d.acct[a] = mem[p].acct[a]
        BY <1>2, <2>2
    <2>4. ~Access!Shut(mem[p], minted + 1)
        BY <2>1 DEF Access!Shut, Access!Absent
    <2>5. \A a \in Access!Accounts : d.acct[a].status = mem[p].acct[a].status \/ ~Access!Shut(mem[p], a)
        BY <2>3, <2>4
    <2>. QED BY <1>2, <2>5, ShutStays
<1>3. ASSUME NEW p \in Procs, NEW r \in Requests, Access!approve_access_request(p, r)
      PROVE  Access!KeepsSuspensions
    <2>. DEFINE d == [Access!_create_access_account_record(mem[p], minted + 1) EXCEPT !.req[r] = "approved"]
    <2>1. d.acct = [mem[p].acct EXCEPT ![minted + 1] = Live]
        BY <1>0 DEF Access!_create_access_account_record, Access!Records, Live
    <2>2. minted < MaxAccounts /\ mem' = [mem EXCEPT ![p] = d] /\ store' = d
        BY <1>3 DEF Access!approve_access_request, Access!Operation, Access!Commit
    <2>. HIDE DEF d
    <2>. QED BY <1>2, <2>1, <2>2
<1>4. ASSUME NEW p \in Procs, Access!create_access_invite(p) PROVE Access!KeepsSuspensions
    <2>. DEFINE d == Access!_create_access_account_record(mem[p], minted + 1)
    <2>1. d.acct = [mem[p].acct EXCEPT ![minted + 1] = Live]
        BY <1>0 DEF Access!_create_access_account_record, Access!Records, Live
    <2>2. minted < MaxAccounts /\ mem' = [mem EXCEPT ![p] = d] /\ store' = d
        BY <1>4 DEF Access!create_access_invite, Access!Operation, Access!Commit
    <2>. HIDE DEF d
    <2>. QED BY <1>2, <2>1, <2>2
<1>5. ASSUME NEW p \in Procs, NEW a \in Access!Accounts, NEW x \in {"active", "suspended", "revoked"},
             Access!update_access_account_status(p, a, x)
      PROVE  Access!KeepsSuspensions
    <2>. DEFINE d == [mem[p] EXCEPT !.acct[a].status = x]
    <2>1. /\ mem' = [mem EXCEPT ![p] = d] /\ store' = d
          /\ last' = [op |-> x, on |-> "none", account |-> a]
        BY <1>5 DEF Access!update_access_account_status, Access!Operation, Access!Commit
    <2>2. /\ d.acct[a].status = x
          /\ \A b \in Access!Accounts : b # a => d.acct[b] = mem[p].acct[b]
        BY <1>0 DEF Access!Records
    <2>. HIDE DEF d
    <2>3. \/ last'.op = "active" /\ last'.account = a
          \/ Access!Shut(d, a)
        BY <1>5, <2>1, <2>2 DEF Access!Shut
    <2>4. \A b \in Access!Accounts : \/ last'.op = "active" /\ last'.account = b
                                     \/ d.acct[b].status = mem[p].acct[b].status
                                     \/ Access!Shut(d, b) \/ ~Access!Shut(mem[p], b)
        BY <2>2, <2>3
    <2>. QED BY <2>1, <2>4, ShutStays
<1>6. ASSUME NEW p \in Procs, NEW w \in Wallets, Access!revoke_wallet_binding(p, w)
      PROVE  Access!KeepsSuspensions
    <2>. DEFINE a == mem[p].bind[w].account
                d == Unbinding(mem[p], w)
    <2>1. mem' = [mem EXCEPT ![p] = d] /\ store' = d
        BY <1>6 DEF Access!revoke_wallet_binding, Access!Operation, Access!Commit, Unbinding
    <2>2. \A b \in Access!Accounts : d.acct[b].status = mem[p].acct[b].status
        <3>1. d.acct = [mem[p].acct EXCEPT ![a].bound = @ \ {w}]
            BY <1>0 DEF Unbinding, Access!Records
        <3>2. mem[p].acct \in [Access!Accounts -> [status : {"none", "active", "suspended", "revoked"},
                                          code : {"none", "live", "redeemed"}, bound : SUBSET Wallets]]
            BY <1>0 DEF Access!Records
        <3>. HIDE DEF d, a
        <3>. QED BY <3>1, <3>2
    <2>. HIDE DEF d, a
    <2>3. \A b \in Access!Accounts : \/ last'.op = "active" /\ last'.account = b
                                     \/ d.acct[b].status = mem[p].acct[b].status
                                     \/ Access!Shut(d, b) \/ ~Access!Shut(mem[p], b)
        BY <2>2
    <2>. QED BY <2>1, <2>3, ShutStays
<1>7. CASE Access!RefreshFails \/ Access!RestartApi
    BY <1>0, <1>7, ShutIsRead DEF Access!RefreshFails, Access!RestartApi
<1>8. CASE Access!_persist_access_admin_operation \/ Access!SaveOther
    BY <1>0, <1>8, <1>a DEF Access!_persist_access_admin_operation, Access!SaveOther, Access!Commit
<1>9. ASSUME NEW p \in Procs, NEW r \in Requests, Access!reject_access_request(p, r)
      PROVE  Access!KeepsSuspensions
    <2>1. [mem[p] EXCEPT !.req[r] = "rejected"].acct = mem[p].acct
        BY <1>0 DEF Access!Records
    <2>. QED BY <1>9, <1>a, <2>1 DEF Access!reject_access_request, Access!Operation, Access!Commit
<1>10. ASSUME NEW r \in Requests, Access!submit_access_request(r) PROVE Access!KeepsSuspensions
    <2>1. [mem["api"] EXCEPT !.req[r] = "pending"].acct = mem["api"].acct
        BY <1>0 DEF Access!Records
    <2>. QED BY <1>0, <1>10, <1>a, <2>1 DEF Access!submit_access_request, Access!Commit
<1>11. ASSUME NEW w \in Wallets,
              \/ Access!submit_override_request(w) \/ Access!reject_override_request(w)
              \/ Access!approve_override_request(w) \/ Access!create_allowlist_entry(w)
       PROVE  Access!KeepsSuspensions
    <2>1. \A x : [mem["api"] EXCEPT !.over[w] = x].acct = mem["api"].acct
        BY <1>0 DEF Access!Records
    <2>2. \A x : [mem["api"] EXCEPT !.allow = x].acct = mem["api"].acct
        BY <1>0 DEF Access!Records
    <2>3. \A x, y : [mem["api"] EXCEPT !.over[w] = x, !.allow = y].acct = mem["api"].acct
        BY <1>0 DEF Access!Records
    <2>4. CASE Access!submit_override_request(w)
        BY <1>0, <1>a, <2>1, <2>4 DEF Access!submit_override_request, Access!Commit
    <2>5. CASE Access!reject_override_request(w)
        BY <1>0, <1>a, <2>1, <2>5 DEF Access!reject_override_request, Access!Operation, Access!Commit
    <2>6. CASE Access!approve_override_request(w)
        BY <1>0, <1>a, <2>3, <2>6 DEF Access!approve_override_request, Access!Operation, Access!Commit
    <2>7. CASE Access!create_allowlist_entry(w)
        BY <1>0, <1>a, <2>2, <2>7 DEF Access!create_allowlist_entry, Access!Operation, Access!Commit
    <2>. QED BY <1>11, <2>4, <2>5, <2>6, <2>7
<1>12. ASSUME NEW e \in Access!Entries, NEW x \in {"active", "inactive", "revoked"},
              Access!update_allowlist_entry(e, x)
       PROVE  Access!KeepsSuspensions
    <2>1. [mem["api"] EXCEPT !.allow[e].status = x].acct = mem["api"].acct
        BY <1>0 DEF Access!Records
    <2>. QED BY <1>0, <1>12, <1>a, <2>1 DEF Access!update_allowlist_entry, Access!Operation, Access!Commit
<1>13. ASSUME NEW a \in Access!Accounts, Access!complete_access_login_operation(a)
       PROVE  Access!KeepsSuspensions
    BY <1>0, <1>13, <1>a DEF Access!complete_access_login_operation, Access!Operation, Access!Commit
<1>14. ASSUME NEW s \in DOMAIN sessions, NEW w \in Wallets, Access!bind_access_wallet_operation(s, w)
       PROVE  Access!KeepsSuspensions
    <2>. DEFINE a == sessions[s].account
                d == Access!Bound(mem["api"], a, w)
    <2>1. mem' = [mem EXCEPT !["api"] = d] /\ (store' = d \/ store' = store)
        BY <1>14 DEF Access!bind_access_wallet_operation, Access!Operation, Access!Commit
    <2>2. \A b \in Access!Accounts : d.acct[b].status = mem["api"].acct[b].status
        <3>1. d.acct = [mem["api"].acct EXCEPT ![a] = [mem["api"].acct[a] EXCEPT !.bound = @ \union {w}, !.code = "redeemed"]]
            BY <1>0 DEF Access!Bound, Access!Records
        <3>2. mem["api"].acct \in [Access!Accounts -> [status : {"none", "active", "suspended", "revoked"},
                                          code : {"none", "live", "redeemed"}, bound : SUBSET Wallets]]
            BY <1>0 DEF Access!Records
        <3>. HIDE DEF d, a
        <3>. QED BY <3>1, <3>2
    <2>. HIDE DEF d, a
    <2>3. \A b \in Access!Accounts : \/ last'.op = "active" /\ last'.account = b
                                     \/ d.acct[b].status = mem["api"].acct[b].status
                                     \/ Access!Shut(d, b) \/ ~Access!Shut(mem["api"], b)
        BY <2>2
    <2>. QED BY <1>0, <2>1, <2>3, ShutStays
<1>. QED BY <1>1, <1>3, <1>4, <1>5, <1>6, <1>7, <1>8, <1>9, <1>10, <1>11, <1>12, <1>13, <1>14 DEF Access!Next

\* With any processes over one store, a suspension that the store and every memory
\* hold is ended only by an operator; another save takes it back only from a memory
\* that has not read it (blockchain.py:539, access_admin_service.py).
THEOREM SuspensionSticks ==
    ASSUME Access!AccessAssumption PROVE Access!Spec => Access!SuspensionSticks
<1>1. AccessInv /\ [Access!Next]_(Access!vars) => [Access!KeepsSuspensions]_(Access!vars)
    BY SuspensionNext
<1>. QED BY <1>1, AccessInvInit, AccessInvNext, PTL DEF Access!Spec, Access!SuspensionSticks

-----------------------------------------------------------------------------
(* The API alone: no other process saves an old copy over the store *)

\* Only an operator's reactivation ends the suspension or revocation of an account.
KeepsSuspended ==
    \A a \in Access!Accounts :
        store.acct[a].status \in {"suspended", "revoked"} /\ store'.acct[a].status = "active" =>
            last'.op = "active" /\ last'.account = a

\* The store lags behind the memory of its only process by refused bindings.
Alone ==
    /\ \A a \in Access!Accounts :
          /\ store.acct[a].status = mem["api"].acct[a].status
          /\ store.acct[a].code = "redeemed" => mem["api"].acct[a].code = "redeemed"
    /\ \A a \in handed : a \in Access!Accounts /\ store.acct[a].status # "none"

\* What a save of the API must not take back.
AloneCommits(d) ==
    \A a \in Access!Accounts :
        /\ mem["api"].acct[a].status # "none" => d.acct[a].status # "none"
        /\ mem["api"].acct[a].code = "redeemed" => d.acct[a].code = "redeemed"
        /\ mem["api"].acct[a].status \in {"suspended", "revoked"} /\ d.acct[a].status = "active" =>
              last'.op = "active" /\ last'.account = a

LEMMA AloneSave ==
    ASSUME AccessInv, Alone, NEW d, mem'["api"] = d, store' = d, AloneCommits(d),
           \A a \in handed' : a \in handed \/ (a \in Access!Accounts /\ d.acct[a].status # "none"),
           sessions' = sessions
    PROVE  Alone' /\ Access!KeepsRedeemed /\ KeepsSuspended
<1>1. ~(Len(sessions') > Len(sessions))
    BY DEF AccessInv
<1>. QED BY <1>1 DEF Alone, AloneCommits, Access!KeepsRedeemed, KeepsSuspended

LEMMA AloneStays ==
    ASSUME AccessInv, Alone, store' = store, handed' = handed,
           mem'["api"] = mem["api"] \/ mem'["api"] = store,
           sessions' = sessions \/ sessions' = <<>>
    PROVE  Alone' /\ Access!KeepsRedeemed /\ KeepsSuspended
<1>1. ~(Len(sessions') > Len(sessions))
    BY DEF AccessInv
<1>. QED BY <1>1 DEF Alone, Access!KeepsRedeemed, KeepsSuspended

\* An edit that leaves the accounts alone.
LEMMA AloneOther ==
    ASSUME AccessInv, Alone, NEW d, mem'["api"] = d, store' = d, d.acct = mem["api"].acct,
           handed' = handed, sessions' = sessions
    PROVE  Alone' /\ Access!KeepsRedeemed /\ KeepsSuspended
<1>1. AloneCommits(d)
    BY DEF AloneCommits
<1>. QED BY <1>1, AloneSave

LEMMA AloneNext ==
    ASSUME Access!AccessAssumption, Procs = {"api"}, AccessInv, Alone, [Access!Next]_(Access!vars)
    PROVE  Alone' /\ Access!KeepsRedeemed /\ KeepsSuspended
<1>0. /\ "api" \in Procs /\ minted \in Nat /\ RecordsOK(mem["api"], minted)
      /\ mem["api"] \in Access!Records /\ DOMAIN mem = {"api"}
    BY DEF AccessInv, Access!AccessAssumption, RecordsOK
<1>a. ASSUME NEW d, mem' = [mem EXCEPT !["api"] = d] PROVE mem'["api"] = d
    BY <1>0, <1>a
<1>1. ASSUME NEW p \in Procs,
             Access!refresh_access_control_state_from_storage(p) \/ Access!Finish(p)
      PROVE  Alone' /\ Access!KeepsRedeemed /\ KeepsSuspended
    BY <1>a, <1>1, AloneStays DEF Access!refresh_access_control_state_from_storage, Access!Finish
<1>2. ASSUME minted < MaxAccounts, handed' = handed \union {minted + 1}, sessions' = sessions,
             NEW d, mem' = [mem EXCEPT !["api"] = d], store' = d,
             d.acct = [mem["api"].acct EXCEPT ![minted + 1] = Live]
      PROVE  Alone' /\ Access!KeepsRedeemed /\ KeepsSuspended
    <2>1. /\ minted + 1 \in Access!Accounts /\ mem["api"].acct[minted + 1] = Access!Absent
          /\ d.acct[minted + 1] = Live
          /\ \A a \in Access!Accounts : a # minted + 1 => d.acct[a] = mem["api"].acct[a]
        <3>1. minted + 1 \in Access!Accounts
            BY <1>0, <1>2 DEF Access!Accounts, Access!AccessAssumption
        <3>2. mem["api"].acct[minted + 1] = Access!Absent
            <4>1. \A a \in Access!Accounts : mem["api"].acct[a] # Access!Absent => a <= minted
                BY <1>0 DEF RecordsOK
            <4>2. ~(minted + 1 <= minted)
                BY <1>0
            <4>. QED BY <3>1, <4>1, <4>2
        <3>3. DOMAIN mem["api"].acct = Access!Accounts
            BY <1>0 DEF Access!Records
        <3>. QED BY <1>2, <3>1, <3>2, <3>3
    <2>2. AloneCommits(d) /\ d.acct[minted + 1].status # "none"
        BY <2>1 DEF AloneCommits, Access!Absent, Live
    <2>. QED BY <1>2, <1>a, <2>1, <2>2, AloneSave
<1>3. ASSUME NEW p \in Procs, NEW r \in Requests, Access!approve_access_request(p, r)
      PROVE  Alone' /\ Access!KeepsRedeemed /\ KeepsSuspended
    <2>. DEFINE d == [Access!_create_access_account_record(mem[p], minted + 1) EXCEPT !.req[r] = "approved"]
    <2>1. p = "api" /\ d.acct = [mem["api"].acct EXCEPT ![minted + 1] = Live]
        BY <1>0 DEF Access!_create_access_account_record, Access!Records, Live
    <2>2. /\ minted < MaxAccounts /\ handed' = handed \union {minted + 1} /\ sessions' = sessions
          /\ mem' = [mem EXCEPT !["api"] = d] /\ store' = d
        BY <1>3, <2>1 DEF Access!approve_access_request, Access!Operation, Access!Commit
    <2>. HIDE DEF d
    <2>. QED BY <1>2, <2>1, <2>2
<1>4. ASSUME NEW p \in Procs, Access!create_access_invite(p)
      PROVE  Alone' /\ Access!KeepsRedeemed /\ KeepsSuspended
    <2>. DEFINE d == Access!_create_access_account_record(mem[p], minted + 1)
    <2>1. p = "api" /\ d.acct = [mem["api"].acct EXCEPT ![minted + 1] = Live]
        BY <1>0 DEF Access!_create_access_account_record, Access!Records, Live
    <2>2. /\ minted < MaxAccounts /\ handed' = handed \union {minted + 1} /\ sessions' = sessions
          /\ mem' = [mem EXCEPT !["api"] = d] /\ store' = d
        BY <1>4, <2>1 DEF Access!create_access_invite, Access!Operation, Access!Commit
    <2>. HIDE DEF d
    <2>. QED BY <1>2, <2>1, <2>2
<1>5. ASSUME NEW p \in Procs, NEW a \in Access!Accounts, NEW x \in {"active", "suspended", "revoked"},
             Access!update_access_account_status(p, a, x)
      PROVE  Alone' /\ Access!KeepsRedeemed /\ KeepsSuspended
    <2>. DEFINE d == [mem[p] EXCEPT !.acct[a].status = x]
    <2>1. /\ p = "api" /\ mem' = [mem EXCEPT !["api"] = d] /\ store' = d
          /\ last' = [op |-> x, on |-> "none", account |-> a]
          /\ handed' = handed /\ sessions' = sessions
        BY <1>0, <1>5 DEF Access!update_access_account_status, Access!Operation, Access!Commit
    <2>2. /\ d.acct[a].status = x /\ d.acct[a].code = mem["api"].acct[a].code
          /\ \A b \in Access!Accounts : b # a => d.acct[b] = mem["api"].acct[b]
        BY <1>0, <2>1 DEF Access!Records
    <2>. HIDE DEF d
    <2>3. AloneCommits(d)
        BY <2>1, <2>2 DEF AloneCommits, Access!Absent
    <2>. QED BY <1>a, <2>1, <2>3, AloneSave
<1>6. ASSUME NEW p \in Procs, NEW w \in Wallets, Access!revoke_wallet_binding(p, w)
      PROVE  Alone' /\ Access!KeepsRedeemed /\ KeepsSuspended
    <2>. DEFINE a == mem["api"].bind[w].account
                d == Unbinding(mem["api"], w)
    <2>1. /\ p = "api" /\ mem' = [mem EXCEPT !["api"] = d] /\ store' = d
          /\ handed' = handed /\ sessions' = sessions /\ mem["api"].bind[w] # Access!Unbound
        BY <1>0, <1>6 DEF Access!revoke_wallet_binding, Access!Operation, Access!Commit, Unbinding
    <2>2. \A b \in Access!Accounts : d.acct[b].status = mem["api"].acct[b].status
                                     /\ d.acct[b].code = mem["api"].acct[b].code
        <3>1. d.acct = [mem["api"].acct EXCEPT ![a].bound = @ \ {w}]
            BY <1>0 DEF Unbinding, Access!Records
        <3>2. mem["api"].acct \in [Access!Accounts -> [status : {"none", "active", "suspended", "revoked"},
                                          code : {"none", "live", "redeemed"}, bound : SUBSET Wallets]]
            BY <1>0 DEF Access!Records
        <3>. HIDE DEF d, a
        <3>. QED BY <3>1, <3>2
    <2>. HIDE DEF d, a
    <2>5. AloneCommits(d)
        BY <2>2 DEF AloneCommits
    <2>. QED BY <1>a, <2>1, <2>5, AloneSave
<1>7. CASE Access!RefreshFails \/ Access!RestartApi
    BY <1>a, <1>7, AloneStays DEF Access!RefreshFails, Access!RestartApi
<1>8. CASE Access!_persist_access_admin_operation \/ Access!SaveOther
    BY <1>a, <1>8, AloneOther DEF Access!_persist_access_admin_operation, Access!SaveOther, Access!Commit
<1>9. ASSUME NEW d, d.acct = mem["api"].acct, mem' = [mem EXCEPT !["api"] = d], store' = d,
             handed' = handed, sessions' = sessions
      PROVE  Alone' /\ Access!KeepsRedeemed /\ KeepsSuspended
    BY <1>a, <1>9, AloneOther
<1>10. ASSUME NEW p \in Procs, NEW r \in Requests,
              Access!reject_access_request(p, r) \/ Access!submit_access_request(r)
       PROVE  Alone' /\ Access!KeepsRedeemed /\ KeepsSuspended
    <2>1. \A x : [mem["api"] EXCEPT !.req[r] = x].acct = mem["api"].acct
        BY <1>0 DEF Access!Records
    <2>. QED BY <1>9, <1>10, <2>1 DEF Access!reject_access_request, Access!submit_access_request,
            Access!Operation, Access!Commit
<1>11. ASSUME NEW w \in Wallets,
              Access!submit_override_request(w) \/ Access!reject_override_request(w)
       PROVE  Alone' /\ Access!KeepsRedeemed /\ KeepsSuspended
    <2>1. \A x : [mem["api"] EXCEPT !.over[w] = x].acct = mem["api"].acct
        BY <1>0 DEF Access!Records
    <2>. QED BY <1>9, <1>11, <2>1 DEF Access!submit_override_request, Access!reject_override_request,
            Access!Operation, Access!Commit
<1>12. ASSUME NEW w \in Wallets,
              Access!approve_override_request(w) \/ Access!create_allowlist_entry(w)
       PROVE  Alone' /\ Access!KeepsRedeemed /\ KeepsSuspended
    <2>1. \A x : [mem["api"] EXCEPT !.allow = x].acct = mem["api"].acct
        BY <1>0 DEF Access!Records
    <2>2. \A x, y : [mem["api"] EXCEPT !.over[w] = x, !.allow = y].acct = mem["api"].acct
        BY <1>0 DEF Access!Records
    <2>3. CASE Access!approve_override_request(w)
        BY <1>9, <2>2, <2>3 DEF Access!approve_override_request, Access!Operation, Access!Commit
    <2>4. CASE Access!create_allowlist_entry(w)
        BY <1>9, <2>1, <2>4 DEF Access!create_allowlist_entry, Access!Operation, Access!Commit
    <2>. QED BY <1>12, <2>3, <2>4
<1>13. ASSUME NEW e \in Access!Entries, NEW x \in {"active", "inactive", "revoked"},
              Access!update_allowlist_entry(e, x)
       PROVE  Alone' /\ Access!KeepsRedeemed /\ KeepsSuspended
    <2>1. [mem["api"] EXCEPT !.allow[e].status = x].acct = mem["api"].acct
        BY <1>0 DEF Access!Records
    <2>. QED BY <1>9, <1>13, <2>1 DEF Access!update_allowlist_entry, Access!Operation, Access!Commit
<1>14. ASSUME NEW a \in Access!Accounts, Access!complete_access_login_operation(a)
       PROVE  Alone' /\ Access!KeepsRedeemed /\ KeepsSuspended
    <2>1. /\ mem["api"].acct[a].code = "live" /\ mem'["api"] = mem["api"] /\ store' = mem["api"]
          /\ sessions' = Append(sessions, [account |-> a, wallet |-> "none"]) /\ handed' = handed
        BY <1>0, <1>14 DEF Access!complete_access_login_operation, Access!Operation, Access!Commit
    <2>2. Alone' /\ KeepsSuspended
        BY <2>1 DEF Alone, KeepsSuspended
    <2>3. sessions'[Len(sessions')].account = a /\ store.acct[a].code # "redeemed"
        BY <2>1 DEF AccessInv, Alone
    <2>. QED BY <2>1, <2>2, <2>3 DEF Access!KeepsRedeemed, Alone
<1>15. ASSUME NEW s \in DOMAIN sessions, NEW w \in Wallets, Access!bind_access_wallet_operation(s, w)
       PROVE  Alone' /\ Access!KeepsRedeemed /\ KeepsSuspended
    <2>. DEFINE a == sessions[s].account
                d == Access!Bound(mem["api"], a, w)
    <2>1. /\ mem'["api"] = d /\ (store' = d \/ store' = store) /\ handed' = handed
          /\ sessions' = [sessions EXCEPT ![s].wallet = w] \/ sessions' = sessions
        BY <1>0, <1>15 DEF Access!bind_access_wallet_operation, Access!Operation, Access!Commit
    <2>2. \A b \in Access!Accounts : /\ d.acct[b].status = mem["api"].acct[b].status
                                     /\ mem["api"].acct[b].code = "redeemed" => d.acct[b].code = "redeemed"
        <3>1. d.acct = [mem["api"].acct EXCEPT ![a] = [mem["api"].acct[a] EXCEPT !.bound = @ \union {w}, !.code = "redeemed"]]
            BY <1>0 DEF Access!Bound, Access!Records
        <3>2. mem["api"].acct \in [Access!Accounts -> [status : {"none", "active", "suspended", "revoked"},
                                          code : {"none", "live", "redeemed"}, bound : SUBSET Wallets]]
            BY <1>0 DEF Access!Records
        <3>. HIDE DEF d, a
        <3>. QED BY <3>1, <3>2
    <2>3. ~(Len(sessions') > Len(sessions))
        BY <2>1 DEF AccessInv
    <2>. HIDE DEF d, a
    <2>. QED BY <2>1, <2>2, <2>3 DEF Alone, Access!KeepsRedeemed, KeepsSuspended
<1>16. CASE UNCHANGED Access!vars
    BY <1>16, AloneStays DEF Access!vars
<1>. QED BY <1>0, <1>1, <1>3, <1>4, <1>5, <1>6, <1>7, <1>8, <1>10, <1>11, <1>12, <1>13, <1>14, <1>15, <1>16 DEF Access!Next

\* Where the API is the only process, an invite code that was handed out has its
\* account, a redeemed code neither comes back nor opens a session, and an account
\* leaves suspension or revocation only by an operator's reactivation.  A stale copy
\* of the command line breaks each of the three (access_control_service.py).
THEOREM AccessIsNotTakenBack ==
    ASSUME Access!AccessAssumption, Procs = {"api"}
    PROVE  Access!Spec => []Access!HandedCodesExist /\ Access!RedeemedStaysRedeemed /\ [][KeepsSuspended]_(Access!vars)
<1>1. Access!Init => AccessInv /\ Alone
    <2>1. Access!Init => Alone
        BY DEF Access!Init, Alone, Access!Absent, Access!AccessAssumption
    <2>. QED BY <2>1, AccessInvInit
<1>2. AccessInv /\ Alone /\ [Access!Next]_(Access!vars) =>
          AccessInv' /\ Alone' /\ [Access!KeepsRedeemed]_(Access!vars) /\ [KeepsSuspended]_(Access!vars)
    BY AccessInvNext, AloneNext
<1>3. Alone => Access!HandedCodesExist
    BY DEF Alone, Access!HandedCodesExist, Access!Absent
<1>. QED BY <1>1, <1>2, <1>3, PTL DEF Access!Spec, Access!RedeemedStaysRedeemed
=============================================================================
