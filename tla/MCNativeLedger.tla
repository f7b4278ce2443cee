--------------------------- MODULE MCNativeLedger ---------------------------
(* Wallet 1 owns three coins and signs two transfers with nonce 1 and one  *)
(* with nonce 2; wallet 2 can spend only what it has received.  A behaviour *)
(* is that of one facade with all of this, or of two facades on one store   *)
(* with the two transfers that share a nonce.                               *)
EXTENDS NativeLedger, TLC

CONSTANTS f1, f2

VARIABLE active     \* the facades that run

MCSender    == <<1, 1, 1, 2>>
MCRecipient == <<2, 2, 2, 1>>
MCNonce     == <<1, 1, 2, 1>>
MCAmount    == <<2, 1, 3, 2>>
MCGrant     == <<3, 0>>

\* Hashes order the chains of one length by the last block.
MCHashLower(c, d) ==
    /\ c # <<>>
    /\ \/ Last(c).creator < Last(d).creator
       \/ Last(c).creator = Last(d).creator /\ Len(Last(c).txs) < Len(Last(d).txs)

Alone == active # Facades

\* Chains of wallet 1's blocks, with its transfers only; those with equal
\* scores and the contested nonce only.
OwnChains  == {c \in Chains : 4 \notin ChainTxs(c) /\ \A i \in DOMAIN c : c[i].creator = 1}
FewChains  == {c \in OwnChains : 3 \notin ChainTxs(c) /\ \A i \in DOMAIN c : c[i].score = 1}

MCInit == Init /\ active \in {{f} : f \in Facades} \cup {Facades}

MCNext ==
    /\ \E f \in active :
        \/ \E t \in IF Alone THEN Txs ELSE {1, 2} : Transfer(f, t)
        \/ Upkeep(f)
        \/ \E creator \in IF Alone THEN Creators ELSE {1},
              score \in IF Alone THEN Scores ELSE {1} : Commit(f, creator, score)
        \/ \E cand \in IF Alone THEN Chains ELSE FewChains : Adopt(f, cand)
    /\ UNCHANGED active

MCSpec == MCInit /\ [][MCNext]_<<vars, active>>

\* Two facades.
SharedSpec == Init /\ active = Facades /\ [][MCNext]_<<vars, active>>

\* Facades are interchangeable.
FacadeSymmetry == Permutations(Facades)

-----------------------------------------------------------------------------
(* What holds on a store with one facade *)

\* A record is settled exactly when its transaction is on the chain.
SettledWhenAlone == Alone => SettledIsCanonical

\* Pending transfers are covered by the balance on the chain.
CoveredWhenAlone == Alone => ReservationsCovered

\* The store can follow every chain of wallet 1's blocks that wins.
WinnerWhenAlone ==
    Alone /\ durable.recs[4].status = "absent" /\ durable.chain \in OwnChains =>
        \A cand \in OwnChains : Replaces(cand, durable.chain) => Adoptable(cand)

\* A recorded transfer is never dropped.
AcknowledgedWhenAlone == [][Alone => KeepsAcknowledged]_<<vars, active>>

\* No pending transfer is left behind a gap by a reorganisation.
NoGapWhenAlone == [][Alone => LeavesNoGap]_<<vars, active>>
=============================================================================
