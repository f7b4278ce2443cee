-------------------------- MODULE ReplayProtection --------------------------
(***************************************************************************)
(* What a node promises to the peers that sign their requests.             *)
(***************************************************************************)
EXTENDS Naturals

VARIABLES
    sent,       \* requests ever put on the wire; each may arrive again
    handled,    \* how often each request was dispatched, up to two
    faults      \* how often each fault happened

\* However often the network repeats a signed request, and whenever the
\* receiver crashes and prunes, its handler runs at most once, unless storage
\* damages the replay file (require_peer_secret).
AtMostOnce ==
    \A m \in sent : m.signed /\ faults["corrupt"] = 0 => handled[m.nonce] <= 1
=============================================================================
