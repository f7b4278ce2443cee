--------------------------- MODULE MCNativeOutbox ---------------------------
(* Two transactions, an unreachable peer c and a healthy peer b. *)
EXTENDS NativeOutbox, TLC

CONSTANTS t1, t2, b, c, loop, sweep, k1, k2, k3, k4, k5, k6

MCTxRank   == [t \in Txs |-> IF t = t1 THEN 1 ELSE 2]
MCPeerRank == [p \in Peers |-> IF p = c THEN 1 ELSE 2]

\* b refuses t1: its mempool reserves the nonce for another transaction.
MCConflicting == {[tx |-> t1, peer |-> b]}
MCInvalid     == {}

Symmetry == Permutations(Tokens)

=============================================================================
