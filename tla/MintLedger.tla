----------------------------- MODULE MintLedger -----------------------------
(***************************************************************************)
(* What minting promises to creators and reporters, without facades,       *)
(* snapshots or retries: a submission has at most one block, a submission  *)
(* the community has withdrawn has none, withdrawal is for ever, and a     *)
(* finalized prefix of the chain is never rewritten.                       *)
(***************************************************************************)
EXTENDS Naturals, Sequences, SequencesExt

CONSTANT Submissions

VARIABLES
    chain,      \* the submissions of the blocks above genesis, in order
    final,      \* length of the finalized prefix of the chain
    withdrawn   \* submissions whose reports reached the threshold

vars == <<chain, final, withdrawn>>

Unminted(s) == s \notin ToSet(chain)

Promise ==
    /\ IsInjective(chain)
    /\ ToSet(chain) \cap withdrawn = {}
    /\ final <= Len(chain)

Init == chain = <<>> /\ final = 0 /\ withdrawn = {}

Mint(s) ==
    /\ Unminted(s) /\ s \notin withdrawn
    /\ chain' = Append(chain, s)
    /\ UNCHANGED <<final, withdrawn>>

Withdraw(s) ==
    /\ Unminted(s) /\ s \notin withdrawn
    /\ withdrawn' = withdrawn \cup {s}
    /\ UNCHANGED <<chain, final>>

Finalize ==
    /\ final' \in final + 1 .. Len(chain)
    /\ UNCHANGED <<chain, withdrawn>>

\* A whole-state snapshot replaces what is not finalized.
Replace ==
    /\ IsPrefix(SubSeq(chain, 1, final), chain')
    /\ Promise'
    /\ UNCHANGED <<final, withdrawn>>

Next == (\E s \in Submissions : Mint(s) \/ Withdraw(s)) \/ Finalize \/ Replace

Spec == Init /\ [][Next]_vars
=============================================================================
