---------------------------- MODULE EvidenceChain ----------------------------
(***************************************************************************)
(* What the evidence ledger promises of the evidence it shows: it is a     *)
(* chain that changes at its end only.  Evidence is added there, and what  *)
(* was shown is gone only if it is the last and its commit did not return, *)
(* or if the operator resets the ledger.                                   *)
(***************************************************************************)
EXTENDS Sequences, SequencesExt

CONSTANTS Commits

VARIABLES
    chain,      \* the evidence shown, oldest first
    loose       \* the last of it was written by a commit that did not return

vars == <<chain, loose>>

Init == chain = <<>> /\ loose = FALSE

Add(c) ==
    /\ ~loose
    /\ chain' = Append(chain, c)
    /\ loose' \in BOOLEAN

\* The next commit writes over loose evidence, and is not shown itself.
Drop ==
    /\ loose
    /\ chain' = Front(chain)
    /\ loose' = FALSE

Clear == chain' = <<>> /\ loose' = FALSE

Next == (\E c \in Commits : Add(c)) \/ Drop \/ Clear

Spec == Init /\ [][Next]_vars
=============================================================================
