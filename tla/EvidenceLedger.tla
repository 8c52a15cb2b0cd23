--------------------------- MODULE EvidenceLedger ----------------------------
(***************************************************************************)
(* The evidence ledger (trustclaw/ledger): a file of one receipt per line, *)
(* each with the hash of the one before it, and the readers of it: the     *)
(* next commit, which takes the last receipt for the head of the chain,    *)
(* and verifyEvidenceChain.                                                *)
(*                                                                         *)
(* A commit reads and writes within one step of the event loop, but its    *)
(* write may fail or stop anywhere: a full disk, or the end of the         *)
(* process.  What it leaves without a newline is joined by the next line.  *)
(***************************************************************************)
EXTENDS Naturals, Sequences, FiniteSets, SequencesExt

CONSTANTS
    Commits     \* calls of commitEvidenceReceipt: one for each audit trail

VARIABLES
    lines,      \* the lines of the file that parse
    malformed,  \* how many lines ended by a newline do not
    end,        \* what the file ends in
    called,     \* the calls made so far
    returned    \* history: receipts handed out since the ledger was cleared

file == <<lines, malformed, end>>
vars == <<file, called, returned>>

-----------------------------------------------------------------------------
\* SHA-256 is taken to have no collisions: a hash is the list of all that it
\* covers, and null the empty list.
ProofHash(previous, c) == Append(previous, c)

Hashes == Seq(Commits)
Receipts == [block_height : Nat, commit : Commits, previous : Hashes, proof : Hashes]

\* A newline, the part of a line, or a receipt that lost only its newline,
\* the last of the lines that parse.
Ends == {"newline", "fragment", "receipt"}

TypeOK ==
    /\ lines \in Seq(Receipts)
    /\ malformed \in Nat
    /\ end \in Ends
    /\ called \subseteq Commits
    /\ returned \subseteq Receipts

Init ==
    /\ lines = <<>> /\ malformed = 0 /\ end = "newline"
    /\ called = {} /\ returned = {}

\* Lines that do not parse are skipped, the fragment at the end too.
ReadEvidenceReceipts == lines

\* A plausible bug: the head of the chain is the first receipt of the file.
NewReceipt_OnFirst(rs, c) ==
    LET previous == IF rs = <<>> THEN <<>> ELSE Head(rs).proof
    IN  [block_height |-> IF rs = <<>> THEN 0 ELSE Last(rs).block_height + 1,
         commit |-> c, previous |-> previous, proof |-> ProofHash(previous, c)]

\* The receipt of c on the chain rs.
NewReceipt(rs, c) ==
    LET previous == IF rs = <<>> THEN <<>> ELSE Last(rs).proof
    IN  [block_height |-> IF rs = <<>> THEN 0 ELSE Last(rs).block_height + 1,
         commit |-> c, previous |-> previous, proof |-> ProofHash(previous, c)]

\* A plausible bug: the links are compared and the hashes not computed again.
VerifyEvidenceChain_LinksOnly(rs) ==
    \A i \in 1 .. Len(rs) :
        rs[i].previous = (IF i = 1 THEN <<>> ELSE rs[i - 1].proof)

\* The loop returns at the first receipt that is not linked to the one before
\* it or has not the hash of what it covers.
VerifyEvidenceChain(rs) ==
    \A i \in 1 .. Len(rs) :
        /\ rs[i].previous = (IF i = 1 THEN <<>> ELSE rs[i - 1].proof)
        /\ rs[i].proof = ProofHash(rs[i].previous, rs[i].commit)

-----------------------------------------------------------------------------
\* What is left of the lines when more is written after them: a receipt at
\* the end that lost its newline does not parse any more.
Joined == IF end = "receipt" THEN Front(lines) ELSE lines

\* A plausible bug: a file that does not end in a newline is written anew.
AppendEvidenceReceipt_Anew(r) ==
    /\ lines' = (IF end = "newline" THEN Append(lines, r) ELSE <<r>>)
    /\ malformed' = (IF end = "newline" THEN malformed ELSE 0)
    /\ end' = "newline"

\* The whole line is written, and is one with what had no newline.
AppendEvidenceReceipt(r) ==
    /\ lines' = (IF end = "newline" THEN Append(lines, r) ELSE Joined)
    /\ malformed' = (IF end = "newline" THEN malformed ELSE malformed + 1)
    /\ end' = "newline"

\* A part of the line is, or all but its newline.
AppendStops(r) ==
    /\ \/ lines' = Joined /\ end' = "fragment"
       \/ end = "newline" /\ lines' = Append(lines, r) /\ end' = "receipt"
    /\ UNCHANGED malformed

Call(c) == c \notin called /\ called' = called \cup {c}

CommitEvidenceReceipt(c) ==
    LET r == NewReceipt(ReadEvidenceReceipts, c)
    IN  /\ Call(c)
        /\ AppendEvidenceReceipt(r)
        /\ returned' = returned \cup {r}

\* The call throws, or the process ends before it returns.
CommitFails(c) ==
    LET r == NewReceipt(ReadEvidenceReceipts, c)
    IN  /\ Call(c)
        /\ \/ UNCHANGED file
           \/ AppendStops(r)
           \/ AppendEvidenceReceipt(r)
        /\ UNCHANGED returned

\* A plausible bug: the ledger is emptied up to its last newline.
ClearEvidenceLedger_ToNewline ==
    /\ lines' = (IF end = "receipt" THEN <<Last(lines)>> ELSE <<>>)
    /\ malformed' = 0 /\ UNCHANGED end
    /\ returned' = {}
    /\ UNCHANGED called

ClearEvidenceLedger ==
    /\ lines' = <<>> /\ malformed' = 0 /\ end' = "newline"
    /\ returned' = {}
    /\ UNCHANGED called

Next ==
    \/ \E c \in Commits : CommitEvidenceReceipt(c) \/ CommitFails(c)
    \/ ClearEvidenceLedger

Spec == Init /\ [][Next]_vars

-----------------------------------------------------------------------------
(* Properties.                                                             *)

\* The ledger verifies, whatever was lost while it was written: a commit
\* takes as head exactly what the readers take as the last receipt.
LedgerVerifies == VerifyEvidenceChain(ReadEvidenceReceipts)

\* Heights count the receipts shown, although verification does not look at
\* them: none is missing and none is given twice.
HeightsCount ==
    \A i \in 1 .. Len(ReadEvidenceReceipts) : ReadEvidenceReceipts[i].block_height = i - 1

\* Verification finds a ledger out that is not as it was written: a receipt
\* other than the last is taken out, or one is made to be about another call.
TamperingIsFound ==
    LET rs == ReadEvidenceReceipts
    IN  \A i \in 1 .. Len(rs) :
           /\ i < Len(rs) => ~VerifyEvidenceChain(RemoveAt(rs, i))
           /\ \A c \in Commits \ {rs[i].commit} :
                 ~VerifyEvidenceChain([rs EXCEPT ![i].commit = c])

\* A receipt that was handed out and is not shown was lost to a malformed
\* line, and no such line lost two of them.
LossIsMalformed ==
    Cardinality(returned \ ToSet(ReadEvidenceReceipts)) <= malformed

\* The calls some receipts are about.
CallsOf(rs) == [i \in 1 .. Len(rs) |-> rs[i].commit]

Chain == INSTANCE EvidenceChain WITH
    chain <- CallsOf(ReadEvidenceReceipts),
    loose <- end = "receipt"

\* The ledger keeps the promise of EvidenceChain: what it shows changes at its
\* end only, and a receipt that lost its newline is all a later commit takes
\* away.
ChainGrowsAtItsEnd == Chain!Spec

=============================================================================
