------------------------------ MODULE AuditTrail ------------------------------
(***************************************************************************)
(* What the trust runtime promises of the trail a call leaves: it holds    *)
(* the stages that one pack declares, in their order, and a call answers   *)
(* only when all of them are there; a blocked call leaves the refusal      *)
(* alone.  A call that is over never adds to its trail, and trails are     *)
(* only ever forgotten all at once, never under a call that has begun one. *)
(***************************************************************************)
EXTENDS Naturals

CONSTANTS
    Calls, Packs,
    Declared,   \* per pack: the stages of its pipeline
    Rank        \* per stage: its place in a pipeline

VARIABLES
    outcome,    \* per call: "open", "answered" or "failed"
    trail,      \* what is recorded: a call, a stage and the pack it is about
    receipts    \* the calls with a receipt, and the pack it is about

vars == <<outcome, trail, receipts>>

Init ==
    /\ outcome = [c \in Calls |-> "open"]
    /\ trail = {} /\ receipts = {}

Open == {c \in Calls : outcome[c] = "open"}

\* Nothing is recorded of c.
Unbegun(c) == \A e \in trail : e[1] # c

Recorded(c, p, stages) == \A s \in stages : <<c, s, p>> \in trail

\* The next stage of a call that is open; if it is the last, it may answer with it.
Record(c, p, s) ==
    /\ \A e \in trail : e[1] = c => e[3] = p
    /\ Recorded(c, p, {st \in Declared[p] : Rank[st] < Rank[s]})
    /\ s = "LEDGER_COMMIT" => <<c, p>> \in receipts
    /\ trail' = trail \cup {<<c, s, p>>}
    /\ \/ UNCHANGED outcome
       \/ Recorded(c, p, Declared[p])' /\ outcome' = [outcome EXCEPT ![c] = "answered"]
    /\ UNCHANGED receipts

\* A receipt comes after all but its own stage.
Commit(c, p) ==
    /\ "LEDGER_COMMIT" \in Declared[p]
    /\ Recorded(c, p, Declared[p] \ {"LEDGER_COMMIT"})
    /\ receipts' = receipts \cup {<<c, p>>}
    /\ UNCHANGED <<outcome, trail>>

\* A write leaves one event, and answers with it.
Enter(c, p) ==
    /\ Unbegun(c)
    /\ outcome' = [outcome EXCEPT ![c] = "answered"]
    /\ trail' = trail \cup {<<c, "DEVICE_IMPORT", p>>}
    /\ UNCHANGED receipts

\* A refusal is recorded before anything else is, and ends the call.
Block(c, p) ==
    /\ Unbegun(c)
    /\ outcome' = [outcome EXCEPT ![c] = "failed"]
    /\ trail' = trail \cup {<<c, "BLOCKED", p>>}
    /\ UNCHANGED receipts

\* Calls fail where they are; a crash takes several.
Fail(S) ==
    /\ outcome' = [c \in Calls |-> IF c \in S THEN "failed" ELSE outcome[c]]
    /\ UNCHANGED <<trail, receipts>>

\* No call has begun a trail and is not over.
Undisturbed == \A c \in Open : Unbegun(c)

ForgetTrails ==
    /\ Undisturbed
    /\ trail' = {}
    /\ UNCHANGED <<outcome, receipts>>

ForgetReceipts ==
    /\ Undisturbed
    /\ receipts' = {}
    /\ UNCHANGED <<outcome, trail>>

Next ==
    \/ \E S \in SUBSET Open : Fail(S)
    \/ \E c \in Open, p \in Packs :
          (\E s \in Declared[p] : Record(c, p, s)) \/ Commit(c, p) \/ Enter(c, p) \/ Block(c, p)
    \/ ForgetTrails
    \/ ForgetReceipts

Spec == Init /\ [][Next]_vars
=============================================================================
