------------------------------- MODULE Approval -------------------------------
(***************************************************************************)
(* What an approval promises: a request gets one outcome, a decision or    *)
(* none ("null"), that never changes, and an allow-once is spent once.     *)
(***************************************************************************)
CONSTANTS Requests, Decisions

VARIABLES
    outcome,    \* per request: "open", a decision, or "null"
    spent       \* requests whose allow-once was used

vars == <<outcome, spent>>

Init == outcome = [r \in Requests |-> "open"] /\ spent = {}

Settle(r, d) ==
    /\ outcome[r] = "open"
    /\ outcome' = [outcome EXCEPT ![r] = d]
    /\ UNCHANGED spent

Spend(r) ==
    /\ outcome[r] = "allow-once" /\ r \notin spent
    /\ spent' = spent \cup {r}
    /\ UNCHANGED outcome

Next == \E r \in Requests : Spend(r) \/ \E d \in Decisions \cup {"null"} : Settle(r, d)

Spec == Init /\ [][Next]_vars
=============================================================================
