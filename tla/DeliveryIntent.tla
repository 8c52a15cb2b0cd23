---------------------------- MODULE DeliveryIntent ----------------------------
(***************************************************************************)
(* What a durable delivery promises: from the moment it is owed, its       *)
(* payloads may reach the platform, until it is settled, withdrawn by its  *)
(* caller, or parked for an operator; after that nothing of it is sent any *)
(* more, and it is settled only when everything has been sent.  A          *)
(* best-effort delivery may be settled with less.                          *)
(***************************************************************************)
CONSTANTS Deliveries, Payloads, BestEffort

VARIABLES
    fate,       \* "none", "direct", "owed", "settled", "withdrawn", "parked"
    reached     \* the payloads that the platform has

vars == <<fate, reached>>

Init ==
    /\ fate = [d \in Deliveries |-> "none"]
    /\ reached = [d \in Deliveries |-> {}]

\* The intent is recorded; when it cannot be, the delivery is sent directly,
\* and nobody owes it.
Accept(d, f) ==
    /\ fate[d] = "none" /\ f \in {"owed", "direct"}
    /\ fate' = [fate EXCEPT ![d] = f]
    /\ UNCHANGED reached

Reach(d, p) ==
    /\ fate[d] \in {"owed", "direct"}
    /\ reached' = [reached EXCEPT ![d] = @ \cup {p}]
    /\ UNCHANGED fate

Settle(d) ==
    /\ fate[d] = "owed"
    /\ d \in BestEffort \/ reached[d] = Payloads
    /\ fate' = [fate EXCEPT ![d] = "settled"]
    /\ UNCHANGED reached

GiveUp(d, f) ==
    /\ fate[d] = "owed" /\ f \in {"withdrawn", "parked"}
    /\ fate' = [fate EXCEPT ![d] = f]
    /\ UNCHANGED reached

Next ==
    \E d \in Deliveries :
        \/ \E f \in {"owed", "direct"} : Accept(d, f)
        \/ \E p \in Payloads : Reach(d, p)
        \/ Settle(d)
        \/ \E f \in {"withdrawn", "parked"} : GiveUp(d, f)

Spec == Init /\ [][Next]_vars
=============================================================================
