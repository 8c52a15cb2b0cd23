--------------------------- MODULE MCCommandLanes ----------------------------
(* CommandLanes with three entries in one lane: one of a lower priority, one *)
(* with a time-out.                                                          *)
EXTENDS CommandLanes, TLC

CONSTANTS main, e1, e2, e3

MCLaneOf == [e \in Entries |-> main]
MCPriorityOf == (e1 :> 0) @@ (e2 :> 1) @@ (e3 :> 1)
=============================================================================
