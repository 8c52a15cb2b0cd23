----------------------------- MODULE MCRunLanes ------------------------------
(* Runs of one session over a global lane.                                   *)
EXTENDS RunLanes, TLC

CONSTANTS main, sa

MCEntries == Runs \X {"session", "global"}
MCSessionLaneOf == [r \in Runs |-> sa]
MCLaneOf == [e \in Entries |-> IF e[2] = "session" THEN SessionLaneOf[e[1]] ELSE main]
MCPriorityOf == [e \in Entries |-> 1]
MCTimedEntries == Runs \X {"global"}

\* The runs are interchangeable.
MCSymmetry == Permutations(Runs)
=============================================================================
