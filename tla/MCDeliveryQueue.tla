--------------------------- MODULE MCDeliveryQueue ----------------------------
(* DeliveryQueue with a channel whose first delivery is drained when it     *)
(* connects, and another one that only the pass at startup serves.          *)
EXTENDS DeliveryQueue

MCPasses == {"startup", "drain"}
MCMatches == [k \in Passes |-> IF k = Startup THEN Deliveries ELSE {1}]
=============================================================================
