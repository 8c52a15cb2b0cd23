--------------------------- MODULE MCTraGovernance ---------------------------
(* TraGovernance with two packs: "glp1" writes, has rules, a ledger and     *)
(* standing consent; "reader" reads only, without rules, ledger or          *)
(* standing consent.  The session's agent suggests "reader", a request      *)
(* without an agent the default pack, "glp1".  A consent file that is found *)
(* holds no consent or a standing one of the default pack.                  *)
EXTENDS TraGovernance, TLC

CONSTANTS glp1, reader, s1

MCPacks == {glp1, reader}
MCWritePacks == {glp1}
MCAlwaysPacks == {glp1}
MCRulePacks == {glp1}
MCLedgerPacks == {glp1}
MCLegacyEntries == {[always |-> FALSE, sessions |-> {}],
                    [always |-> TRUE, sessions |-> {s1}]}
MCSuggestedPack == [s \in Sessions |-> reader]

MCSymmetry == Permutations(Calls)
=============================================================================
