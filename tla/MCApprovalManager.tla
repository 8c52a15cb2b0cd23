-------------------------- MODULE MCApprovalManager ---------------------------
(* ApprovalManager with two requests that give the same id, in any order;  *)
(* one of them does not allow allow-always.                                *)
EXTENDS ApprovalManager, TLC

CONSTANTS i1, r1, r2

MCIdOf == (r1 :> i1) @@ (r2 :> i1)
MCAllowedBy == (r1 :> Decisions) @@ (r2 :> Decisions \ {"allow-always"})
=============================================================================
