----------------------------- MODULE MCHandoffs -----------------------------
(* Two launching processes; a1 of tool A, b1 and b2 of tool B.  The sender  *)
(* b1 addresses a peer, its own tool or nobody, so that each has a sibling  *)
(* or a bystander.  Managed sessions run as tool B.                         *)
EXTENDS Handoffs, TLC

CONSTANTS a1, b1, b2, A, B

MCAgentTool == (a1 :> A) @@ (b1 :> B) @@ (b2 :> B)

Symmetry == Permutations(Procs)
=============================================================================
