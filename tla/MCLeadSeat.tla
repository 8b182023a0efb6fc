----------------------------- MODULE MCLeadSeat -----------------------------
(* Model-checking instance of LeadSeat. *)
EXTENDS LeadSeat, TLC

\* Agents are interchangeable.
Symmetry == Permutations(Tools)
=============================================================================
