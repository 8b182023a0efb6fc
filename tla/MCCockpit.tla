----------------------------- MODULE MCCockpit ------------------------------
(* Model-checking instance of Cockpit. *)
EXTENDS Cockpit
=============================================================================
