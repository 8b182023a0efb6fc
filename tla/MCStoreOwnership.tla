-------------------------- MODULE MCStoreOwnership --------------------------
(* Model-checking instance of StoreOwnership. *)
EXTENDS StoreOwnership, TLC

\* Commands are interchangeable, and so are daemons.
Symmetry == Permutations(Commands) \cup Permutations(Daemons)
=============================================================================
