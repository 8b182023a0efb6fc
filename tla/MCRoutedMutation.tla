-------------------------- MODULE MCRoutedMutation --------------------------
(* Model-checking instance of RoutedMutation. *)
EXTENDS RoutedMutation, TLC

\* Commands that reach the room the same way are interchangeable.
Symmetry == Permutations(Direct) \cup Permutations(Routed)
=============================================================================
