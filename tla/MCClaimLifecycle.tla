-------------------------- MODULE MCClaimLifecycle --------------------------
(* Model-checking instance of ClaimLifecycle: two sessions of one tool, a    *)
(* peer with a tool of its own, and a claim from before sessions were        *)
(* stamped.                                                                  *)
EXTENDS ClaimLifecycle, TLC

A1 == [tool |-> "a", session |-> "s1"]
A2 == [tool |-> "a", session |-> "s2"]
B3 == [tool |-> "b", session |-> "s3"]
OldA == [tool |-> "a", session |-> "none"]

MCFamily == [t \in {"a", "b"} |-> t]
Peers == {A1, B3}
Everyone == {A1, A2, B3, OldA}
OneStamped == {A1}
OldOnes == {OldA}

Symmetry == Permutations(Files)
=============================================================================
