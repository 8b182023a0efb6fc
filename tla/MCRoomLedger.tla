--------------------------- MODULE MCRoomLedger ---------------------------
(* Model-checking instance of RoomLedger: i1 and i2 are two runs of one     *)
(* handoff command, any other id is a fact without an idempotency key.      *)
EXTENDS RoomLedger, TLC

CONSTANTS i1, i2

MCKeyOf == [i \in Ids |-> IF i \in {i1, i2} THEN "key" ELSE NoKey]

\* Processes are interchangeable, and so are segments and ids of one key.
Symmetry ==
    Permutations(Procs) \cup Permutations(Segs) \cup Permutations({i1, i2})
    \cup Permutations(Ids \ {i1, i2})
=============================================================================
