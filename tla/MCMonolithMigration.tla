------------------------ MODULE MCMonolithMigration ------------------------
(* Model-checking instance of MonolithMigration: two engagements, one of    *)
(* them with interleaved lines.                                             *)
EXTENDS MonolithMigration

MCLines == 1..4
MCSegs == 1..2
MCSegOf == [n \in MCLines |-> IF n \in {1, 3, 4} THEN 1 ELSE 2]
=============================================================================
