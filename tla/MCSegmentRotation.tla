------------------------- MODULE MCSegmentRotation -------------------------
(* Model-checking instance of SegmentRotation: two engagements, of which    *)
(* the second has the name of the monolith's backup.                        *)
EXTENDS SegmentRotation

MCLines == 1..3
MCSegs == 1..2
MCSegOf == [n \in MCLines |-> IF n = 2 THEN 2 ELSE 1]
=============================================================================
