--------------------------- MODULE LedgerContract ---------------------------
(***************************************************************************)
(* What the room ledger promises its readers while the machine stays up:   *)
(* an append-only set of rows whose sequence numbers grow, in which an     *)
(* event id never appears twice, and of which some rows have been reported *)
(* committed.  RoomLedger implements it.                                   *)
(***************************************************************************)
EXTENDS Integers

CONSTANTS Ids, Segs, MaxSeq

VARIABLES rows, acked

contractVars == <<rows, acked>>

Init == rows = {} /\ acked = {}

\* One row joins above every other, under an id that no row has.
Append ==
    \E n \in 1..MaxSeq, i \in Ids, s \in Segs :
        /\ \A r \in rows : r.seq < n /\ r.id # i
        /\ rows' = rows \cup {[seq |-> n, id |-> i, seg |-> s]}
        /\ acked' = acked

\* A row of the ledger is reported committed.
Report ==
    \E r \in rows : acked' = acked \cup {r} /\ rows' = rows

Next == Append \/ Report
Spec == Init /\ [][Next]_contractVars
=============================================================================
