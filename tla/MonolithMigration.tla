------------------------- MODULE MonolithMigration -------------------------
(***************************************************************************)
(* Splitting the one-file ledger of old rooms into segments                *)
(* (migrate_monolith_to_segments in store.rs), which every open runs under *)
(* the mutation lock before it reads anything.  The lines of the monolith  *)
(* are appended to the segments of their engagements, each segment is      *)
(* synced, and the monolith is renamed into the archive.                   *)
(*                                                                         *)
(* A line is a number, in monolith order, and so is an engagement, in the  *)
(* order of the partition map.  The text and the newline of a line are two *)
(* writes.  A segment is the set of lines that parse in it and the state   *)
(* of its last bytes, as in RoomLedger.                                    *)
(***************************************************************************)
EXTENDS Integers, FiniteSets, FiniteSetsExt

CONSTANTS
    Lines,      \* monolith lines
    Segs,       \* engagements
    SegOf       \* the engagement of a line

ASSUME LinesAssumption == Lines \subseteq Nat /\ Segs \subseteq Nat /\ SegOf \in [Lines -> Segs]

VARIABLES
    monolith,   \* the monolith is in place
    archived,   \* it is in the archive
    rows,       \* lines that parse, per segment
    durable,    \* those a sync covered
    end,        \* last bytes of each segment: clean, open, torn or corrupt
    todo,       \* lines this pass has still to write
    pc

files == <<monolith, archived, rows, durable, end>>
vars == <<monolith, archived, rows, durable, end, todo, pc>>

LinesOf(s) == {n \in Lines : SegOf[n] = s}
\* Partitions are written in key order, each in monolith order.
NextSeg == Min({SegOf[n] : n \in todo})
NextLine == Min(todo \cap LinesOf(NextSeg))

Init ==
    /\ monolith = TRUE /\ archived = FALSE
    /\ rows = [s \in Segs |-> {}] /\ durable = rows
    /\ end = [s \in Segs |-> "clean"]
    /\ todo = {} /\ pc = "down"

\* The room is opened: without a monolith, or with one that was archived
\* before, there is nothing to migrate.
Open ==
    /\ pc = "down"
    /\ monolith' = (monolith /\ ~archived)
    /\ \/ monolith /\ ~archived /\ todo' = Lines /\ pc' = "text"
       \/ ~(monolith /\ ~archived) /\ todo' = {} /\ pc' = "read"
    /\ UNCHANGED <<archived, rows, durable, end>>

\* The text of the next line.  It continues whatever the segment ends with;
\* behind a corrupt line nothing counts, since no reader gets there.
WriteText ==
    /\ pc = "text" /\ todo # {}
    /\ LET s == NextSeg IN
         \/ /\ end[s] = "clean"
            /\ rows' = [rows EXCEPT ![s] = @ \cup {NextLine}]
            /\ end' = [end EXCEPT ![s] = "open"]
         \/ /\ end[s] # "clean"
            /\ end' = [end EXCEPT ![s] = "corrupt"]
            /\ rows' = rows
    /\ pc' = "newline"
    /\ UNCHANGED <<monolith, archived, durable, todo>>

\* Its newline.  The segment is synced after its last line.
WriteNewline ==
    /\ pc = "newline"
    /\ LET s == NextSeg IN
         /\ end' = [end EXCEPT ![s] = IF @ = "open" THEN "clean" ELSE @]
         /\ todo' = todo \ {NextLine}
         /\ durable' = IF todo \cap LinesOf(s) = {NextLine}
                       THEN [durable EXCEPT ![s] = rows[s]] ELSE durable
    /\ pc' = "text"
    /\ UNCHANGED <<monolith, archived, rows>>

\* All segments are written and synced: the monolith goes to the archive.
Archive ==
    /\ pc = "text" /\ todo = {}
    /\ monolith' = FALSE /\ archived' = TRUE
    /\ pc' = "read"
    /\ UNCHANGED <<rows, durable, end, todo>>

\* The segments are read: a completed line that does not parse refuses.
ReadSegments ==
    /\ pc = "read"
    /\ pc' = IF \E s \in Segs : end[s] = "corrupt" THEN "refused" ELSE "ready"
    /\ UNCHANGED <<files, todo>>

\* The command ends.
Close ==
    /\ pc \in {"ready", "refused"}
    /\ pc' = "down"
    /\ UNCHANGED <<files, todo>>

\* Killed between two writes, or inside the write of a text.
Kill ==
    /\ pc \in {"text", "newline", "read"}
    /\ pc' = "down" /\ todo' = {}
    /\ \/ UNCHANGED <<rows, end>>
       \/ /\ pc = "text" /\ todo # {}
          /\ end' = [end EXCEPT ![NextSeg] = IF @ = "clean" THEN "torn" ELSE "corrupt"]
          /\ rows' = rows
    /\ UNCHANGED <<monolith, archived, durable>>

\* Power loss: lines no sync covered may be lost, from the end of each segment.
Survivors(s) ==
    {[rows |-> rows[s], end |-> end[s]]} \cup
    {[rows |-> durable[s] \cup {m \in rows[s] : m < n}, end |-> e] :
        n \in rows[s] \ durable[s], e \in {"clean", "torn"}}
LossOutcomes == {f \in [Segs -> UNION {Survivors(s) : s \in Segs}] :
                    \A s \in Segs : f[s] \in Survivors(s)}
PowerLoss ==
    /\ pc' = "down" /\ todo' = {}
    /\ \E f \in LossOutcomes :
         /\ rows' = [s \in Segs |-> f[s].rows]
         /\ end' = [s \in Segs |-> f[s].end]
    /\ UNCHANGED <<monolith, archived, durable>>

Next ==
    \/ Open \/ WriteText \/ WriteNewline \/ Archive \/ ReadSegments \/ Close
    \/ Kill \/ PowerLoss

Spec == Init /\ [][Next]_vars

-----------------------------------------------------------------------------
(* Properties *)

\* The migration is idempotent and atomic per partition: however often it was
\* interrupted, the room opens in the end.
NeverRefused == pc # "refused"
=============================================================================
