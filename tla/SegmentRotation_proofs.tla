----------------------- MODULE SegmentRotation_proofs -----------------------
(***************************************************************************)
(* Proofs about SegmentRotation: for any monolith, any engagements and any *)
(* number of appends and generations, a rotation never changes what is     *)
(* replayed, and a room that opens has all of its history, whatever was    *)
(* killed or lost power in between.                                        *)
(***************************************************************************)
EXTENDS SegmentRotation, WellFoundedInduction, TLAPS

-----------------------------------------------------------------------------
(* Inductive invariant *)

\* Every segment has its rows, its last bytes, its links and its past, and a
\* sync covers rows that are there.
Shapes ==
    /\ DOMAIN rows = Segs /\ DOMAIN durable = Segs /\ DOMAIN end = Segs
    /\ DOMAIN link = Segs /\ gone = [s \in Segs |-> gone[s]]
    /\ \A s \in Segs : durable[s] \subseteq rows[s]

\* An archive name is one of a segment and never that of the monolith's backup;
\* a synced name and a link to a live segment are among the archive names, and
\* a name the live segment had before it was unlinked is not one it has now.
NamesSound ==
    /\ DOMAIN archive \subseteq Segs \X Nat
    /\ BackupName \notin DOMAIN archive
    /\ onDisk \subseteq DOMAIN archive
    /\ \A s \in Segs : \A g \in link[s] : <<s, g>> \in DOMAIN archive
    /\ \A s \in Segs : gone[s] # None =>
         \A g \in gone[s].link : <<s, g>> \in DOMAIN archive /\ g \notin link[s]

\* From the link to the unlink the archive has what the live segment has; it
\* is synced before the directory is, and the directory before the unlink.
TargetSound ==
    pc \in {"syncfile", "syncarchive", "unlink"} =>
        /\ <<Source, target>> \in DOMAIN archive
        /\ ArchiveFile(<<Source, target>>) = Live(Source)
        /\ pc # "syncfile" /\ target \in link[Source] => durable[Source] = rows[Source]
        /\ pc = "unlink" => <<Source, target>> \in onDisk

PlanSound ==
    /\ plan \subseteq Segs
    /\ pc \in Rotating => plan # {} /\ \A s \in Segs : end[s] # "corrupt"

\* A migration pass has written every line it is done with, unless the segment
\* does not read; a segment it is done with is synced.
PassWrote ==
    pc \in {"text", "newline"} =>
        /\ todo \subseteq Lines /\ (pc = "newline" => todo # {})
        /\ \A n \in Lines : n \notin todo \/ (pc = "newline" /\ n = NextLine) =>
             n \in rows[SegOf[n]] \/ end[SegOf[n]] = "corrupt"
        /\ \A n \in Lines : todo \cap LinesOf(SegOf[n]) = {} =>
             durable[SegOf[n]] = rows[SegOf[n]] /\ gone[SegOf[n]] = None

\* The room is read only after the monolith was archived.
Phases ==
    /\ archived \in BOOLEAN
    /\ archived \/ (monolith /\ acked = {})
    /\ pc \in {"text", "newline"} => ~archived
    /\ pc \in {"read", "refused", "ready"} => archived
    /\ pc = "ready" => \A s \in Segs : end[s] # "corrupt"

\* A row is safe in the synced part of a live segment whose name is settled, or in
\* an archive file of its own; if a power loss may turn that file into
\* a live segment again, then in what was synced of it.
SafeLive(x, s) == gone[s] = None /\ x \in durable[s]
SafeArchived(x, a) ==
    /\ a[2] \notin link[a[1]]
    /\ x \in archive[a].rows
    /\ gone[a[1]] # None /\ a[2] \in gone[a[1]].link => x \in gone[a[1]].rows
Safe(x) == (\E s \in Segs : SafeLive(x, s)) \/ (\E a \in onDisk : SafeArchived(x, a))

\* A segment that no reader gets past, and that stays so.
Stuck(s) == end[s] = "corrupt" /\ durable[s] = rows[s] /\ gone[s] = None

HistorySafe ==
    /\ \A x \in acked : Safe(x)
    /\ archived => (\A n \in Lines : Safe(n)) \/ (\E s \in Segs : Stuck(s))

RotationInv ==
    /\ Shapes
    /\ NamesSound
    /\ TargetSound
    /\ PlanSound
    /\ PassWrote
    /\ Phases
    /\ HistorySafe

-----------------------------------------------------------------------------
(* Choices *)

\* A nonempty set of numbers has a first one.
LEMMA FirstExists ==
    ASSUME NEW S \in SUBSET Nat, S # {}
    PROVE  Min(S) \in S
<1>1. PICK m \in S : \A k \in S : ~(<<k, m>> \in OpToRel(<, Nat))
  BY NatLessThanWellFounded, WFMin
<1>2. \A k \in S : ~(k < m)
  BY <1>1 DEF OpToRel
<1>3. \A k \in S : m <= k
  BY <1>2
<1> QED BY <1>3 DEF Min

\* The next line of a pass is one it has still to write, of the next segment.
LEMMA NextLineSound ==
    ASSUME todo \subseteq Lines, todo # {}
    PROVE  /\ NextSeg \in Segs /\ NextLine \in todo /\ NextLine \in Lines
           /\ SegOf[NextLine] = NextSeg
<1> USE LinesAssumption
<1>1. {SegOf[n] : n \in todo} \in SUBSET Nat /\ {SegOf[n] : n \in todo} # {}
  OBVIOUS
<1>2. NextSeg \in {SegOf[n] : n \in todo}
  BY <1>1, FirstExists DEF NextSeg
<1>3. todo \cap LinesOf(NextSeg) \in SUBSET Nat /\ todo \cap LinesOf(NextSeg) # {}
  BY <1>2 DEF LinesOf
<1>4. NextLine \in todo \cap LinesOf(NextSeg)
  BY <1>3, FirstExists DEF NextLine
<1> QED BY <1>2, <1>4 DEF LinesOf

\* The segment a rotation moves is one of its plan.
LEMMA SourceSound ==
    ASSUME plan \subseteq Segs, plan # {}
    PROVE  Source \in plan /\ Source \in Segs
<1>1. plan \in SUBSET Nat
  BY LinesAssumption
<1>2. Source \in plan
  BY <1>1, FirstExists DEF Source
<1> QED BY <1>2

-----------------------------------------------------------------------------
(* Replay *)

\* A safe row is replayed.
LEMMA SafeReplayed ==
    ASSUME RotationInv, NEW x, Safe(x)
    PROVE  x \in Replayed
<1>1. CASE \E s \in Segs : SafeLive(x, s)
  BY <1>1 DEF SafeLive, RotationInv, Shapes, Replayed
<1>2. CASE \E a \in onDisk : SafeArchived(x, a)
  <2>1. PICK a \in onDisk : SafeArchived(x, a)
    BY <1>2
  <2>2. a \in ReplayedNames
    BY <2>1 DEF RotationInv, NamesSound, ReplayedNames
  <2>3. x \in ArchiveFile(a).rows
    BY <2>1 DEF SafeArchived, ArchiveFile
  <2> QED BY <2>2, <2>3 DEF Replayed
<1> QED BY <1>1, <1>2 DEF Safe

\* A room that opens has its history.
LEMMA InvKept == RotationInv => RoomKept
<1> SUFFICES ASSUME RotationInv, pc = "ready", NEW x \in Lines \cup acked
             PROVE  x \in Replayed
  BY DEF RoomKept
<1>1. ~ \E s \in Segs : Stuck(s)
  BY DEF RotationInv, Phases, Stuck
<1>2. Safe(x)
  BY <1>1 DEF RotationInv, Phases, HistorySafe
<1> QED BY <1>2, SafeReplayed

-----------------------------------------------------------------------------
(* Migration *)

LEMMA InitInv == InitRotation => RotationInv
<1> SUFFICES ASSUME InitRotation PROVE RotationInv
  OBVIOUS
<1> USE DEF InitRotation, Init
<1>1. Shapes
  BY DEF Shapes
<1>2. NamesSound
  BY DEF NamesSound
<1>3. TargetSound /\ PlanSound /\ PassWrote /\ Phases /\ HistorySafe
  BY DEF TargetSound, PlanSound, PassWrote, Phases, HistorySafe, Rotating
<1> QED BY <1>1, <1>2, <1>3 DEF RotationInv

\* What is safe and what is stuck depends on the disk only.
LEMMA SafeUnchanged ==
    ASSUME NEW x, Safe(x), durable' = durable, gone' = gone, archive' = archive,
           link' = link, onDisk' = onDisk
    PROVE  Safe(x)'
  BY DEF Safe, SafeLive, SafeArchived

\* Steps that leave the archive and all synced rows alone.
LEMMA DiskUnchanged ==
    ASSUME RotationInv, acked' = acked, archived' = archived, rows' = rows, end' = end,
           durable' = durable, gone' = gone, archive' = archive, link' = link, onDisk' = onDisk
    PROVE  Shapes' /\ NamesSound' /\ HistorySafe'
<1>1. Shapes'
  BY DEF RotationInv, Shapes
<1>2. NamesSound'
  BY DEF RotationInv, NamesSound, BackupName
<1>3. HistorySafe'
  BY SafeUnchanged DEF RotationInv, HistorySafe, Stuck
<1> QED BY <1>1, <1>2, <1>3

\* A step of the migration settles the name of a segment only when it syncs it.
LEMMA GoneKept ==
    ASSUME RotationInv, MigrationStep, pc # "newline" \/ pc' # "text"
    PROVE  gone' = gone
  BY DEF RotationInv, Shapes, MigrationStep, SyncsSegment

\* Open, and the end of a command.
LEMMA OpenCloseInv ==
    ASSUME RotationInv, MigrationStep, Open \/ Close
    PROVE  RotationInv'
<1>0. pc \in {"down", "ready", "refused"} /\ pc' \in {"down", "text", "read"}
  BY DEF Open, Close
<1>1. /\ rows' = rows /\ end' = end /\ durable' = durable /\ archived' = archived
      /\ acked' = acked /\ archive' = archive /\ link' = link /\ onDisk' = onDisk
      /\ plan' = plan
  BY DEF Open, Close, files, MigrationStep
<1>2. gone' = gone
  BY <1>0, GoneKept
<1>3. Shapes' /\ NamesSound' /\ HistorySafe'
  BY <1>1, <1>2, DiskUnchanged
<1>4. TargetSound' /\ PlanSound'
  BY <1>0, <1>1 DEF RotationInv, TargetSound, PlanSound, Rotating
<1>5. Phases'
  BY <1>0, <1>1 DEF RotationInv, Phases, Open, Close, files
<1>6. PassWrote'
  <2>1. CASE pc' = "text"
    <3>1. todo' = Lines
      BY <2>1, <1>0 DEF Open, Close
    <3>2. \A n \in Lines : n \in LinesOf(SegOf[n])'
      BY DEF LinesOf
    <3> QED BY <2>1, <3>1, <3>2 DEF PassWrote
  <2> QED BY <1>0, <2>1 DEF PassWrote
<1> QED BY <1>3, <1>4, <1>5, <1>6 DEF RotationInv

\* A step while the monolith is not archived has no history to lose.
LEMMA BeforeArchive ==
    ASSUME RotationInv, ~archived, archived' = archived, acked' = acked
    PROVE  HistorySafe'
  BY DEF RotationInv, Phases, HistorySafe

\* The archive's names do not depend on the rows.
LEMMA NamesUnchanged ==
    ASSUME RotationInv, archive' = archive, link' = link, onDisk' = onDisk,
           \A s \in Segs : gone'[s] \in {None, gone[s]}
    PROVE  NamesSound'
  BY DEF RotationInv, NamesSound, BackupName

\* The text of a line.
LEMMA WriteTextInv ==
    ASSUME RotationInv, MigrationStep, WriteText
    PROVE  RotationInv'
<1>0. pc = "text" /\ pc' = "newline" /\ todo # {} /\ todo' = todo
  BY DEF WriteText
<1>1. /\ durable' = durable /\ archived' = archived /\ monolith' = monolith
      /\ acked' = acked /\ archive' = archive /\ link' = link /\ onDisk' = onDisk
      /\ plan' = plan
  BY DEF WriteText, MigrationStep
<1>2. gone' = gone
  BY <1>0, GoneKept
<1>3. todo \subseteq Lines /\ ~archived
  BY <1>0 DEF RotationInv, PassWrote, Phases
<1>4. NextSeg \in Segs /\ NextLine \in todo /\ SegOf[NextLine] = NextSeg
  BY <1>0, <1>3, NextLineSound
<1>5. /\ DOMAIN rows' = Segs /\ DOMAIN end' = Segs
      /\ \A s \in Segs : rows[s] \subseteq rows'[s]
      /\ \A s \in Segs \ {NextSeg} : rows'[s] = rows[s] /\ end'[s] = end[s]
      /\ end[NextSeg] = "corrupt" => end'[NextSeg] = "corrupt"
      /\ NextLine \in rows'[NextSeg] \/ end'[NextSeg] = "corrupt"
  BY <1>4 DEF WriteText, RotationInv, Shapes
<1>6. Shapes'
  BY <1>1, <1>2, <1>5 DEF RotationInv, Shapes
<1>7. NamesSound'
  BY <1>1, <1>2, NamesUnchanged
<1>8. TargetSound' /\ PlanSound' /\ Phases'
  BY <1>0, <1>1, <1>3 DEF RotationInv, TargetSound, PlanSound, Phases, Rotating
<1>9. PassWrote'
  <2>1. NextLine' = NextLine /\ NextSeg' = NextSeg /\ \A s : LinesOf(s)' = LinesOf(s)
    BY <1>0 DEF NextLine, NextSeg, LinesOf
  <2>2. ASSUME NEW n \in Lines, n \notin todo \/ n = NextLine
        PROVE  n \in rows'[SegOf[n]] \/ end'[SegOf[n]] = "corrupt"
    <3>1. SegOf[n] \in Segs
      BY LinesAssumption
    <3>2. CASE n = NextLine
      BY <3>2, <1>4, <1>5
    <3>3. CASE n \notin todo
      BY <3>1, <3>3, <1>0, <1>5 DEF RotationInv, PassWrote
    <3> QED BY <2>2, <3>2, <3>3
  <2>3. ASSUME NEW n \in Lines, todo \cap LinesOf(SegOf[n]) = {}
        PROVE  durable'[SegOf[n]] = rows'[SegOf[n]] /\ gone'[SegOf[n]] = None
    <3>1. SegOf[n] \in Segs
      BY LinesAssumption
    <3>2. SegOf[n] # NextSeg
      BY <2>3, <1>3, <1>4 DEF LinesOf
    <3>3. durable[SegOf[n]] = rows[SegOf[n]] /\ gone[SegOf[n]] = None
      BY <2>3, <1>0 DEF RotationInv, PassWrote
    <3> QED BY <3>1, <3>2, <3>3, <1>1, <1>2, <1>5
  <2> QED BY <2>1, <2>2, <2>3, <1>0, <1>3 DEF PassWrote
<1>10. HistorySafe'
  BY <1>1, <1>3, BeforeArchive
<1> QED BY <1>6, <1>7, <1>8, <1>9, <1>10 DEF RotationInv

\* The newline of a line, and the sync after the last one.
LEMMA WriteNewlineInv ==
    ASSUME RotationInv, MigrationStep, WriteNewline
    PROVE  RotationInv'
<1>0. pc = "newline" /\ pc' = "text" /\ todo' = todo \ {NextLine}
  BY DEF WriteNewline
<1>1. /\ rows' = rows /\ archived' = archived /\ monolith' = monolith
      /\ acked' = acked /\ archive' = archive /\ link' = link /\ onDisk' = onDisk
      /\ plan' = plan
  BY DEF WriteNewline, MigrationStep
<1>2. todo \subseteq Lines /\ todo # {} /\ ~archived
  BY <1>0 DEF RotationInv, PassWrote, Phases
<1>3. NextSeg \in Segs /\ NextLine \in todo /\ SegOf[NextLine] = NextSeg
  BY <1>2, NextLineSound
<1>4. /\ gone' = [s \in Segs |-> gone'[s]]
      /\ \A s \in Segs : gone'[s] \in {None, gone[s]}
      /\ todo \cap LinesOf(NextSeg) = {NextLine} => gone'[NextSeg] = None
  BY <1>0, <1>3 DEF MigrationStep, SyncsSegment
<1>5. /\ DOMAIN durable' = Segs /\ DOMAIN end' = Segs
      /\ \A s \in Segs : durable'[s] \in {durable[s], rows[s]}
      /\ \A s \in Segs : end[s] = "corrupt" => end'[s] = "corrupt"
      /\ todo \cap LinesOf(NextSeg) = {NextLine} => durable'[NextSeg] = rows[NextSeg]
  BY <1>3 DEF WriteNewline, RotationInv, Shapes
<1>6. Shapes'
  BY <1>1, <1>4, <1>5 DEF RotationInv, Shapes
<1>7. NamesSound'
  BY <1>1, <1>4, NamesUnchanged
<1>8. TargetSound' /\ PlanSound' /\ Phases'
  BY <1>0, <1>1, <1>2 DEF RotationInv, TargetSound, PlanSound, Phases, Rotating
<1>9. PassWrote'
  <2>2. ASSUME NEW n \in Lines, n \notin todo'
        PROVE  n \in rows'[SegOf[n]] \/ end'[SegOf[n]] = "corrupt"
    <3>1. SegOf[n] \in Segs
      BY LinesAssumption
    <3>2. n \in rows[SegOf[n]] \/ end[SegOf[n]] = "corrupt"
      BY <2>2, <1>0 DEF RotationInv, PassWrote
    <3> QED BY <3>1, <3>2, <1>1, <1>5
  <2>3. ASSUME NEW n \in Lines, todo' \cap LinesOf(SegOf[n]) = {}
        PROVE  durable'[SegOf[n]] = rows'[SegOf[n]] /\ gone'[SegOf[n]] = None
    <3>1. SegOf[n] \in Segs
      BY LinesAssumption
    <3>2. CASE SegOf[n] = NextSeg
      <4>1. todo \cap LinesOf(NextSeg) = {NextLine}
        BY <2>3, <3>2, <1>0, <1>2, <1>3 DEF LinesOf
      <4> QED BY <4>1, <3>2, <1>1, <1>4, <1>5
    <3>3. CASE SegOf[n] # NextSeg
      <4>1. todo \cap LinesOf(SegOf[n]) = {}
        BY <2>3, <3>3, <1>0, <1>3 DEF LinesOf
      <4>2. durable[SegOf[n]] = rows[SegOf[n]] /\ gone[SegOf[n]] = None
        BY <4>1, <1>0 DEF RotationInv, PassWrote
      <4> QED BY <4>2, <3>1, <1>1, <1>4, <1>5
    <3> QED BY <3>2, <3>3
  <2>4. \A s : LinesOf(s)' = LinesOf(s)
    BY DEF LinesOf
  <2> QED BY <2>2, <2>3, <2>4, <1>0, <1>2 DEF PassWrote
<1>10. HistorySafe'
  BY <1>1, <1>2, BeforeArchive
<1> QED BY <1>6, <1>7, <1>8, <1>9, <1>10 DEF RotationInv

\* The monolith is archived: every line was written, or its segment is stuck.
LEMMA ArchiveInv ==
    ASSUME RotationInv, MigrationStep, Archive
    PROVE  RotationInv'
<1>0. pc = "text" /\ pc' = "read" /\ todo = {} /\ archived' = TRUE
  BY DEF Archive
<1>1. /\ rows' = rows /\ end' = end /\ durable' = durable
      /\ acked' = acked /\ archive' = archive /\ link' = link /\ onDisk' = onDisk
      /\ plan' = plan
  BY DEF Archive, MigrationStep
<1>2. gone' = gone
  BY <1>0, GoneKept
<1>3. Shapes' /\ NamesSound'
  <2>1. Shapes'
    BY <1>1, <1>2 DEF RotationInv, Shapes
  <2>2. NamesSound'
    BY <1>1, <1>2, NamesUnchanged
  <2> QED BY <2>1, <2>2
<1>4. TargetSound' /\ PlanSound' /\ PassWrote' /\ Phases'
  BY <1>0, <1>1 DEF RotationInv, TargetSound, PlanSound, PassWrote, Phases, Rotating
<1>5. HistorySafe'
  <2>1. acked' = {}
    BY <1>0, <1>1 DEF RotationInv, Phases
  <2>2. ASSUME NEW n \in Lines PROVE Safe(n)' \/ \E s \in Segs : Stuck(s)'
    <3>1. SegOf[n] \in Segs
      BY LinesAssumption
    <3>2. n \in rows[SegOf[n]] \/ end[SegOf[n]] = "corrupt"
      BY <1>0 DEF RotationInv, PassWrote
    <3>3. durable[SegOf[n]] = rows[SegOf[n]] /\ gone[SegOf[n]] = None
      BY <1>0 DEF RotationInv, PassWrote
    <3>4. SafeLive(n, SegOf[n])' \/ Stuck(SegOf[n])'
      BY <3>2, <3>3, <1>1, <1>2 DEF SafeLive, Stuck
    <3> QED BY <3>1, <3>4 DEF Safe
  <2> QED BY <2>1, <2>2 DEF HistorySafe
<1> QED BY <1>3, <1>4, <1>5 DEF RotationInv

\* A kill: between two steps of the pass, inside a text, or while reading.
LEMMA KillInv ==
    ASSUME RotationInv, MigrationStep, Kill
    PROVE  RotationInv'
<1>0. pc \in {"text", "newline", "read"} /\ pc' = "down"
  BY DEF Kill
<1>1. /\ durable' = durable /\ archived' = archived /\ monolith' = monolith /\ rows' = rows
      /\ acked' = acked /\ archive' = archive /\ link' = link /\ onDisk' = onDisk
      /\ plan' = plan
  BY DEF Kill, MigrationStep
<1>2. gone' = gone
  BY <1>0, GoneKept
<1>3. DOMAIN end' = Segs /\ (end' = end \/ pc = "text")
  BY DEF Kill, RotationInv, Shapes
<1>4. Shapes'
  BY <1>1, <1>2, <1>3 DEF RotationInv, Shapes
<1>5. NamesSound'
  BY <1>1, <1>2, NamesUnchanged
<1>6. TargetSound' /\ PlanSound' /\ PassWrote' /\ Phases'
  BY <1>0, <1>1 DEF RotationInv, TargetSound, PlanSound, PassWrote, Phases, Rotating
<1>7. HistorySafe'
  <2>1. CASE end' = end
    BY <2>1, <1>1, <1>2, DiskUnchanged
  <2>2. CASE pc = "text"
    <3>1. ~archived
      BY <2>2 DEF RotationInv, Phases
    <3> QED BY <3>1, <1>1, BeforeArchive
  <2> QED BY <1>3, <2>1, <2>2
<1> QED BY <1>4, <1>5, <1>6, <1>7 DEF RotationInv

\* The segments are read.
LEMMA ReplayInv ==
    ASSUME RotationInv, ReplaySegments
    PROVE  RotationInv'
<1>0. /\ pc = "read" /\ pc' \in {"refused", "ready"}
      /\ pc' = "ready" => \A s \in Segs : end[s] # "corrupt"
  BY DEF ReplaySegments
<1>1. /\ rows' = rows /\ end' = end /\ durable' = durable /\ archived' = archived
      /\ monolith' = monolith /\ acked' = acked /\ archive' = archive /\ link' = link
      /\ onDisk' = onDisk /\ plan' = plan /\ gone' = gone
  BY DEF ReplaySegments, files, rotationVars
<1>2. Shapes' /\ NamesSound' /\ HistorySafe'
  BY <1>1, DiskUnchanged
<1>3. TargetSound' /\ PlanSound' /\ PassWrote' /\ Phases'
  BY <1>0, <1>1 DEF RotationInv, TargetSound, PlanSound, PassWrote, Phases, Rotating
<1> QED BY <1>2, <1>3 DEF RotationInv

-----------------------------------------------------------------------------
(* Appends *)

\* A live segment grows: what was safe in it still is, and what was safe in the
\* archive is no longer at risk of becoming a live segment again.
LEMMA SafeGrows ==
    ASSUME RotationInv, NEW x, Safe(x), archive' = archive, link' = link, onDisk' = onDisk,
           \A s \in Segs : durable[s] \subseteq durable'[s] /\ gone'[s] \in {None, gone[s]}
    PROVE  Safe(x)'
<1>1. ASSUME NEW s \in Segs, SafeLive(x, s) PROVE SafeLive(x, s)'
  BY <1>1 DEF SafeLive
<1>2. ASSUME NEW a \in onDisk, SafeArchived(x, a) PROVE SafeArchived(x, a)'
  BY <1>2 DEF SafeArchived, RotationInv, NamesSound
<1> QED BY <1>1, <1>2 DEF Safe

\* A committed append.
LEMMA AppendInv ==
    ASSUME RotationInv, NEW s \in Segs, AppendFact(s)
    PROVE  RotationInv'
<1>0. pc = "ready" /\ pc' = "ready"
  BY DEF AppendFact
<1>1. /\ archived' = archived /\ monolith' = monolith /\ archive' = archive
      /\ link' = link /\ onDisk' = onDisk /\ plan' = plan
  BY DEF AppendFact
<1>2. archived /\ (\A t \in Segs : end[t] # "corrupt")
  BY <1>0 DEF RotationInv, Phases
<1>3. /\ DOMAIN rows' = Segs /\ DOMAIN durable' = Segs /\ DOMAIN end' = Segs
      /\ gone' = [t \in Segs |-> gone'[t]]
      /\ rows'[s] = rows[s] \cup {NextSeq} /\ durable'[s] = rows'[s]
      /\ end'[s] = "clean" /\ gone'[s] = None
      /\ \A t \in Segs \ {s} : /\ rows'[t] = rows[t] /\ durable'[t] = durable[t]
                               /\ end'[t] = end[t] /\ gone'[t] = gone[t]
  BY DEF AppendFact, RotationInv, Shapes
<1>4. \A t \in Segs : durable[t] \subseteq durable'[t] /\ gone'[t] \in {None, gone[t]}
  BY <1>3 DEF RotationInv, Shapes
<1>5. Shapes'
  BY <1>1, <1>3 DEF RotationInv, Shapes
<1>6. NamesSound'
  BY <1>1, <1>4, NamesUnchanged
<1>7. TargetSound' /\ PlanSound' /\ PassWrote'
  BY <1>0, <1>1 DEF RotationInv, TargetSound, PlanSound, PassWrote, Rotating
<1>8. Phases'
  BY <1>0, <1>1, <1>2, <1>3 DEF Phases
<1>9. HistorySafe'
  <2>2. \A x : Safe(x) => Safe(x)'
    BY <1>1, <1>4, SafeGrows
  <2>3. ~ \E t \in Segs : Stuck(t)
    BY <1>2 DEF Stuck
  <2>1. PICK n : n = NextSeq
    OBVIOUS
  <2>4. Safe(n)'
    BY <1>3, <2>1 DEF Safe, SafeLive
  <2>5. acked' = acked \cup {n}
    BY <2>1 DEF AppendFact
  <2>6. \A x \in acked \cup Lines : Safe(x)
    BY <1>2, <2>3 DEF RotationInv, HistorySafe
  <2> QED BY <2>2, <2>4, <2>5, <2>6 DEF HistorySafe
<1> QED BY <1>5, <1>6, <1>7, <1>8, <1>9 DEF RotationInv

\* An append that was killed.
LEMMA AppendKilledInv ==
    ASSUME RotationInv, NEW s \in Segs, AppendKilled(s)
    PROVE  RotationInv'
<1>0. pc = "ready" /\ pc' = "down"
  BY DEF AppendKilled
<1>1. /\ archived' = archived /\ monolith' = monolith /\ archive' = archive
      /\ link' = link /\ onDisk' = onDisk /\ plan' = plan /\ gone' = gone
      /\ durable' = durable /\ acked' = acked
  BY DEF AppendKilled, rotationVars
<1>2. archived /\ (\A t \in Segs : end[t] # "corrupt")
  BY <1>0 DEF RotationInv, Phases
<1>3. /\ DOMAIN rows' = Segs /\ DOMAIN end' = Segs
      /\ \A t \in Segs : rows[t] \subseteq rows'[t]
  BY DEF AppendKilled, RotationInv, Shapes
<1>4. Shapes'
  BY <1>1, <1>3 DEF RotationInv, Shapes
<1>5. NamesSound'
  BY <1>1, NamesUnchanged
<1>6. TargetSound' /\ PlanSound' /\ PassWrote' /\ Phases'
  BY <1>0, <1>1 DEF RotationInv, TargetSound, PlanSound, PassWrote, Phases, Rotating
<1>7. HistorySafe'
  <2>1. ~ \E t \in Segs : Stuck(t)
    BY <1>2 DEF Stuck
  <2>2. \A x \in acked \cup Lines : Safe(x)
    BY <1>2, <2>1 DEF RotationInv, HistorySafe
  <2> QED BY <1>1, <2>2, SafeUnchanged DEF HistorySafe
<1> QED BY <1>4, <1>5, <1>6, <1>7 DEF RotationInv

-----------------------------------------------------------------------------
(* Rotation *)

\* The plan of a rotation.
LEMMA PlanInv ==
    ASSUME RotationInv, NEW cutoff \in 1 .. MaxRow, run_rotate(cutoff)
    PROVE  RotationInv'
<1>0. pc = "down" /\ pc' = "link" /\ plan' # {} /\ plan' \subseteq Segs
  BY DEF run_rotate
<1>1. /\ rows' = rows /\ end' = end /\ durable' = durable /\ archived' = archived
      /\ monolith' = monolith /\ acked' = acked /\ archive' = archive /\ link' = link
      /\ onDisk' = onDisk /\ gone' = gone
  BY DEF run_rotate, files
<1>2. \A s \in Segs : end[s] # "corrupt"
  BY DEF run_rotate, Preflight
<1>3. Shapes' /\ NamesSound' /\ HistorySafe'
  BY <1>1, DiskUnchanged
<1>4. TargetSound' /\ PlanSound' /\ PassWrote' /\ Phases'
  BY <1>0, <1>1, <1>2 DEF RotationInv, TargetSound, PlanSound, PassWrote, Phases
<1> QED BY <1>3, <1>4 DEF RotationInv

\* During a rotation no segment is stuck.
LEMMA RotationHistory ==
    ASSUME RotationInv, pc \in Rotating, acked' = acked, archived' = archived,
           \A x : Safe(x) => Safe(x)'
    PROVE  HistorySafe'
<1>1. ~ \E s \in Segs : Stuck(s)
  BY DEF RotationInv, PlanSound, Stuck
<1> QED BY <1>1 DEF RotationInv, HistorySafe

\* A generation that is tried has not the name of the backup, and is free or has
\* what the live segment has.
LEMMA CandidateSound ==
    ASSUME NEW s, NEW g \in Candidates(s)
    PROVE  /\ g \in Nat /\ <<s, g>> # BackupName
           /\ <<s, g>> \in DOMAIN archive => ArchiveFile(<<s, g>>) = Live(s)
<1>1. g \in FirstGeneration(s) .. MaxGen
  BY DEF Candidates
<1>2. g \in Nat /\ (s = Backup => g # 0)
  BY <1>1, BoundsAssumption DEF FirstGeneration
<1>3. <<s, g>> \in DOMAIN archive => MayBeIdentical(s, g)
  BY DEF Candidates, Occupied
<1> QED BY <1>2, <1>3 DEF BackupName, MayBeIdentical

\* The link into the archive.
LEMMA LinkInv ==
    ASSUME RotationInv, LinkIntoArchive
    PROVE  RotationInv' /\ Replayed' = Replayed
<1>0. pc = "link" /\ pc' = "syncfile"
  BY DEF LinkIntoArchive
<1>1. /\ rows' = rows /\ end' = end /\ durable' = durable /\ monolith' = monolith
      /\ acked' = acked /\ onDisk' = onDisk /\ gone' = gone /\ plan' = plan
  BY DEF LinkIntoArchive
<1>2. plan \subseteq Segs /\ plan # {} /\ \A s \in Segs : end[s] # "corrupt"
  BY <1>0 DEF RotationInv, PlanSound, Rotating
<1>3. Source \in Segs /\ Source' = Source
  BY <1>1, <1>2, SourceSound DEF Source
<1>4. \A s : Live(s)' = Live(s)
  BY <1>1 DEF Live
<1>5. PICK g \in Candidates(Source) :
        /\ target' = g
        /\ \/ /\ <<Source, g>> \in DOMAIN archive
              /\ UNCHANGED <<archived, archive, link>>
           \/ /\ <<Source, g>> \notin DOMAIN archive
              /\ archive' = [a \in DOMAIN archive \cup {<<Source, g>>} |->
                               IF a = <<Source, g>> THEN None ELSE archive[a]]
              /\ link' = [link EXCEPT ![Source] = @ \cup {g}]
              /\ archived' = (archived \/ <<Source, g>> = BackupName)
  BY DEF LinkIntoArchive
<1>6. /\ g \in Nat /\ <<Source, g>> # BackupName
      /\ <<Source, g>> \in DOMAIN archive => ArchiveFile(<<Source, g>>) = Live(Source)
  BY CandidateSound
<1>7. archived' = archived
  BY <1>5, <1>6 DEF RotationInv, Phases
<1>8. CASE <<Source, g>> \in DOMAIN archive
  <2>1. archive' = archive /\ link' = link
    BY <1>5, <1>8
  <2>2. Shapes' /\ NamesSound' /\ HistorySafe'
    BY <2>1, <1>1, <1>7, DiskUnchanged
  <2>3. \A a : ArchiveFile(a)' = ArchiveFile(a)
    BY <2>1, <1>4 DEF ArchiveFile
  <2>4. TargetSound'
    BY <2>1, <2>3, <1>0, <1>3, <1>4, <1>5, <1>6, <1>8 DEF TargetSound
  <2>5. PlanSound' /\ PassWrote' /\ Phases'
    BY <1>0, <1>1, <1>2, <1>7 DEF RotationInv, PlanSound, PassWrote, Phases
  <2>6. Replayed' = Replayed
    BY <2>1, <2>3, <1>1 DEF Replayed, ReplayedNames, BackupName
  <2> QED BY <2>2, <2>4, <2>5, <2>6 DEF RotationInv
<1>9. CASE <<Source, g>> \notin DOMAIN archive
  <2>1. /\ DOMAIN archive' = DOMAIN archive \cup {<<Source, g>>}
        /\ \A a \in DOMAIN archive : archive'[a] = archive[a]
    BY <1>5, <1>9
  <2>2. /\ DOMAIN link' = Segs /\ link'[Source] = link[Source] \cup {g}
        /\ \A s \in Segs \ {Source} : link'[s] = link[s]
    BY <1>3, <1>5, <1>9 DEF RotationInv, Shapes
  <2>3. \A a \in DOMAIN archive : /\ a = <<a[1], a[2]>> /\ a[1] \in Segs
                                  /\ a[2] \in link'[a[1]] <=> a[2] \in link[a[1]]
    <3>1. ASSUME NEW a \in DOMAIN archive
          PROVE  /\ a = <<a[1], a[2]>> /\ a[1] \in Segs
                 /\ a[2] \in link'[a[1]] <=> a[2] \in link[a[1]]
      <4>1. a = <<a[1], a[2]>> /\ a[1] \in Segs
        BY <3>1 DEF RotationInv, NamesSound
      <4>2. a[1] = Source => a[2] # g
        BY <4>1, <1>9
      <4> QED BY <4>1, <4>2, <2>2
    <3> QED BY <3>1
  <2>4. Shapes'
    BY <2>2, <1>1 DEF RotationInv, Shapes
  <2>5. NamesSound'
    <3>1. DOMAIN archive' \subseteq Segs \X Nat /\ onDisk' \subseteq DOMAIN archive'
      BY <2>1, <1>1, <1>3, <1>6 DEF RotationInv, NamesSound
    <3>2. BackupName' \notin DOMAIN archive'
      BY <2>1, <1>6 DEF RotationInv, NamesSound, BackupName
    <3>3. \A s \in Segs : \A h \in link'[s] : <<s, h>> \in DOMAIN archive'
      BY <2>1, <2>2 DEF RotationInv, NamesSound
    <3>4. \A s \in Segs : gone'[s] # None =>
            \A h \in gone'[s].link : <<s, h>> \in DOMAIN archive' /\ h \notin link'[s]
      BY <2>1, <2>2, <1>1, <1>9 DEF RotationInv, NamesSound
    <3> QED BY <3>1, <3>2, <3>3, <3>4 DEF NamesSound
  <2>6. \A a \in DOMAIN archive : ArchiveFile(a)' = ArchiveFile(a)
    BY <2>1, <2>3, <1>4 DEF ArchiveFile
  <2>7. ArchiveFile(<<Source, g>>)' = Live(Source)
    BY <2>2, <1>3, <1>4 DEF ArchiveFile
  <2>8. TargetSound'
    <3>1. ArchiveFile(<<Source, target>>)' = Live(Source)'
      BY <2>7, <1>3, <1>4, <1>5 DEF ArchiveFile
    <3> QED BY <3>1, <2>1, <1>0, <1>3, <1>5 DEF TargetSound
  <2>9. PlanSound' /\ PassWrote' /\ Phases'
    BY <1>0, <1>1, <1>2, <1>7 DEF RotationInv, PlanSound, PassWrote, Phases
  <2>10. HistorySafe'
    <3>1. ASSUME NEW x, Safe(x) PROVE Safe(x)'
      <4>1. \A s \in Segs : SafeLive(x, s) => SafeLive(x, s)'
        BY <1>1 DEF SafeLive
      <4>2. \A a \in onDisk : SafeArchived(x, a) => SafeArchived(x, a)'
        BY <2>1, <2>3, <1>1 DEF SafeArchived, RotationInv, NamesSound
      <4> QED BY <3>1, <4>1, <4>2, <1>1 DEF Safe
    <3> QED BY <3>1, <1>0, <1>1, <1>7, RotationHistory DEF Rotating
  <2>11. Replayed' = Replayed
    <3>1. ReplayedNames' = ReplayedNames \cup {<<Source, g>>}
      BY <2>1, <1>6 DEF ReplayedNames, BackupName
    <3>2. Live(Source).rows = rows[Source]
      BY DEF Live
    <3>3. \A a \in ReplayedNames : ArchiveFile(a)' = ArchiveFile(a)
      BY <2>6 DEF ReplayedNames
    <3> QED BY <3>1, <3>2, <3>3, <2>7, <1>1, <1>3 DEF Replayed
  <2> QED BY <2>4, <2>5, <2>8, <2>9, <2>10, <2>11 DEF RotationInv
<1> QED BY <1>8, <1>9

\* The sync of the archive file, which is the live one if the two are linked.
LEMMA SyncFileInv ==
    ASSUME RotationInv, SyncArchiveFile
    PROVE  RotationInv' /\ Replayed' = Replayed
<1>0. pc = "syncfile" /\ pc' = "syncarchive"
  BY DEF SyncArchiveFile
<1>1. /\ rows' = rows /\ end' = end /\ archived' = archived /\ monolith' = monolith
      /\ acked' = acked /\ archive' = archive /\ link' = link /\ onDisk' = onDisk
      /\ gone' = gone /\ plan' = plan /\ target' = target
  BY DEF SyncArchiveFile, rotationVars
<1>2. plan \subseteq Segs /\ plan # {}
  BY <1>0 DEF RotationInv, PlanSound, Rotating
<1>3. Source \in Segs /\ Source' = Source
  BY <1>1, <1>2, SourceSound DEF Source
<1>4. /\ DOMAIN durable' = Segs
      /\ \A s \in Segs : durable'[s] \in {durable[s], rows[s]}
      /\ target \in link[Source] => durable'[Source] = rows[Source]
  BY <1>3 DEF SyncArchiveFile, RotationInv, Shapes
<1>5. \A a : ArchiveFile(a)' = ArchiveFile(a)
  BY <1>1 DEF ArchiveFile, Live
<1>6. Shapes'
  BY <1>1, <1>4 DEF RotationInv, Shapes
<1>7. NamesSound'
  BY <1>1, NamesUnchanged
<1>8. TargetSound'
  <2>1. ArchiveFile(<<Source, target>>)' = Live(Source)'
    BY <1>0, <1>1, <1>3, <1>5 DEF RotationInv, TargetSound, Live, ArchiveFile
  <2> QED BY <2>1, <1>0, <1>1, <1>3, <1>4 DEF RotationInv, TargetSound
<1>9. PlanSound' /\ PassWrote' /\ Phases'
  BY <1>0, <1>1 DEF RotationInv, PlanSound, PassWrote, Phases, Rotating
<1>10. HistorySafe'
  <2>1. \A s \in Segs : durable[s] \subseteq durable'[s] /\ gone'[s] \in {None, gone[s]}
    BY <1>1, <1>4 DEF RotationInv, Shapes
  <2>2. \A x : Safe(x) => Safe(x)'
    BY <2>1, <1>1, SafeGrows
  <2> QED BY <2>2, <1>0, <1>1, RotationHistory DEF Rotating
<1>11. Replayed' = Replayed
  BY <1>1, <1>5 DEF Replayed, ReplayedNames, BackupName
<1> QED BY <1>6, <1>7, <1>8, <1>9, <1>10, <1>11 DEF RotationInv

\* The sync of the archive directory.
LEMMA SyncDirectoryInv ==
    ASSUME RotationInv, SyncArchiveDirectory
    PROVE  RotationInv' /\ Replayed' = Replayed
<1>0. pc = "syncarchive" /\ pc' = "unlink" /\ onDisk' = DOMAIN archive
  BY DEF SyncArchiveDirectory
<1>1. /\ rows' = rows /\ end' = end /\ archived' = archived /\ monolith' = monolith
      /\ acked' = acked /\ archive' = archive /\ link' = link /\ durable' = durable
      /\ gone' = gone /\ plan' = plan /\ target' = target
  BY DEF SyncArchiveDirectory, files
<1>2. Source' = Source
  BY <1>1 DEF Source
<1>3. \A a : ArchiveFile(a)' = ArchiveFile(a)
  BY <1>1 DEF ArchiveFile, Live
<1>4. Shapes'
  BY <1>1 DEF RotationInv, Shapes
<1>5. NamesSound'
  BY <1>0, <1>1 DEF RotationInv, NamesSound, BackupName
<1>6. TargetSound'
  <2>1. ArchiveFile(<<Source, target>>)' = Live(Source)'
    BY <1>0, <1>1, <1>2, <1>3 DEF RotationInv, TargetSound, Live, ArchiveFile
  <2> QED BY <2>1, <1>0, <1>1, <1>2 DEF RotationInv, TargetSound
<1>7. PlanSound' /\ PassWrote' /\ Phases'
  BY <1>0, <1>1 DEF RotationInv, PlanSound, PassWrote, Phases, Rotating
<1>8. HistorySafe'
  <2>1. onDisk \subseteq onDisk'
    BY <1>0 DEF RotationInv, NamesSound
  <2>2. \A x : Safe(x) => Safe(x)'
    BY <2>1, <1>1 DEF Safe, SafeLive, SafeArchived
  <2> QED BY <2>2, <1>0, <1>1, RotationHistory DEF Rotating
<1>9. Replayed' = Replayed
  BY <1>1, <1>3 DEF Replayed, ReplayedNames, BackupName
<1> QED BY <1>4, <1>5, <1>6, <1>7, <1>8, <1>9 DEF RotationInv

\* The unlink of the live name.
LEMMA UnlinkInv ==
    ASSUME RotationInv, UnlinkSource
    PROVE  RotationInv' /\ Replayed' = Replayed
<1>0. pc = "unlink" /\ pc' = "synclog"
  BY DEF UnlinkSource
<1>1. /\ archived' = archived /\ monolith' = monolith /\ acked' = acked
      /\ onDisk' = onDisk /\ plan' = plan
  BY DEF UnlinkSource
<1>2. plan \subseteq Segs /\ plan # {} /\ \A s \in Segs : end[s] # "corrupt"
  BY <1>0 DEF RotationInv, PlanSound, Rotating
<1>3. Source \in Segs
  BY <1>2, SourceSound
<1>4. /\ <<Source, target>> \in DOMAIN archive /\ <<Source, target>> \in onDisk
      /\ ArchiveFile(<<Source, target>>) = Live(Source)
  BY <1>0 DEF RotationInv, TargetSound
<1>5. /\ DOMAIN rows' = Segs /\ DOMAIN durable' = Segs /\ DOMAIN end' = Segs
      /\ DOMAIN link' = Segs /\ gone' = [s \in Segs |-> gone'[s]]
      /\ rows'[Source] = {} /\ durable'[Source] = {} /\ link'[Source] = {}
      /\ end'[Source] = "clean"
      /\ gone'[Source].rows = durable[Source] /\ gone'[Source].link = link[Source]
      /\ \A s \in Segs \ {Source} :
           /\ rows'[s] = rows[s] /\ durable'[s] = durable[s] /\ end'[s] = end[s]
           /\ link'[s] = link[s] /\ gone'[s] = gone[s]
  BY <1>3 DEF UnlinkSource, RotationInv, Shapes
<1>6. /\ DOMAIN archive' = DOMAIN archive
      /\ \A a \in DOMAIN archive :
           archive'[a] = IF a[1] = Source THEN ArchiveFile(a) ELSE archive[a]
  BY DEF UnlinkSource
<1>7. \A a \in DOMAIN archive : a = <<a[1], a[2]>> /\ a[1] \in Segs
  BY DEF RotationInv, NamesSound
<1>8. \A a \in DOMAIN archive : ArchiveFile(a)' = ArchiveFile(a)
  <2>1. ASSUME NEW a \in DOMAIN archive, a[1] = Source PROVE ArchiveFile(a)' = ArchiveFile(a)
    BY <2>1, <1>5, <1>6 DEF ArchiveFile
  <2>2. ASSUME NEW a \in DOMAIN archive, a[1] # Source PROVE ArchiveFile(a)' = ArchiveFile(a)
    BY <2>2, <1>5, <1>6, <1>7 DEF ArchiveFile, Live
  <2> QED BY <2>1, <2>2
<1>9. Shapes'
  BY <1>5 DEF RotationInv, Shapes
<1>10. NamesSound'
  <2>1. DOMAIN archive' \subseteq Segs \X Nat /\ onDisk' \subseteq DOMAIN archive'
    BY <1>1, <1>6 DEF RotationInv, NamesSound
  <2>2. BackupName' \notin DOMAIN archive'
    BY <1>6 DEF RotationInv, NamesSound, BackupName
  <2>3. \A s \in Segs : \A h \in link'[s] : <<s, h>> \in DOMAIN archive'
    BY <1>5, <1>6 DEF RotationInv, NamesSound
  <2>4. \A s \in Segs : gone'[s] # None =>
          \A h \in gone'[s].link : <<s, h>> \in DOMAIN archive' /\ h \notin link'[s]
    BY <1>5, <1>6 DEF RotationInv, NamesSound
  <2> QED BY <2>1, <2>2, <2>3, <2>4 DEF NamesSound
<1>11. TargetSound' /\ PlanSound' /\ PassWrote' /\ Phases'
  BY <1>0, <1>1, <1>2, <1>5 DEF RotationInv, TargetSound, PlanSound, PassWrote, Phases
<1>12. HistorySafe'
  <2>1. ASSUME NEW x, NEW s \in Segs, SafeLive(x, s) PROVE Safe(x)'
    <3>1. CASE s # Source
      BY <2>1, <3>1, <1>5 DEF Safe, SafeLive
    <3>2. CASE s = Source
      <4>1. PICK b : b = <<Source, target>>
        OBVIOUS
      <4>2. b \in onDisk' /\ b[1] = Source /\ b \in DOMAIN archive
        BY <4>1, <1>1, <1>4
      <4>3. x \in durable[Source] /\ x \in rows[Source]
        BY <2>1, <3>2 DEF SafeLive, RotationInv, Shapes
      <4>4. x \in archive'[b].rows
        BY <4>1, <4>2, <4>3, <1>4, <1>6 DEF Live
      <4>5. b[2] \notin link'[b[1]] /\ x \in gone'[b[1]].rows
        BY <4>2, <4>3, <1>5
      <4>6. SafeArchived(x, b)'
        BY <4>4, <4>5 DEF SafeArchived
      <4> QED BY <4>2, <4>6 DEF Safe
    <3> QED BY <3>1, <3>2
  <2>2. ASSUME NEW x, NEW a \in onDisk, SafeArchived(x, a) PROVE SafeArchived(x, a)'
    <3>0. a \in DOMAIN archive /\ a[1] \in Segs
      BY <1>7 DEF RotationInv, NamesSound
    <3>1. CASE a[1] # Source
      BY <2>2, <3>0, <3>1, <1>5, <1>6 DEF SafeArchived
    <3>2. CASE a[1] = Source
      <4>1. archive'[a] = archive[a]
        BY <2>2, <3>0, <3>2, <1>6 DEF SafeArchived, ArchiveFile
      <4> QED BY <2>2, <4>1, <3>2, <1>5 DEF SafeArchived
    <3> QED BY <3>1, <3>2
  <2>3. \A x : Safe(x) => Safe(x)'
    BY <2>1, <2>2, <1>1 DEF Safe
  <2> QED BY <2>3, <1>0, <1>1, RotationHistory DEF Rotating
<1>13. Replayed' = Replayed
  <2>1. ReplayedNames' = ReplayedNames
    BY <1>6 DEF ReplayedNames, BackupName
  <2>2. \A a \in ReplayedNames : ArchiveFile(a)' = ArchiveFile(a)
    BY <1>8 DEF ReplayedNames
  <2>3. PICK b \in ReplayedNames : ArchiveFile(b).rows = rows[Source]
    <3>1. <<Source, target>> \in ReplayedNames
      BY <1>4 DEF RotationInv, NamesSound, ReplayedNames
    <3> QED BY <3>1, <1>4 DEF Live
  <2>4. \A s \in Segs : rows'[s] = IF s = Source THEN {} ELSE rows[s]
    BY <1>5
  <2> QED BY <2>1, <2>2, <2>3, <2>4 DEF Replayed
<1> QED BY <1>9, <1>10, <1>11, <1>12, <1>13 DEF RotationInv

\* The sync of the log directory.
LEMMA SyncLogInv ==
    ASSUME RotationInv, SyncLogDirectory
    PROVE  RotationInv' /\ Replayed' = Replayed
<1>0. /\ pc = "synclog" /\ pc' \in {"down", "link"}
      /\ plan' \subseteq plan /\ (pc' = "link" => plan' # {})
  BY DEF SyncLogDirectory
<1>1. /\ rows' = rows /\ end' = end /\ archived' = archived /\ monolith' = monolith
      /\ acked' = acked /\ archive' = archive /\ link' = link /\ durable' = durable
      /\ onDisk' = onDisk
  BY DEF SyncLogDirectory, files
<1>2. gone' = [s \in Segs |-> None]
  BY DEF SyncLogDirectory
<1>3. \A s \in Segs : durable[s] \subseteq durable'[s] /\ gone'[s] \in {None, gone[s]}
  BY <1>1, <1>2
<1>4. Shapes'
  BY <1>1, <1>2 DEF RotationInv, Shapes
<1>5. NamesSound'
  BY <1>1, <1>3, NamesUnchanged
<1>6. TargetSound' /\ PlanSound' /\ PassWrote' /\ Phases'
  BY <1>0, <1>1 DEF RotationInv, TargetSound, PlanSound, PassWrote, Phases, Rotating
<1>7. HistorySafe'
  <2>1. \A x : Safe(x) => Safe(x)'
    BY <1>1, <1>3, SafeGrows
  <2> QED BY <2>1, <1>0, <1>1, RotationHistory DEF Rotating
<1>8. Replayed' = Replayed
  BY <1>1 DEF Replayed, ReplayedNames, BackupName, ArchiveFile, Live
<1> QED BY <1>4, <1>5, <1>6, <1>7, <1>8 DEF RotationInv

\* A rotation that is killed or fails.
LEMMA StopsInv ==
    ASSUME RotationInv, RotationStops
    PROVE  RotationInv' /\ Replayed' = Replayed
<1>0. pc \in Rotating /\ pc' = "down" /\ plan' = {}
  BY DEF RotationStops
<1>1. /\ rows' = rows /\ end' = end /\ archived' = archived /\ monolith' = monolith
      /\ acked' = acked /\ archive' = archive /\ link' = link /\ durable' = durable
      /\ onDisk' = onDisk /\ gone' = gone
  BY DEF RotationStops, files
<1>2. Shapes' /\ NamesSound' /\ HistorySafe'
  BY <1>1, DiskUnchanged
<1>3. TargetSound' /\ PlanSound' /\ PassWrote' /\ Phases'
  BY <1>0, <1>1 DEF RotationInv, TargetSound, PlanSound, PassWrote, Phases, Rotating
<1>4. Replayed' = Replayed
  BY <1>1 DEF Replayed, ReplayedNames, BackupName, ArchiveFile, Live
<1> QED BY <1>2, <1>3, <1>4 DEF RotationInv

-----------------------------------------------------------------------------
(* Power loss *)

\* A segment loses nothing that was synced, and nothing at all if all of it was.
LEMMA SurvivorSound ==
    ASSUME RotationInv, NEW f \in LossOutcomes, NEW s \in Segs
    PROVE  /\ durable[s] \subseteq f[s].rows
           /\ durable[s] = rows[s] => f[s] = Live(s)
<1>1. f[s] \in Survivors(s)
  BY DEF LossOutcomes
<1>2. durable[s] \subseteq rows[s]
  BY DEF RotationInv, Shapes
<1>3. CASE f[s] = [rows |-> rows[s], end |-> end[s]]
  BY <1>2, <1>3 DEF Live
<1>4. CASE \E n \in rows[s] \ durable[s], e \in {"clean", "torn"} :
             f[s] = [rows |-> durable[s] \cup {m \in rows[s] : m < n}, end |-> e]
  BY <1>4
<1> QED BY <1>1, <1>3, <1>4 DEF Survivors, Live

\* Power loss at any time.
LEMMA LosePowerInv ==
    ASSUME RotationInv, LosePower
    PROVE  RotationInv'
<1>0. /\ pc' = "down" /\ plan' = {} /\ gone' = [s \in Segs |-> None]
      /\ monolith' = monolith /\ archived' = archived /\ onDisk' = onDisk /\ acked' = acked
  BY DEF LosePower
<1>1. PICK lost \in SUBSET (DOMAIN archive \ onDisk),
           back \in SUBSET {s \in Segs : gone[s] # None}, f \in LossOutcomes :
        /\ rows' = [s \in Segs |-> (IF s \in back THEN gone[s] ELSE f[s]).rows]
        /\ durable' = [s \in Segs |-> IF s \in back THEN gone[s].rows ELSE durable[s]]
        /\ end' = [s \in Segs |-> (IF s \in back THEN gone[s] ELSE f[s]).end]
        /\ link' = [s \in Segs |-> {g \in IF s \in back THEN gone[s].link ELSE link[s] :
                                      <<s, g>> \in DOMAIN archive \ lost}]
        /\ archive' = [a \in DOMAIN archive \ lost |->
                         IF a[2] \notin link[a[1]] THEN archive[a]
                         ELSE IF a[1] \in back THEN f[a[1]] ELSE None]
  BY DEF LosePower
<1>2. /\ \A s \in Segs \ back : /\ rows'[s] = f[s].rows /\ end'[s] = f[s].end
                                /\ durable'[s] = durable[s] /\ link'[s] \subseteq link[s]
      /\ \A s \in back : /\ rows'[s] = gone[s].rows /\ durable'[s] = gone[s].rows
                         /\ link'[s] \subseteq gone[s].link
      /\ \A s \in Segs : \A g \in link'[s] : <<s, g>> \in DOMAIN archive'
      /\ \A s \in Segs : gone'[s] = None
      /\ back \subseteq Segs /\ \A s \in back : gone[s] # None
  BY <1>0, <1>1
<1>3. Shapes'
  <2>1. /\ DOMAIN rows' = Segs /\ DOMAIN durable' = Segs /\ DOMAIN end' = Segs
        /\ DOMAIN link' = Segs
    BY <1>1
  <2>2. \A s \in Segs : durable'[s] \subseteq rows'[s]
    BY <1>2, SurvivorSound
  <2> QED BY <2>1, <2>2, <1>0 DEF Shapes
<1>4. NamesSound'
  <2>1. DOMAIN archive' \subseteq Segs \X Nat /\ onDisk' \subseteq DOMAIN archive'
    BY <1>0, <1>1 DEF RotationInv, NamesSound
  <2>2. BackupName' \notin DOMAIN archive'
    BY <1>1 DEF RotationInv, NamesSound, BackupName
  <2> QED BY <2>1, <2>2, <1>2 DEF NamesSound
<1>5. TargetSound' /\ PlanSound' /\ PassWrote' /\ Phases'
  BY <1>0 DEF RotationInv, TargetSound, PlanSound, PassWrote, Phases, Rotating
<1>6. ASSUME NEW x, Safe(x) PROVE Safe(x)'
  <2>1. CASE \E s \in Segs : SafeLive(x, s)
    <3>1. PICK s \in Segs : SafeLive(x, s)
      BY <2>1
    <3>2. SafeLive(x, s)'
      BY <3>1, <1>2 DEF SafeLive
    <3> QED BY <3>2 DEF Safe
  <2>2. CASE \E a \in onDisk : SafeArchived(x, a)
    <3>1. PICK a \in onDisk : SafeArchived(x, a)
      BY <2>2
    <3>2. a \in DOMAIN archive' /\ a[1] \in Segs /\ a \in DOMAIN archive
      BY <1>1 DEF RotationInv, NamesSound
    <3>3. archive'[a] = archive[a]
      BY <3>1, <3>2, <1>1 DEF SafeArchived
    <3>4. CASE a[1] \in back /\ a[2] \in gone[a[1]].link
      \* The file is the live segment again, with what was synced of it.
      <4>1. SafeLive(x, a[1])'
        BY <3>1, <3>4, <1>2 DEF SafeArchived, SafeLive
      <4> QED BY <3>2, <4>1 DEF Safe
    <3>5. CASE ~(a[1] \in back /\ a[2] \in gone[a[1]].link)
      <4>1. a[2] \notin link'[a[1]]
        BY <3>1, <3>2, <3>5, <1>2 DEF SafeArchived
      <4>2. SafeArchived(x, a)'
        BY <3>1, <3>2, <3>3, <4>1, <1>2 DEF SafeArchived
      <4> QED BY <4>2, <1>0 DEF Safe
    <3> QED BY <3>4, <3>5
  <2> QED BY <1>6, <2>1, <2>2 DEF Safe
<1>7. ASSUME NEW s \in Segs, Stuck(s) PROVE Stuck(s)'
  <2>1. s \notin back
    BY <1>7, <1>2 DEF Stuck
  <2>2. f[s] = Live(s)
    BY <1>7, SurvivorSound DEF Stuck
  <2> QED BY <2>1, <2>2, <1>2, <1>7 DEF Stuck, Live
<1>8. HistorySafe'
  BY <1>0, <1>6, <1>7 DEF RotationInv, HistorySafe
<1> QED BY <1>3, <1>4, <1>5, <1>8 DEF RotationInv

-----------------------------------------------------------------------------
(* Theorems *)

\* Every step keeps the invariant.
LEMMA NextInv == RotationInv /\ [NextRotation]_allVars => RotationInv'
<1> SUFFICES ASSUME RotationInv, [NextRotation]_allVars PROVE RotationInv'
  OBVIOUS
<1>1. CASE MigrationStep
  BY <1>1, OpenCloseInv, WriteTextInv, WriteNewlineInv, ArchiveInv, KillInv DEF MigrationStep
<1>2. CASE ReplaySegments
  BY <1>2, ReplayInv
<1>3. CASE \E s \in Segs : AppendFact(s) \/ AppendKilled(s)
  BY <1>3, AppendInv, AppendKilledInv
<1>4. CASE \E cutoff \in 1 .. MaxRow : run_rotate(cutoff)
  BY <1>4, PlanInv
<1>5. CASE RotationStep
  BY <1>5, LinkInv, SyncFileInv, SyncDirectoryInv, UnlinkInv, SyncLogInv, StopsInv
     DEF RotationStep
<1>6. CASE LosePower
  BY <1>6, LosePowerInv
<1>7. CASE UNCHANGED allVars
  <2>1. /\ rows' = rows /\ end' = end /\ durable' = durable /\ archived' = archived
        /\ monolith' = monolith /\ acked' = acked /\ archive' = archive /\ link' = link
        /\ onDisk' = onDisk /\ gone' = gone /\ plan' = plan /\ target' = target
        /\ todo' = todo /\ pc' = pc
    BY <1>7 DEF allVars, vars, rotationVars
  <2>2. Shapes' /\ NamesSound' /\ HistorySafe'
    BY <2>1, DiskUnchanged
  <2>3. TargetSound' /\ PlanSound'
    BY <2>1 DEF RotationInv, TargetSound, PlanSound, Source, ArchiveFile, Live
  <2>4. PassWrote' /\ Phases'
    BY <2>1 DEF RotationInv, PassWrote, Phases, NextLine, NextSeg, LinesOf
  <2> QED BY <2>2, <2>3, <2>4 DEF RotationInv
<1> QED BY <1>1, <1>2, <1>3, <1>4, <1>5, <1>6, <1>7 DEF NextRotation

\* The inductive invariant holds of every room.
THEOREM RotationInvHolds == RotationSpec => []RotationInv
<1> QED BY InitInv, NextInv, PTL DEF RotationSpec

\* A room that opens has every line of its monolith and every row that an append
\* reported, whatever was migrated, rotated, killed or lost power (rotate.rs,
\* migrate_monolith_to_segments in store.rs).
THEOREM RoomKeptHolds == RotationSpec => []RoomKept
<1> QED BY InvKept, RotationInvHolds, PTL

\* No step of a rotation changes what a reader of the room replays
\* (durable_install_rotation in rotate.rs).
THEOREM RotationInvisibleHolds == RotationSpec => RotationInvisible
<1>1. RotationInv /\ RotationStep => Replayed' = Replayed
  BY LinkInv, SyncFileInv, SyncDirectoryInv, UnlinkInv, SyncLogInv, StopsInv
     DEF RotationStep
<1>2. RotationInv /\ [NextRotation]_allVars => [RotationStep => Replayed' = Replayed]_allVars
  BY <1>1
<1> QED BY <1>2, RotationInvHolds, PTL DEF RotationSpec, RotationInvisible
=============================================================================
