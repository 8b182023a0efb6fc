-------------------------- MODULE SegmentRotation --------------------------
(***************************************************************************)
(* Moving idle segments from .rally/log to .rally/archive (rotate.rs),     *)
(* beside the migration of an old monolith and the appends of ordinary     *)
(* commands.  All three run under the mutation lock, one process at a      *)
(* time; each may be killed between two steps, and the machine may lose    *)
(* power.  A reader replays the union of the log and the archive, without  *)
(* the backup of the monolith.                                             *)
(*                                                                         *)
(* A segment is moved by a hard link, two syncs, an unlink and a third     *)
(* sync, so for a while the log and the archive name one file: "link" says *)
(* which archive name shares the file of a live segment.  What a file      *)
(* holds is the set of rows that parse in it and its last bytes, and the   *)
(* number of a row is its sequence number.                                 *)
(*                                                                         *)
(* Disk: a file that was synced after it was created keeps its name.  A    *)
(* further link to it, and the removal of a name, are only certain once    *)
(* the directory was synced.                                               *)
(***************************************************************************)
EXTENDS MonolithMigration

CONSTANTS
    MaxRow,     \* bound on sequence numbers
    MaxGen,     \* bound on archive generations (u32::MAX in the code)
    Backup,     \* the engagement whose segment has the name of the monolith's backup
    None

ASSUME BoundsAssumption == MaxRow \in Nat /\ MaxGen \in Nat

VARIABLES
    archive,    \* archive files: <<segment, generation>> -> content, None while linked
    onDisk,     \* the archive names a directory sync covered
    link,       \* the generations that share the file of a live segment
    gone,       \* what an unlinked live segment held, until the log is synced
    plan,       \* segments this rotation has still to move
    target,     \* the generation the current one goes to
    acked       \* rows reported committed

rotationVars == <<archive, onDisk, link, gone, plan, target>>
allVars == <<vars, rotationVars, acked>>

Rotating == {"link", "syncfile", "syncarchive", "unlink", "synclog"}

\* A live segment; the archive file of a name, which may be the same file.
Live(s) == [rows |-> rows[s], end |-> end[s]]
ArchiveFile(a) == IF a[2] \in link[a[1]] THEN Live(a[1]) ELSE archive[a]

\* What a replay of the log and the archive yields; the name of the backup of
\* the monolith is left out.
BackupName == <<Backup, 0>>
ReplayedNames == DOMAIN archive \ {BackupName}
Replayed ==
    (UNION {rows[s] : s \in Segs}) \cup (UNION {ArchiveFile(a).rows : a \in ReplayedNames})

InitRotation ==
    /\ Init
    /\ archive = [a \in {} |-> None] /\ onDisk = {}
    /\ link = [s \in Segs |-> {}] /\ gone = [s \in Segs |-> None]
    /\ plan = {} /\ target = None
    /\ acked = {}

-----------------------------------------------------------------------------
(* Ordinary commands *)

\* The room is opened: migration first, then the segments of the log and of
\* the archive are read.  The sync of a segment that migration has written
\* settles its name.
SyncsSegment(s) == pc = "newline" /\ s = NextSeg /\ todo \cap LinesOf(s) = {NextLine}
MigrationStep ==
    /\ Open \/ WriteText \/ WriteNewline \/ Archive \/ Close \/ Kill
    /\ gone' = [s \in Segs |-> IF SyncsSegment(s) /\ todo' # todo /\ pc' = "text" THEN None ELSE gone[s]]
    /\ UNCHANGED <<archive, onDisk, link, plan, target, acked>>

ReplaySegments ==
    /\ pc = "read"
    /\ pc' = IF \/ \E s \in Segs : end[s] = "corrupt"
                \/ \E a \in ReplayedNames : ArchiveFile(a).end = "corrupt"
             THEN "refused" ELSE "ready"
    /\ UNCHANGED <<files, todo, rotationVars, acked>>

NextSeq == Max(Replayed \cup {0}) + 1

\* A fact is appended: the tail is repaired, the line written and synced, and
\* a new segment file has its directory synced.
AppendFact(s) ==
    /\ pc = "ready" /\ NextSeq <= MaxRow
    /\ rows' = [rows EXCEPT ![s] = @ \cup {NextSeq}]
    /\ durable' = [durable EXCEPT ![s] = rows'[s]]
    /\ end' = [end EXCEPT ![s] = "clean"]
    /\ gone' = [gone EXCEPT ![s] = None]
    /\ acked' = acked \cup {NextSeq}
    /\ UNCHANGED <<monolith, archived, todo, pc, archive, onDisk, link, plan, target>>

\* The append is killed inside the write, or after it and before the sync.
AppendKilled(s) ==
    /\ pc = "ready" /\ NextSeq <= MaxRow
    /\ \/ end' = [end EXCEPT ![s] = "torn"] /\ rows' = rows
       \/ /\ end' = [end EXCEPT ![s] = "open"]
          /\ rows' = [rows EXCEPT ![s] = @ \cup {NextSeq}]
       \/ /\ end' = [end EXCEPT ![s] = "clean"]
          /\ rows' = [rows EXCEPT ![s] = @ \cup {NextSeq}]
    /\ pc' = "down"
    /\ UNCHANGED <<monolith, archived, durable, todo, rotationVars, acked>>

-----------------------------------------------------------------------------
(* rally rotate *)

\* Every archived and every live segment must read strictly, a fragment at
\* its end included, before anything is moved.
Preflight ==
    /\ \A s \in Segs : end[s] \in {"clean", "open"}
    /\ \A a \in DOMAIN archive : ArchiveFile(a).end \in {"clean", "open"}

\* The segments whose latest row is not after the cutoff are to be moved.
run_rotate(cutoff) ==
    /\ pc = "down" /\ Preflight
    /\ plan' = {s \in Segs : rows[s] # {} /\ Max(rows[s]) <= cutoff}
    /\ plan' # {}
    /\ pc' = "link"
    /\ UNCHANGED <<files, todo, archive, onDisk, link, gone, target, acked>>

Source == Min(plan)

\* Mutant: the name of the monolith's backup is not reserved.
FirstGenerationZero(s) == 0

\* The first generation to try: the backup of the monolith is not replayed,
\* so a segment of that name starts one further.
FirstGeneration(s) == IF s = Backup THEN 1 ELSE 0

\* A generation is passed over while another file has its name.  Files with
\* the same rows may still differ: migration may have written a line twice.
Occupied(s, g) == <<s, g>> \in DOMAIN archive \/ (<<s, g>> = BackupName /\ archived)
MayBeIdentical(s, g) == <<s, g>> \in DOMAIN archive /\ ArchiveFile(<<s, g>>) = Live(s)
Candidates(s) ==
    {g \in FirstGeneration(s)..MaxGen :
        /\ ~Occupied(s, g) \/ MayBeIdentical(s, g)
        /\ \A h \in FirstGeneration(s)..(g - 1) : Occupied(s, h) /\ h \notin link[s]}

\* The live segment is linked into the archive, or a copy of it is there.
LinkIntoArchive ==
    /\ pc = "link"
    /\ \E g \in Candidates(Source) :
         LET name == <<Source, g>> IN
         /\ target' = g
         /\ \/ /\ name \in DOMAIN archive
               /\ UNCHANGED <<archived, archive, link>>
            \/ /\ name \notin DOMAIN archive
               /\ archive' = [a \in DOMAIN archive \cup {name} |->
                                IF a = name THEN None ELSE archive[a]]
               /\ link' = [link EXCEPT ![Source] = @ \cup {g}]
               /\ archived' = (archived \/ name = BackupName)
    /\ pc' = "syncfile"
    /\ UNCHANGED <<monolith, rows, durable, end, todo, onDisk, gone, plan, acked>>

\* The archive file is synced, and then the archive directory.
SyncArchiveFile ==
    /\ pc = "syncfile"
    /\ durable' = IF target \in link[Source]
                  THEN [durable EXCEPT ![Source] = rows[Source]] ELSE durable
    /\ pc' = "syncarchive"
    /\ UNCHANGED <<monolith, archived, rows, end, todo, rotationVars, acked>>

\* Mutant: the archive directory is not synced before the unlink.
SkipArchiveSync ==
    /\ pc = "syncarchive"
    /\ pc' = "unlink"
    /\ UNCHANGED <<files, todo, rotationVars, acked>>

SyncArchiveDirectory ==
    /\ pc = "syncarchive"
    /\ onDisk' = DOMAIN archive
    /\ pc' = "unlink"
    /\ UNCHANGED <<files, todo, archive, link, gone, plan, target, acked>>

\* The live name goes: the archive has the file for itself.
UnlinkSource ==
    /\ pc = "unlink"
    /\ archive' = [a \in DOMAIN archive |->
                     IF a[1] = Source THEN ArchiveFile(a) ELSE archive[a]]
    /\ gone' = [gone EXCEPT ![Source] =
                  [rows |-> durable[Source], link |-> link[Source],
                   end |-> IF durable[Source] = rows[Source] THEN end[Source] ELSE "clean"]]
    /\ rows' = [rows EXCEPT ![Source] = {}]
    /\ durable' = [durable EXCEPT ![Source] = {}]
    /\ end' = [end EXCEPT ![Source] = "clean"]
    /\ link' = [link EXCEPT ![Source] = {}]
    /\ pc' = "synclog"
    /\ UNCHANGED <<monolith, archived, todo, onDisk, plan, target, acked>>

\* The log directory is synced, and the next segment is due.
SyncLogDirectory ==
    /\ pc = "synclog"
    /\ gone' = [s \in Segs |-> None]
    /\ plan' = plan \ {Source}
    /\ target' = None
    /\ pc' = IF plan' = {} THEN "down" ELSE "link"
    /\ UNCHANGED <<files, todo, archive, onDisk, link, acked>>

\* The rotation is killed, or a step of it fails: the rest is left for the
\* next run.
RotationStops ==
    /\ pc \in Rotating
    /\ pc' = "down" /\ plan' = {} /\ target' = None
    /\ UNCHANGED <<files, todo, archive, onDisk, link, gone, acked>>

-----------------------------------------------------------------------------

\* Power loss.  Unsynced rows may be lost, as may archive names whose
\* directory was not synced, and a name removed from the log may be back.
LosePower ==
    /\ pc' = "down" /\ todo' = {} /\ plan' = {} /\ target' = None
    /\ \E lost \in SUBSET (DOMAIN archive \ onDisk),
          back \in SUBSET {s \in Segs : gone[s] # None}, f \in LossOutcomes :
         LET Name(s) == IF s \in back THEN gone[s] ELSE f[s]
             Kept(s) == {g \in IF s \in back THEN gone[s].link ELSE link[s] :
                            <<s, g>> \in DOMAIN archive \ lost}
         IN /\ rows' = [s \in Segs |-> Name(s).rows]
            /\ durable' = [s \in Segs |-> IF s \in back THEN gone[s].rows ELSE durable[s]]
            /\ end' = [s \in Segs |-> Name(s).end]
            /\ link' = [s \in Segs |-> Kept(s)]
            /\ archive' = [a \in DOMAIN archive \ lost |->
                             IF a[2] \notin link[a[1]] THEN archive[a]
                             ELSE IF a[1] \in back THEN f[a[1]] ELSE None]
    /\ gone' = [s \in Segs |-> None]
    /\ UNCHANGED <<monolith, archived, onDisk, acked>>

RotationStep ==
    \/ LinkIntoArchive \/ SyncArchiveFile \/ SyncArchiveDirectory
    \/ UnlinkSource \/ SyncLogDirectory \/ RotationStops

NextRotation ==
    \/ MigrationStep \/ ReplaySegments
    \/ \E s \in Segs : AppendFact(s) \/ AppendKilled(s)
    \/ \E cutoff \in 1..MaxRow : run_rotate(cutoff)
    \/ RotationStep
    \/ LosePower

RotationSpec == InitRotation /\ [][NextRotation]_allVars

-----------------------------------------------------------------------------
(* Properties *)

\* The room opens with its whole history: every line of the monolith and
\* every row an append reported, whatever was moved, interrupted, killed or
\* lost to a power failure before.
RoomKept == pc = "ready" => Lines \cup acked \subseteq Replayed

\* No step of a rotation changes what a reader of the room would replay.
RotationInvisible == [][RotationStep => (Replayed)' = Replayed]_allVars
=============================================================================
