----------------------------- MODULE RoomLedger -----------------------------
(***************************************************************************)
(* The canonical ledger of one rally room (crates/rally-cli/src/store.rs): *)
(* append-only JSONL segments under .rally/log, the facts.db SQLite cache  *)
(* derived from them, and the reconcile sidecar that certifies that cache. *)
(* Processes open the room, append facts under the room mutation lock, are *)
(* killed at any point and come back; the machine itself may lose power.   *)
(*                                                                         *)
(* Abstractions.                                                           *)
(*  - A canonical line is a row [seq, id, seg]: its sequence number, its   *)
(*    event id and the engagement whose segment file holds it.  The rest   *)
(*    of the payload is a function of the id, so "the same fact" is the    *)
(*    same id in the same engagement.  A handoff also carries an           *)
(*    idempotency key, the same for every run of one command while each    *)
(*    run mints an id of its own (KeyOf).                                  *)
(*  - A file is the set of rows that parse in it plus the state of its     *)
(*    last bytes ("end"): clean, an unterminated valid row ("open"), a     *)
(*    fragment of a row ("torn"), or a completed line that does not parse  *)
(*    ("corrupt").                                                         *)
(*  - A fingerprint (length, mtime, tail hash) is the content it was       *)
(*    measured from.                                                       *)
(*  - Validation gates between identity resolution and the write (claims,  *)
(*    authority, schema floor) are a refusal that may or may not happen.   *)
(***************************************************************************)
EXTENDS Integers, FiniteSets, FiniteSetsExt

CONSTANTS
    Procs,      \* processes that open the room (CLI commands, the daemon)
    NoProc,     \* "nobody holds the mutation lock"
    NoOp,       \* "no append in progress"
    Ids,        \* event ids
    KeyOf,      \* the idempotency key of the handoff an id names, or NoKey
    NoKey,      \* "not a handoff with a key"
    Segs,       \* engagements, one segment file each
    MaxSeq      \* the largest sequence number (i64::MAX in the code)

ASSUME NoProcAssumption == NoProc \notin Procs
ASSUME MaxSeqAssumption == MaxSeq \in Nat
ASSUME IdsAssumption == IsFiniteSet(Ids)
ASSUME SegsAssumption == IsFiniteSet(Segs)
ASSUME KeyAssumption == DOMAIN KeyOf = Ids

VARIABLES
    rows,       \* canonical rows a reader of the segments sees
    durable,    \* those of them that a sync has made durable
    end,        \* state of the last bytes of every segment
    db,         \* rows of facts.db
    cache,      \* the reconcile sidecar: {} or a singleton
    lock,       \* holder of the room mutation lock
    pc,         \* where each process is
    op,         \* the append each process is working on
    fresh,      \* ids minted in the process and not used yet
    minted,     \* ids minted anywhere
    known,      \* ids of appends that were reported unfinished
    acked,      \* rows reported committed
    exposed     \* those reported for their key alone that no sync has covered since

ledgerVars == <<rows, durable, end>>
derivedVars == <<db, cache>>
procVars == <<lock, pc, op>>
idVars == <<fresh, minted, known, acked, exposed>>
vars == <<rows, durable, end, db, cache, lock, pc, op, fresh, minted, known, acked,
          exposed>>

-----------------------------------------------------------------------------
(* State and measurements *)

Row == [seq : 1..MaxSeq, id : Ids, seg : Segs]
Tails == {"clean", "open", "torn", "corrupt"}
Stats == [count : Nat, max : 0..MaxSeq]
ReconcileCache ==
    [rows : SUBSET Row, end : [Segs -> Tails], db : SUBSET Row,
     canonical : Stats, dbStats : Stats]

Outside == {"down", "opening", "idle", "want"}
Inside == {"reconcile", "replay", "check", "start", "write", "sync",
           "resync", "project", "refresh"}
AppendOp ==
    [id : Ids, seg : Segs, seq : 0..MaxSeq, proof : SUBSET ReconcileCache,
     repaired : BOOLEAN]

IdsOf(S) == {r.id : r \in S}
RowsOf(s) == {r \in rows : r.seg = s}
SeqStats(S) == [count |-> Cardinality(S), max |-> Max({0} \cup {r.seq : r \in S})]
OpRow(p) == [seq |-> op[p].seq, id |-> op[p].id, seg |-> op[p].seg]

\* Two lines at one sequence number, or a completed line that does not parse:
\* every full scan of the segments refuses.
Damaged ==
    \/ \E s \in Segs : end[s] = "corrupt"
    \/ \E r, t \in rows : r # t /\ r.seq = t.seq

\* The sidecar that would be written now with these two measurements.
CacheNow(canonical, dbStats) ==
    [rows |-> rows, end |-> end, db |-> db, canonical |-> canonical, dbStats |-> dbStats]

\* The fast-path predicate: the sidecar describes the current files.
reconcile_cache_matches(c) ==
    /\ c.rows = rows /\ c.end = end /\ c.db = db
    /\ c.canonical = c.dbStats
    /\ c.canonical.count = 0 \/ c.canonical.max >= c.canonical.count

\* What an append may rely on instead of re-reading history: the sidecar
\* matches, no segment tail is above it, and the live database agrees with it.
derived_db_proof ==
    {c \in cache : /\ reconcile_cache_matches(c)
                   /\ SeqStats(rows).max <= c.canonical.max
                   /\ SeqStats(db) = c.dbStats}

Init ==
    /\ rows = {} /\ durable = {} /\ end = [s \in Segs |-> "clean"]
    /\ db = {} /\ cache = {}
    /\ lock = NoProc
    /\ pc = [p \in Procs |-> "down"]
    /\ op = [p \in Procs |-> NoOp]
    /\ fresh = [p \in Procs |-> {}]
    /\ minted = {} /\ known = {} /\ acked = {} /\ exposed = {}

\* Leave the locked region: the guard is dropped on every return.
Return(p, where) ==
    /\ pc' = [pc EXCEPT ![p] = where]
    /\ lock' = NoProc
    /\ op' = [op EXCEPT ![p] = NoOp]

-----------------------------------------------------------------------------
(* Opening the room: reconcile facts.db with the segments *)

\* A command or the daemon starts and goes for the mutation lock.
Open(p) ==
    /\ pc[p] = "down"
    /\ pc' = [pc EXCEPT ![p] = "opening"]
    /\ UNCHANGED <<ledgerVars, derivedVars, lock, op, idVars>>

acquire_room_mutation_lock(p) ==
    /\ pc[p] \in {"opening", "want"}
    /\ lock = NoProc
    /\ lock' = p
    /\ pc' = [pc EXCEPT ![p] = IF @ = "opening" THEN "reconcile" ELSE "check"]
    /\ UNCHANGED <<ledgerVars, derivedVars, op, idVars>>

\* Mutant: only opening has a deadline.
LockDeadlineOpenOnly(p) ==
    /\ pc[p] = "opening"
    /\ pc' = [pc EXCEPT ![p] = "down"]
    /\ UNCHANGED <<ledgerVars, derivedVars, lock, op, idVars>>

\* The deadline passes before the lock is taken, or right after it was taken
\* and it is given back: nothing started.
LockDeadline(p) ==
    /\ pc[p] \in {"opening", "want"}
    /\ pc' = [pc EXCEPT ![p] = IF @ = "opening" THEN "down" ELSE "idle"]
    /\ op' = [op EXCEPT ![p] = NoOp]
    /\ UNCHANGED <<ledgerVars, derivedVars, lock, idVars>>

\* Sidecar still valid: nothing to do.
ReconcileFast(p) ==
    /\ pc[p] = "reconcile"
    /\ \E c \in cache : reconcile_cache_matches(c)
    /\ Return(p, "idle")
    /\ UNCHANGED <<ledgerVars, derivedVars, idVars>>

\* No event on either side.  A room without segment files is seeded with a
\* zero sidecar, otherwise the stale sidecar is dropped.
ReconcileEmpty(p) ==
    /\ pc[p] = "reconcile"
    /\ \A c \in cache : ~reconcile_cache_matches(c)
    /\ ~Damaged
    /\ rows = {} /\ db = {}
    /\ \/ cache' = {}
       \/ /\ \A s \in Segs : end[s] = "clean"
          /\ cache' = {CacheNow(SeqStats({}), SeqStats({}))}
    /\ Return(p, "idle")
    /\ UNCHANGED <<ledgerVars, db, idVars>>

\* Same count and same high-water mark: the database is taken to be current
\* and the sidecar is published.
ReconcileEqual(p) ==
    /\ pc[p] = "reconcile"
    /\ \A c \in cache : ~reconcile_cache_matches(c)
    /\ ~Damaged
    /\ rows # {}
    /\ SeqStats(rows) = SeqStats(db)
    /\ cache' = {CacheNow(SeqStats(rows), SeqStats(db))}
    /\ Return(p, "idle")
    /\ UNCHANGED <<ledgerVars, db, idVars>>

\* They differ: the database files are removed first ...
ReconcileDiffer(p) ==
    /\ pc[p] = "reconcile"
    /\ \A c \in cache : ~reconcile_cache_matches(c)
    /\ ~Damaged
    /\ rows # {}
    /\ SeqStats(rows) # SeqStats(db)
    /\ db' = {}
    /\ pc' = [pc EXCEPT ![p] = "replay"]
    /\ UNCHANGED <<ledgerVars, cache, lock, op, idVars>>

\* ... and the segments are replayed into a new one, whose sidecar is
\* published best effort.
Replay(p) ==
    /\ pc[p] = "replay"
    /\ db' = rows
    /\ \/ cache' = {[rows |-> rows, end |-> end, db |-> rows,
                     canonical |-> SeqStats(rows), dbStats |-> SeqStats(rows)]}
       \/ cache' = cache
    /\ Return(p, "idle")
    /\ UNCHANGED <<ledgerVars, idVars>>

\* Corrupt segments, or events only in facts.db: the open fails loud.
OpenRefused(p) ==
    /\ pc[p] = "reconcile"
    /\ \A c \in cache : ~reconcile_cache_matches(c)
    /\ Damaged \/ (rows = {} /\ db # {})
    /\ Return(p, "down")
    /\ UNCHANGED <<ledgerVars, derivedVars, idVars>>

-----------------------------------------------------------------------------
(* Appending a fact *)

Request(p, i, s) ==
    /\ pc' = [pc EXCEPT ![p] = "want"]
    /\ op' = [op EXCEPT ![p] = [id |-> i, seg |-> s, seq |-> 0, proof |-> {},
                                repaired |-> FALSE]]

\* A new fact under an id this process just minted.
AppendNew(p, i, s) ==
    /\ pc[p] = "idle"
    /\ i \notin minted
    /\ minted' = minted \cup {i}
    /\ fresh' = [fresh EXCEPT ![p] = @ \cup {i}]
    /\ Request(p, i, s)
    /\ UNCHANGED <<ledgerVars, derivedVars, lock, known, acked, exposed>>

\* The same fact again: its id was named by an unfinished append's reply, is
\* in the ledger, or is still unused in this process.
AppendRetry(p, i, s) ==
    /\ pc[p] = "idle"
    /\ i \in known \cup IdsOf(rows) \cup fresh[p]
    /\ Request(p, i, s)
    /\ UNCHANGED <<ledgerVars, derivedVars, lock, idVars>>

\* Mutant: the index is asked although facts.db may lag behind the segments.
AbsentByIndexStale(p) == op[p].id \notin IdsOf(db)

\* Under the lock: is the id canonical already?  A fresh id cannot be, the
\* event-id index answers while the proof holds, and otherwise the segments
\* are scanned.
AbsentByIndex(p) == derived_db_proof # {} /\ op[p].id \notin IdsOf(db)
SkipsScan(p) == op[p].id \in fresh[p] \/ AbsentByIndex(p)
Matching(p) == {r \in rows : r.id = op[p].id}
NotCanonical(p) == SkipsScan(p) \/ (~Damaged /\ Matching(p) = {})

\* Rows of the handoff this append repeats under another id, found by a scan.
SameKey(p) == {r \in rows : KeyOf[op[p].id] # NoKey /\ KeyOf[r.id] = KeyOf[op[p].id]}

\* The identity check and the tail inspection refuse: a damaged ledger, an
\* ambiguous id, or an id that names another fact.
AppendRefused(p) ==
    /\ pc[p] = "check"
    /\ \/ end[op[p].seg] = "corrupt"
       \/ /\ ~SkipsScan(p)
          /\ \/ Damaged
             \/ Cardinality(Matching(p)) > 1
             \/ \E r \in Matching(p) : r.seg # op[p].seg
    /\ fresh' = [fresh EXCEPT ![p] = @ \ {op[p].id}]
    /\ Return(p, "idle")
    /\ UNCHANGED <<ledgerVars, derivedVars, minted, known, acked, exposed>>

\* A policy gate refuses a new fact: a takeover or expiry that is no longer
\* justified, a handoff out of protocol or whose key names another handoff.
GateRefused(p) ==
    /\ pc[p] = "check"
    /\ SkipsScan(p) \/ Matching(p) = {}
    /\ fresh' = [fresh EXCEPT ![p] = @ \ {op[p].id}]
    /\ Return(p, "idle")
    /\ UNCHANGED <<ledgerVars, derivedVars, minted, known, acked, exposed>>

\* Mutant: the high-water mark is read from facts.db.
HighWaterOfDb(proof) == SeqStats(db).max

\* The last sequence number in use: from the sidecar while the proof holds,
\* and from a scan otherwise; the next one must fit.
HighWater(proof) ==
    IF proof # {} THEN (CHOOSE c \in proof : TRUE).canonical.max ELSE SeqStats(rows).max
CanIncrement(n) == n < MaxSeq

\* A handoff whose key is canonical under another id: that row is reported
\* committed as it stands, without the repair and the sync of a retry by id.
FoundByKey(p) ==
    /\ pc[p] = "check"
    /\ end[op[p].seg] # "corrupt"
    /\ NotCanonical(p) /\ ~Damaged
    /\ \E r \in SameKey(p) :
         /\ acked' = acked \cup {r}
         /\ exposed' = exposed \cup ({r} \ durable)
         /\ op' = [op EXCEPT ![p] = [id |-> r.id, seg |-> r.seg, seq |-> r.seq, proof |-> {},
                                     repaired |-> FALSE]]
    /\ fresh' = [fresh EXCEPT ![p] = @ \ {op[p].id}]
    /\ pc' = [pc EXCEPT ![p] = "project"]
    /\ UNCHANGED <<ledgerVars, derivedVars, lock, minted, known>>

\* Mutant: the key is looked up in facts.db.
KeyUnusedInDb(p) ==
    KeyOf[op[p].id] = NoKey \/ {r \in db : KeyOf[r.id] = KeyOf[op[p].id]} = {}

\* Not a handoff with a key, or a scan shows that no row has the key.
KeyUnused(p) == KeyOf[op[p].id] = NoKey \/ (~Damaged /\ SameKey(p) = {})

\* Not canonical yet: the fact gets the next sequence number.
AllocateSeq(p) ==
    /\ pc[p] = "check"
    /\ end[op[p].seg] # "corrupt"
    /\ NotCanonical(p) /\ KeyUnused(p)
    /\ LET proof == derived_db_proof
           high == HighWater(proof)
       IN /\ proof # {} \/ ~Damaged
          /\ CanIncrement(high)
          /\ op' = [op EXCEPT ![p].seq = high + 1, ![p].proof = proof]
    /\ fresh' = [fresh EXCEPT ![p] = @ \ {op[p].id}]
    /\ pc' = [pc EXCEPT ![p] = "start"]
    /\ UNCHANGED <<ledgerVars, derivedVars, lock, minted, known, acked, exposed>>

\* Canonical already, and the same fact: the retry will sync and report it.
FoundExisting(p) ==
    /\ pc[p] = "check"
    /\ end[op[p].seg] # "corrupt"
    /\ ~SkipsScan(p) /\ ~Damaged
    /\ \E r \in rows :
         /\ Matching(p) = {r} /\ r.seg = op[p].seg
         /\ op' = [op EXCEPT ![p].seq = r.seq]
    /\ pc' = [pc EXCEPT ![p] = "resync"]
    /\ UNCHANGED <<ledgerVars, derivedVars, lock, idVars>>

\* The deadline passed before the first durable side effect: the caller may
\* try again with the same id, which is not fresh any more.
NotStarted(p) ==
    /\ pc[p] = "start"
    /\ known' = known \cup {op[p].id}
    /\ Return(p, "idle")
    /\ UNCHANGED <<ledgerVars, derivedVars, fresh, minted, acked, exposed>>

\* Mutant: a fragment is taken for a row that only lacks its newline.
RepairTailNewlineOnly(s) ==
    /\ end' = [end EXCEPT ![s] = IF @ = "torn" THEN "torn" ELSE "clean"]
    /\ cache' = IF end[s] = "clean" THEN cache ELSE {}

\* Tail repair: the sidecar goes first, then the missing newline is added or
\* the fragment cut off, and the file is synced.
RepairTail(s) ==
    /\ end' = [end EXCEPT ![s] = "clean"]
    /\ cache' = IF end[s] = "clean" THEN cache ELSE {}

\* Mutant: the segment is synced first and any unterminated tail is then cut
\* off, a complete row that only lacks its newline included.
RepairCutsOpenRow(p) ==
    /\ pc[p] = "start"
    /\ LET s == op[p].seg
           last == {r \in RowsOf(s) : \A t \in RowsOf(s) : t.seq <= r.seq}
       IN /\ RepairTail(s)
          /\ durable' = IF end[s] = "clean" THEN durable ELSE durable \cup RowsOf(s)
          /\ rows' = IF end[s] = "open" THEN rows \ last ELSE rows
          /\ op' = [op EXCEPT ![p].repaired = (end[s] # "clean")]
    /\ exposed' = exposed \ durable'
    /\ pc' = [pc EXCEPT ![p] = "write"]
    /\ UNCHANGED <<db, lock, fresh, minted, known, acked>>

apply_active_tail_repair(p) ==
    /\ pc[p] = "start"
    /\ LET s == op[p].seg IN
         /\ RepairTail(s)
         /\ durable' = IF end[s] = "clean" THEN durable ELSE durable \cup RowsOf(s)
         /\ op' = [op EXCEPT ![p].repaired = (end[s] # "clean")]
    /\ exposed' = exposed \ durable'
    /\ pc' = [pc EXCEPT ![p] = "write"]
    /\ UNCHANGED <<rows, db, lock, fresh, minted, known, acked>>

\* What a write of `bytes` of the record leaves at the end of the segment.
\* Without a clean end the record continues somebody else's bytes.
Write(p, bytes) ==
    LET s == op[p].seg IN
    /\ rows' = IF bytes \in {"clean", "open"} /\ end[s] = "clean"
               THEN rows \cup {OpRow(p)} ELSE rows
    /\ end' = [end EXCEPT ![s] = IF end[s] = "clean" THEN bytes ELSE "corrupt"]

WriteCanonicalLine(p) ==
    /\ pc[p] = "write"
    /\ Write(p, "clean")
    /\ pc' = [pc EXCEPT ![p] = "sync"]
    /\ UNCHANGED <<durable, derivedVars, lock, op, idVars>>

\* The write, the sync or the readback of a started mutation fails: the
\* caller learns the id and that the outcome is unknown.
ReturnUnknown(p) ==
    /\ known' = known \cup {op[p].id}
    /\ Return(p, "idle")

RepairFails(p) ==
    /\ pc[p] = "start"
    /\ end[op[p].seg] # "clean"
    /\ cache' = {}
    /\ \/ end' = end
       \/ end' = [end EXCEPT ![op[p].seg] = "clean"]
    /\ ReturnUnknown(p)
    /\ UNCHANGED <<rows, durable, db, fresh, minted, acked, exposed>>

WriteFails(p) ==
    /\ pc[p] = "write"
    /\ \/ UNCHANGED ledgerVars
       \/ \E bytes \in {"torn", "open", "clean"} :
            Write(p, bytes) /\ durable' = durable
    /\ ReturnUnknown(p)
    /\ UNCHANGED <<derivedVars, fresh, minted, acked, exposed>>

SyncFails(p) ==
    /\ pc[p] = "sync"
    /\ ReturnUnknown(p)
    /\ UNCHANGED <<ledgerVars, derivedVars, fresh, minted, acked, exposed>>

\* Commit point: the segment is synced, the row read back exactly once, and
\* the append is reported committed.
SyncAndReadback(p) ==
    /\ pc[p] = "sync"
    /\ durable' = durable \cup RowsOf(op[p].seg)
    /\ OpRow(p) \in rows
    /\ acked' = acked \cup {OpRow(p)}
    /\ exposed' = exposed \ durable'
    /\ pc' = [pc EXCEPT ![p] = "project"]
    /\ UNCHANGED <<rows, end, derivedVars, lock, op, fresh, minted, known>>

\* Mutant: a row that is found is taken to be durable.
ResyncWithoutSync(p) ==
    /\ pc[p] = "resync"
    /\ RepairTail(op[p].seg)
    /\ acked' = acked \cup {OpRow(p)}
    /\ pc' = [pc EXCEPT ![p] = "project"]
    /\ UNCHANGED <<rows, durable, db, lock, op, fresh, minted, known, exposed>>

\* Retry of a canonical row: repair the tail, sync every file that holds the
\* row, report it committed.
resync_existing_canonical_fact(p) ==
    /\ pc[p] = "resync"
    /\ RepairTail(op[p].seg)
    /\ durable' = durable \cup RowsOf(op[p].seg)
    /\ acked' = acked \cup {OpRow(p)}
    /\ exposed' = exposed \ durable'
    /\ pc' = [pc EXCEPT ![p] = "project"]
    /\ UNCHANGED <<rows, db, lock, op, fresh, minted, known>>

ResyncFails(p) ==
    /\ pc[p] = "resync"
    /\ \/ UNCHANGED <<end, cache>>
       \/ RepairTail(op[p].seg)
    /\ ReturnUnknown(p)
    /\ UNCHANGED <<rows, durable, db, fresh, minted, acked, exposed>>

-----------------------------------------------------------------------------
(* Projecting a committed row into the derived state *)

\* facts.db gets the row unless it already has one row with this id.
ProjectFactsDb(p) ==
    /\ pc[p] = "project"
    /\ LET same == {r \in db : r.id = op[p].id} IN
         /\ Cardinality(same) <= 1
         /\ db' = IF same = {} THEN db \cup {OpRow(p)} ELSE db
    /\ pc' = [pc EXCEPT ![p] = "refresh"]
    /\ UNCHANGED <<ledgerVars, cache, lock, op, idVars>>

\* Any projection warning drops the sidecars; the commit stands.
ProjectionFails(p) ==
    /\ pc[p] \in {"project", "refresh"}
    /\ cache' = {}
    /\ Return(p, "idle")
    /\ UNCHANGED <<ledgerVars, db, idVars>>

\* The pre-append proof held, nothing was repaired, and the segments differ
\* from the proven ones by exactly this row.
fingerprint_advanced_by_one_append(p) ==
    /\ ~op[p].repaired
    /\ \E c \in op[p].proof :
         /\ rows = c.rows \cup {OpRow(p)} /\ end = c.end
         /\ SeqStats(db) = [count |-> c.canonical.count + 1, max |-> op[p].seq]

\* Mutant: facts.db is taken to be complete after its own insert.
RefreshFromDb(p) ==
    /\ pc[p] = "refresh"
    /\ cache' = {CacheNow(SeqStats(db), SeqStats(db))}
    /\ Return(p, "idle")
    /\ UNCHANGED <<ledgerVars, db, idVars>>

refresh_reconcile_cache_after_append(p) ==
    /\ pc[p] = "refresh"
    /\ \/ /\ fingerprint_advanced_by_one_append(p)
          /\ cache' = {CacheNow(SeqStats(db), SeqStats(db))}
       \/ /\ ~fingerprint_advanced_by_one_append(p)
          /\ ~Damaged
          /\ SeqStats(rows) = SeqStats(db)
          /\ SeqStats(rows).max >= op[p].seq
          /\ cache' = {CacheNow(SeqStats(rows), SeqStats(db))}
    /\ Return(p, "idle")
    /\ UNCHANGED <<ledgerVars, db, idVars>>

-----------------------------------------------------------------------------
(* Failures *)

\* A process is killed; the kernel releases its lock.
Crash(p) ==
    /\ pc[p] # "down"
    /\ lock' = IF lock = p THEN NoProc ELSE lock
    /\ pc' = [pc EXCEPT ![p] = "down"]
    /\ op' = [op EXCEPT ![p] = NoOp]
    /\ fresh' = [fresh EXCEPT ![p] = {}]
    /\ UNCHANGED <<ledgerVars, derivedVars, minted, known, acked, exposed>>

\* Killed in the middle of the write of a canonical line.
CrashWriting(p) ==
    /\ pc[p] = "write"
    /\ \E bytes \in {"torn", "open", "clean"} : Write(p, bytes)
    /\ lock' = NoProc
    /\ pc' = [pc EXCEPT ![p] = "down"]
    /\ op' = [op EXCEPT ![p] = NoOp]
    /\ fresh' = [fresh EXCEPT ![p] = {}]
    /\ UNCHANGED <<durable, derivedVars, minted, known, acked, exposed>>

\* Power loss, seen once Crash has taken every process: a suffix of the bytes no
\* sync covered is gone from each segment, and facts.db may have rewound (its
\* write-ahead log is not synced per append).  An exposed row may go with its
\* report.
PowerLoss ==
    /\ \A p \in Procs : pc[p] = "down"
    /\ \E kept \in SUBSET (rows \ durable) :
         /\ \A r \in kept, t \in rows :
              t.seg = r.seg /\ t.seq < r.seq => t \in durable \cup kept
         /\ rows' = durable \cup kept
         /\ end' \in [Segs -> Tails]
         /\ \A s \in Segs :
              end'[s] \in IF RowsOf(s) \subseteq durable THEN {"clean", end[s]}
                         ELSE IF \E r \in kept : r.seg = s
                              THEN {"clean", "torn", "open", end[s]}
                              ELSE {"clean", "torn"}
    /\ durable' = durable
    /\ \E k \in {0} \cup {r.seq : r \in db} : db' = {r \in db : r.seq <= k}
    /\ \E c \in SUBSET cache : cache' = c
    /\ exposed' = exposed \cap rows'
    /\ acked' = acked \ (exposed \ rows')
    /\ UNCHANGED <<procVars, fresh, minted, known>>

-----------------------------------------------------------------------------
(* The specification *)

Reconcile(p) ==
    ReconcileFast(p) \/ ReconcileEmpty(p) \/ ReconcileEqual(p) \/ ReconcileDiffer(p)
    \/ Replay(p) \/ OpenRefused(p)

Append(p) ==
    AppendRefused(p) \/ GateRefused(p) \/ FoundByKey(p) \/ AllocateSeq(p) \/ FoundExisting(p)
    \/ NotStarted(p) \/ apply_active_tail_repair(p) \/ RepairFails(p)
    \/ WriteCanonicalLine(p) \/ WriteFails(p) \/ SyncFails(p) \/ SyncAndReadback(p)
    \/ resync_existing_canonical_fact(p) \/ ResyncFails(p)

Project(p) ==
    ProjectFactsDb(p) \/ ProjectionFails(p) \/ refresh_reconcile_cache_after_append(p)

\* What a running process does by itself.
Step(p) ==
    acquire_room_mutation_lock(p) \/ LockDeadline(p)
    \/ Reconcile(p) \/ Append(p) \/ Project(p)

Next ==
    \E p \in Procs :
        \/ Open(p)
        \/ \E i \in Ids, s \in Segs : AppendNew(p, i, s) \/ AppendRetry(p, i, s)
        \/ Step(p)
        \/ Crash(p)
        \/ CrashWriting(p)

NextWithPowerLoss == Next \/ PowerLoss

\* Processes may be killed; the machine stays up.
Spec == Init /\ [][Next]_vars
\* The machine may also lose power.
PowerLossSpec == Init /\ [][NextWithPowerLoss]_vars
\* A scheduled process keeps running.
FairSpec == Spec /\ \A p \in Procs : WF_vars(Step(p))

-----------------------------------------------------------------------------
(* Properties *)

\* The variables keep their types and durable rows are rows.
TypeOK ==
    /\ rows \subseteq Row /\ durable \subseteq rows
    /\ end \in [Segs -> Tails]
    /\ db \subseteq Row
    /\ cache \subseteq ReconcileCache
    /\ lock \in Procs \cup {NoProc}
    /\ pc \in [Procs -> Outside \cup Inside]
    /\ op \in [Procs -> AppendOp \cup {NoOp}]
    /\ fresh \in [Procs -> SUBSET Ids]
    /\ minted \subseteq Ids /\ known \subseteq Ids
    /\ acked \subseteq Row /\ exposed \subseteq acked

\* No sequence number is ever given to two canonical rows, whatever segments
\* they are in and whichever path (sidecar or scan) allocated them.
SeqUnique == \A r, t \in rows : r.seq = t.seq => r = t

\* A fact reported committed is on disk in a synced segment: neither a killed
\* process nor a power loss takes it back (an unsynced row found by a retry of
\* its id included).  The one exception is a row reported for its idempotency
\* key, which FoundByKey reports as it finds it, until the next sync.
AckedDurable == acked \subseteq durable \cup exposed

\* No record is ever glued to the remains of an earlier write: a fragment or
\* an unterminated row is repaired before the next append to that segment.
NoCorruptLine == \A s \in Segs : end[s] # "corrupt"

\* Retries are idempotent: an event id names at most one canonical row.
IdUnique == \A r, t \in rows : r.id = t.id => r = t

\* A handoff repeated under its idempotency key is never written twice, however
\* many runs mint ids for it and whichever of them died.
KeyUnique ==
    \A r, t \in rows : KeyOf[r.id] # NoKey /\ KeyOf[r.id] = KeyOf[t.id] => r = t

\* While the append proof holds, facts.db is exactly the canonical rows and
\* the recorded high-water mark is the true one.
ProofHonest ==
    \A c \in derived_db_proof : db = rows /\ c.canonical = SeqStats(rows)

\* The ledger that a reader of the room can rely on.
Contract == INSTANCE LedgerContract WITH rows <- rows, acked <- acked
ContractSpec == Contract!Spec

\* Every request for the lock ends: the append or open returns or dies.
RequestEnds == \A p \in Procs : pc[p] = "want" ~> pc[p] \in {"idle", "down"}
=============================================================================
