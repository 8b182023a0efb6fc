------------------------- MODULE RoomLedger_proofs -------------------------
(***************************************************************************)
(* Proofs about RoomLedger.  The inductive invariant PowerInv is preserved *)
(* by every step and by power loss, and gives unique sequence numbers,     *)
(* durable commits, uncorrupted segments and one row per idempotency key.  *)
(* While the machine stays up, CrashInv strengthens it and gives           *)
(* idempotent retries, an honest append proof and the refinement of        *)
(* LedgerContract.                                                         *)
(***************************************************************************)
EXTENDS RoomLedger, FiniteSetTheorems, WellFoundedInduction, TLAPS

\* The process inside the locked region is the lock holder.
LockHeld == \A p \in Procs : pc[p] \in Inside => lock = p

\* A process between its request and its return works on an append.
Appending == {"want", "check", "start", "write", "sync", "resync", "project", "refresh"}
OpPresent == \A p \in Procs : pc[p] \in Appending => op[p] \in AppendOp

\* The allocated number is above every canonical row until the row is written.
SeqAhead ==
    \A p \in Procs : pc[p] \in {"start", "write"} =>
        op[p].seq >= 1 /\ \A r \in rows : r.seq < op[p].seq

\* The tail is clean when the line is written.
WriteClean == \A p \in Procs : pc[p] = "write" => end[op[p].seg] = "clean"

\* After the write (or for a retry) the row is canonical.
Written ==
    \A p \in Procs : pc[p] \in {"sync", "resync", "project", "refresh"} => OpRow(p) \in rows

\* No row has the idempotency key of the row about to be written.
KeyAhead ==
    \A p \in Procs : pc[p] \in {"start", "write"} /\ KeyOf[op[p].id] # NoKey =>
        \A r \in rows : KeyOf[r.id] # KeyOf[op[p].id]

Finite == IsFiniteSet(rows) /\ IsFiniteSet(db)

PowerInv ==
    /\ TypeOK
    /\ Finite
    /\ LockHeld
    /\ OpPresent
    /\ SeqAhead
    /\ WriteClean
    /\ Written
    /\ SeqUnique
    /\ AckedDurable
    /\ NoCorruptLine
    /\ KeyAhead
    /\ KeyUnique

-----------------------------------------------------------------------------
(* Measurements *)

\* A nonempty set of numbers up to MaxSeq has a maximum.
LEMMA MaxExists ==
    ASSUME NEW S \in SUBSET (0..MaxSeq), S # {}
    PROVE  Max(S) \in S /\ \A y \in S : y <= Max(S)
<1> DEFINE D == {n \in Nat : MaxSeq - n \in S}
<1>1. D \in SUBSET Nat /\ D # {}
  <2>1. PICK s \in S : TRUE
    OBVIOUS
  <2>2. MaxSeq - s \in D
    BY MaxSeqAssumption
  <2> QED BY <2>2
<1>2. \E n \in D : \A m \in D : n <= m
  <2> DEFINE R == OpToRel(<, Nat)
  <2>1. IsWellFoundedOn(R, Nat)
    BY NatLessThanWellFounded
  <2>2. PICK n \in D : \A m \in D : ~(<<m, n>> \in R)
    <3> HIDE DEF R, D
    <3> QED BY <2>1, <1>1, WFMin
  <2>3. \A m \in D : ~(m < n)
    BY <2>2, <1>1 DEF OpToRel
  <2>4. \A m \in D : n <= m
    BY <2>3, <1>1
  <2> QED BY <2>4
<1>3. PICK n \in D : \A m \in D : n <= m
  BY <1>2
<1>4. MaxSeq - n \in S
  OBVIOUS
<1>5. \A y \in S : MaxSeq - n >= y
  <2> TAKE y \in S
  <2>1. MaxSeq - y \in D
    BY MaxSeqAssumption
  <2>2. n <= MaxSeq - y
    BY <2>1, <1>3
  <2> QED BY <2>2, MaxSeqAssumption
<1>6. \A y \in S : Max(S) >= y
  BY <1>4, <1>5 DEF Max
<1>7. Max(S) \in S
  BY <1>4, <1>5 DEF Max
<1> QED BY <1>6, <1>7, MaxSeqAssumption

\* The measured statistics are well typed, bound every sequence number and
\* their maximum is taken by a row or zero.
LEMMA StatsType ==
    ASSUME NEW S \in SUBSET Row, IsFiniteSet(S)
    PROVE  /\ SeqStats(S) \in Stats
           /\ \A r \in S : r.seq <= SeqStats(S).max
           /\ SeqStats(S).max = 0 \/ \E r \in S : r.seq = SeqStats(S).max
           /\ SeqStats(S).count = Cardinality(S)
<1> DEFINE Q == {0} \cup {r.seq : r \in S}
<1>1. Q \in SUBSET (0..MaxSeq) /\ Q # {}
  BY MaxSeqAssumption DEF Row
<1>2. Max(Q) \in Q /\ \A y \in Q : y <= Max(Q)
  BY <1>1, MaxExists
<1>3. Cardinality(S) \in Nat
  BY FS_CardinalityType
<1>4. SeqStats(S) = [count |-> Cardinality(S), max |-> Max(Q)]
  BY DEF SeqStats
<1> HIDE DEF Q
<1>5. Max(Q) \in 0..MaxSeq
  BY <1>1, <1>2
<1>6. SeqStats(S) \in Stats
  BY <1>3, <1>4, <1>5 DEF Stats
<1>7. SeqStats(S).max = Max(Q) /\ SeqStats(S).count = Cardinality(S)
  BY <1>4
<1>8. \A r \in S : r.seq \in Q
  BY DEF Q
<1>9. Max(Q) = 0 \/ \E r \in S : r.seq = Max(Q)
  BY <1>2 DEF Q
<1> QED BY <1>2, <1>6, <1>7, <1>8, <1>9

-----------------------------------------------------------------------------
(* PowerInv is inductive *)

\* The fields of an append in progress.
LEMMA OpFields ==
    ASSUME OpPresent, NEW p \in Procs, pc[p] \in Appending
    PROVE  /\ op[p] \in AppendOp /\ op[p].id \in Ids /\ op[p].seg \in Segs
           /\ op[p].seq \in 0..MaxSeq /\ op[p].proof \subseteq ReconcileCache
           /\ op[p].repaired \in BOOLEAN
BY DEF OpPresent, AppendOp

\* A sidecar made of two measurements is well typed.
LEMMA CacheNowType ==
    ASSUME TypeOK, NEW a \in Stats, NEW b \in Stats
    PROVE  CacheNow(a, b) \in ReconcileCache
BY DEF TypeOK, CacheNow, ReconcileCache

\* Every step, a power loss included, preserves PowerInv.
LEMMA PowerInvStep ==
    ASSUME PowerInv, NextWithPowerLoss
    PROVE  PowerInv'
<1> USE DEF PowerInv, TypeOK, Finite, LockHeld, OpPresent, SeqAhead, WriteClean, Written,
        SeqUnique, AckedDurable, NoCorruptLine, KeyAhead, KeyUnique, OpRow, Inside, Outside, Appending,
        ledgerVars, derivedVars, procVars, idVars
<1>1. ASSUME NEW p \in Procs, Open(p) PROVE PowerInv'
  BY <1>1 DEF Open
<1>2. ASSUME NEW p \in Procs, acquire_room_mutation_lock(p) PROVE PowerInv'
  BY <1>2, NoProcAssumption DEF acquire_room_mutation_lock
<1>3. ASSUME NEW p \in Procs, LockDeadline(p) PROVE PowerInv'
  BY <1>3 DEF LockDeadline
<1>4. ASSUME NEW p \in Procs, ReconcileFast(p) PROVE PowerInv'
  BY <1>4 DEF ReconcileFast, Return
<1>5. ASSUME NEW p \in Procs, ReconcileEmpty(p) PROVE PowerInv'
  <2>1. SeqStats({}) \in Stats
    BY StatsType, FS_EmptySet
  <2>2. cache' \subseteq ReconcileCache
    BY <2>1, <1>5, CacheNowType DEF ReconcileEmpty
  <2> QED BY <2>2, <1>5 DEF ReconcileEmpty, Return
<1>6. ASSUME NEW p \in Procs, ReconcileEqual(p) PROVE PowerInv'
  <2>1. SeqStats(rows) \in Stats /\ SeqStats(db) \in Stats
    BY StatsType
  <2>2. cache' \subseteq ReconcileCache
    BY <2>1, <1>6, CacheNowType DEF ReconcileEqual
  <2> QED BY <2>2, <1>6 DEF ReconcileEqual, Return
<1>7. ASSUME NEW p \in Procs, ReconcileDiffer(p) PROVE PowerInv'
  BY <1>7, FS_EmptySet DEF ReconcileDiffer
<1>8. ASSUME NEW p \in Procs, Replay(p) PROVE PowerInv'
  <2>1. SeqStats(rows) \in Stats
    BY StatsType
  <2>2. [rows |-> rows, end |-> end, db |-> rows,
         canonical |-> SeqStats(rows), dbStats |-> SeqStats(rows)] \in ReconcileCache
    BY <2>1 DEF ReconcileCache
  <2>3. cache' \subseteq ReconcileCache
    BY <2>2, <1>8 DEF Replay
  <2> QED BY <2>3, <1>8 DEF Replay, Return
<1>9. ASSUME NEW p \in Procs, OpenRefused(p) PROVE PowerInv'
  BY <1>9 DEF OpenRefused, Return
<1>10. ASSUME NEW p \in Procs, AppendRefused(p) PROVE PowerInv'
  BY <1>10 DEF AppendRefused, Return
<1>11. ASSUME NEW p \in Procs, GateRefused(p) PROVE PowerInv'
  BY <1>11 DEF GateRefused, Return
<1>12. ASSUME NEW p \in Procs, AllocateSeq(p) PROVE PowerInv'
  <2> DEFINE proof == derived_db_proof
             high == HighWater(proof)
  <2>1. pc[p] = "check" /\ high < MaxSeq /\ pc' = [pc EXCEPT ![p] = "start"]
        /\ op' = [op EXCEPT ![p].seq = high + 1, ![p].proof = proof]
        /\ UNCHANGED <<rows, durable, end, db, cache, lock, minted, known, acked, exposed>>
        /\ fresh' = [fresh EXCEPT ![p] = @ \ {op[p].id}]
    BY <1>12 DEF AllocateSeq, CanIncrement
  <2>2. SeqStats(rows) \in Stats /\ \A r \in rows : r.seq <= SeqStats(rows).max
    BY StatsType
  <2>3. proof \subseteq cache
    BY DEF derived_db_proof
  <2>4. high \in 0..MaxSeq /\ \A r \in rows : r.seq <= high
    <3>1. CASE proof # {}
      <4> DEFINE c == CHOOSE c \in proof : TRUE
      <4>1. c \in proof
        BY <3>1
      <4>2. c.canonical \in Stats /\ SeqStats(rows).max <= c.canonical.max
        BY <4>1, <2>3 DEF derived_db_proof, ReconcileCache
      <4>3. c.canonical.max \in 0..MaxSeq /\ SeqStats(rows).max \in 0..MaxSeq
        BY <4>2, <2>2 DEF Stats
      <4>4. high = c.canonical.max
        BY <3>1 DEF HighWater
      <4> HIDE DEF c, high
      <4>5. \A r \in rows : r.seq \in Int
        BY DEF Row
      <4> QED BY <2>2, <4>2, <4>3, <4>4, <4>5, MaxSeqAssumption
    <3>2. CASE proof = {}
      BY <2>2, <3>2 DEF Stats, HighWater
    <3> QED BY <3>1, <3>2
  <2> HIDE DEF high, proof
  <2>5. op[p] \in AppendOp
    BY <2>1, OpFields
  <2>6. op'[p] \in AppendOp /\ op'[p].seq = high + 1
    <3>1. high + 1 \in 0..MaxSeq
      BY <2>1, <2>4, MaxSeqAssumption
    <3>2. proof \in SUBSET ReconcileCache
      BY <2>3
    <3>3. op'[p] = [op[p] EXCEPT !.seq = high + 1, !.proof = proof]
      BY <2>1
    <3>4. [op[p] EXCEPT !.seq = high + 1] \in AppendOp
      BY <2>5, <3>1 DEF AppendOp
    <3>5. op'[p] = [[op[p] EXCEPT !.seq = high + 1] EXCEPT !.proof = proof]
      BY <3>3, <2>5 DEF AppendOp
    <3> QED BY <2>5, <3>1, <3>2, <3>4, <3>5 DEF AppendOp
  <2>7. op' \in [Procs -> AppendOp \cup {NoOp}] /\ \A q \in Procs : q # p => op'[q] = op[q]
    BY <2>1, <2>6
  <2>8. \A r \in rows : r.seq < high + 1
    <3>1. \A r \in rows : r.seq \in Int
      BY DEF Row
    <3> QED BY <2>4, <3>1
  <2>9. op'[p].id = op[p].id /\ (KeyOf[op[p].id] # NoKey => \A r \in rows : KeyOf[r.id] # KeyOf[op[p].id])
    BY <2>1, <2>5, <1>12 DEF AllocateSeq, KeyUnused, SameKey, AppendOp
  <2>10. \A q \in Procs : pc[q] \in Inside => q = p
    BY <2>1
  <2>11. KeyAhead' /\ KeyUnique' /\ SeqAhead'
    BY <2>1, <2>4, <2>6, <2>7, <2>8, <2>9, <2>10
  <2> QED BY <2>1, <2>4, <2>6, <2>7, <2>8, <2>10, <2>11
<1>13. ASSUME NEW p \in Procs, FoundExisting(p) PROVE PowerInv'
  <2>1. pc[p] = "check" /\ pc' = [pc EXCEPT ![p] = "resync"]
        /\ UNCHANGED <<rows, durable, end, db, cache, lock, fresh, minted, known, acked, exposed>>
    BY <1>13 DEF FoundExisting
  <2>2. PICK r \in rows : /\ Matching(p) = {r} /\ r.seg = op[p].seg
                          /\ op' = [op EXCEPT ![p].seq = r.seq]
    BY <1>13 DEF FoundExisting
  <2>3. r \in Row /\ r.id = op[p].id
    BY <2>2 DEF Matching
  <2>4. op[p] \in AppendOp
    BY <2>1, OpFields
  <2>5. op'[p] = [op[p] EXCEPT !.seq = r.seq]
    BY <2>2
  <2>6. /\ op'[p] \in AppendOp
        /\ op'[p].seq = r.seq /\ op'[p].id = r.id /\ op'[p].seg = r.seg
    BY <2>2, <2>3, <2>4, <2>5, MaxSeqAssumption DEF AppendOp, Row
  <2>7. OpRow(p)' = r
    BY <2>3, <2>6 DEF Row
  <2>8. op' \in [Procs -> AppendOp \cup {NoOp}] /\ \A q \in Procs : q # p => op'[q] = op[q]
    BY <2>2, <2>6
  <2>9. \A q \in Procs : pc'[q] \in Inside => q = p
    BY <2>1
  <2>10. KeyAhead' /\ KeyUnique' /\ SeqAhead' /\ WriteClean'
    BY <2>1, <2>9
  <2>11. Written' /\ OpPresent' /\ LockHeld'
    BY <2>1, <2>6, <2>7, <2>8, <2>9
  <2> QED BY <2>1, <2>8, <2>10, <2>11
<1>30. ASSUME NEW p \in Procs, FoundByKey(p) PROVE PowerInv'
  <2>1. /\ pc[p] = "check" /\ pc' = [pc EXCEPT ![p] = "project"]
        /\ UNCHANGED <<rows, durable, end, db, cache, lock, minted, known>>
        /\ fresh' = [fresh EXCEPT ![p] = @ \ {op[p].id}]
    BY <1>30 DEF FoundByKey
  <2>2. PICK r \in rows :
          /\ acked' = acked \cup {r} /\ exposed' = exposed \cup ({r} \ durable)
          /\ op' = [op EXCEPT ![p] = [id |-> r.id, seg |-> r.seg, seq |-> r.seq, proof |-> {},
                                      repaired |-> FALSE]]
    BY <1>30 DEF FoundByKey, SameKey
  <2>3. r \in Row /\ r.seq \in 0..MaxSeq /\ r.id \in Ids /\ r.seg \in Segs
    BY <2>2, MaxSeqAssumption DEF Row
  <2>4. op'[p] \in AppendOp /\ op'[p].seq = r.seq /\ op'[p].id = r.id /\ op'[p].seg = r.seg
    BY <2>2, <2>3 DEF AppendOp
  <2>5. OpRow(p)' = r
    BY <2>3, <2>4 DEF Row
  <2>6. op' \in [Procs -> AppendOp \cup {NoOp}] /\ \A q \in Procs : q # p => op'[q] = op[q]
    BY <2>2, <2>4
  <2>7. acked' \subseteq durable' \cup exposed' /\ exposed' \subseteq acked' /\ acked' \subseteq Row
    BY <2>1, <2>2, <2>3
  <2>8. \A q \in Procs : pc'[q] \in Inside => q = p
    BY <2>1
  <2>9. KeyAhead' /\ KeyUnique' /\ SeqAhead' /\ WriteClean'
    BY <2>1, <2>8
  <2>10. Written' /\ OpPresent' /\ LockHeld'
    BY <2>1, <2>4, <2>5, <2>6, <2>8
  <2> QED BY <2>1, <2>6, <2>7, <2>9, <2>10
<1>14. ASSUME NEW p \in Procs, NotStarted(p) PROVE PowerInv'
  BY <1>14, OpFields DEF NotStarted, Return
<1>15. ASSUME NEW p \in Procs, apply_active_tail_repair(p) PROVE PowerInv'
  <2> DEFINE s == op[p].seg
  <2>1. pc[p] = "start" /\ pc' = [pc EXCEPT ![p] = "write"]
        /\ UNCHANGED <<rows, db, lock, fresh, minted, known, acked>>
        /\ exposed' = exposed \ durable'
        /\ op' = [op EXCEPT ![p].repaired = (end[s] # "clean")]
        /\ end' = [end EXCEPT ![s] = "clean"]
        /\ cache' \subseteq cache /\ durable \subseteq durable' /\ durable' \subseteq rows
    BY <1>15 DEF apply_active_tail_repair, RepairTail, RowsOf
  <2>2. op[p] \in AppendOp /\ s \in Segs
    BY <2>1, OpFields
  <2>3. op'[p] = [op[p] EXCEPT !.repaired = (end[s] # "clean")]
    BY <2>1
  <2>4. op'[p] \in AppendOp /\ op'[p].seg = s /\ op'[p].seq = op[p].seq
        /\ op'[p].id = op[p].id
    BY <2>2, <2>3 DEF AppendOp
  <2>5. op' \in [Procs -> AppendOp \cup {NoOp}] /\ \A q \in Procs : q # p => op'[q] = op[q]
    BY <2>1, <2>4
  <2> HIDE DEF s
  <2>6. end' \in [Segs -> Tails] /\ end'[s] = "clean" /\ \A t \in Segs : end'[t] # "corrupt"
    BY <2>1, <2>2 DEF Tails
  <2>7. \A q \in Procs : pc[q] \in Inside => q = p
    BY <2>1
  <2>8. pc[p]' = "write" /\ \A q \in Procs : q # p => pc'[q] = pc[q] /\ pc[q] \notin Inside
    BY <2>1, <2>7
  <2> QED BY <2>1, <2>4, <2>5, <2>6, <2>8
<1>16. ASSUME NEW p \in Procs, RepairFails(p) PROVE PowerInv'
  <2>1. pc[p] = "start" /\ op[p].seg \in Segs /\ op[p].id \in Ids
    BY <1>16, OpFields DEF RepairFails
  <2>2. end' \in [Segs -> Tails] /\ \A t \in Segs : end'[t] # "corrupt"
    BY <2>1, <1>16 DEF RepairFails, Tails
  <2>3. \A q \in Procs : pc'[q] \in Outside
    BY <2>1, <1>16 DEF RepairFails, ReturnUnknown, Return
  <2> QED BY <2>1, <2>2, <2>3, <1>16 DEF RepairFails, ReturnUnknown, Return
<1>17. ASSUME NEW p \in Procs, WriteCanonicalLine(p) PROVE PowerInv'
  <2>1. pc[p] = "write" /\ UNCHANGED <<durable, db, cache, minted, acked, exposed>>
    BY <1>17 DEF WriteCanonicalLine
  <2>2. op[p].seg \in Segs /\ op[p].id \in Ids /\ op[p].seq \in 1..MaxSeq
    BY <2>1, OpFields
  <2>3. OpRow(p) \in Row
    BY <2>2 DEF Row
  <2>4. /\ rows' = rows \cup {OpRow(p)} /\ UNCHANGED op
        /\ end' = [end EXCEPT ![op[p].seg] = "clean"]
    BY <2>1, <1>17 DEF WriteCanonicalLine, Write
  <2>5. IsFiniteSet(rows')
    <3>1. IsFiniteSet(rows) /\ (rows' = rows \/ rows' = rows \cup {OpRow(p)})
      BY <2>4
    <3> HIDE DEF OpRow
    <3> QED BY ONLY <3>1, FS_AddElement
  <2> QED BY <2>1, <2>2, <2>3, <2>4, <2>5, <1>17 DEF WriteCanonicalLine, Tails
<1>18. ASSUME NEW p \in Procs, WriteFails(p) PROVE PowerInv'
  <2>1. pc[p] = "write" /\ UNCHANGED <<durable, db, cache, minted, acked, exposed>>
    BY <1>18 DEF WriteFails
  <2>2. op[p].seg \in Segs /\ op[p].id \in Ids /\ op[p].seq \in 1..MaxSeq
    BY <2>1, OpFields
  <2>3. OpRow(p) \in Row
    BY <2>2 DEF Row
  <2>4. /\ rows' = rows \/ rows' = rows \cup {OpRow(p)}
        /\ end' = end \/ \E b \in {"torn", "open", "clean"} : end' = [end EXCEPT ![op[p].seg] = b]
    BY <2>1, <1>18 DEF WriteFails, Write, ledgerVars
  <2>5. IsFiniteSet(rows')
    <3>1. IsFiniteSet(rows) /\ (rows' = rows \/ rows' = rows \cup {OpRow(p)})
      BY <2>4
    <3> HIDE DEF OpRow
    <3> QED BY ONLY <3>1, FS_AddElement
  <2>6. end' \in [Segs -> Tails] /\ \A t \in Segs : end'[t] # "corrupt"
    BY <2>2, <2>4 DEF Tails
  <2>7. \A q \in Procs : pc[q] \in Inside => q = p
    BY <2>1
  <2>8. \A r, t \in rows' : r.seq = t.seq => r = t
    BY <2>1, <2>3, <2>4 DEF Row
  <2>9. \A q \in Procs : pc'[q] \in Outside
    BY <2>7, <1>18 DEF WriteFails, ReturnUnknown, Return
  <2> QED BY <2>1, <2>2, <2>3, <2>4, <2>5, <2>6, <2>8, <2>9, <1>18 DEF WriteFails, ReturnUnknown, Return
<1>19. ASSUME NEW p \in Procs, SyncFails(p) PROVE PowerInv'
  BY <1>19, OpFields DEF SyncFails, ReturnUnknown, Return
<1>20. ASSUME NEW p \in Procs, SyncAndReadback(p) PROVE PowerInv'
  BY <1>20 DEF SyncAndReadback, RowsOf
<1>21. ASSUME NEW p \in Procs, resync_existing_canonical_fact(p) PROVE PowerInv'
  <2>1. pc[p] = "resync" /\ op[p].seg \in Segs
    BY <1>21, OpFields DEF resync_existing_canonical_fact
  <2>2. end' \in [Segs -> Tails] /\ \A t \in Segs : end'[t] # "corrupt"
    BY <2>1, <1>21 DEF resync_existing_canonical_fact, RepairTail, Tails
  <2>3. OpRow(p) \in rows /\ OpRow(p) \in RowsOf(op[p].seg)
    BY <2>1 DEF RowsOf
  <2>4. durable' \subseteq rows /\ acked' \subseteq durable' \cup exposed' /\ exposed' \subseteq acked'
    BY <2>3, <1>21 DEF resync_existing_canonical_fact, RowsOf
  <2>5. \A q \in Procs : pc'[q] # "write"
    BY <2>1, <1>21 DEF resync_existing_canonical_fact
  <2> QED BY <2>1, <2>2, <2>3, <2>4, <2>5, <1>21 DEF resync_existing_canonical_fact, RepairTail
<1>22. ASSUME NEW p \in Procs, ResyncFails(p) PROVE PowerInv'
  <2>1. pc[p] = "resync" /\ op[p].seg \in Segs /\ op[p].id \in Ids
    BY <1>22, OpFields DEF ResyncFails
  <2>2. end' \in [Segs -> Tails] /\ \A t \in Segs : end'[t] # "corrupt"
    BY <2>1, <1>22 DEF ResyncFails, RepairTail, Tails
  <2>3. cache' \subseteq cache
    BY <1>22 DEF ResyncFails, RepairTail
  <2>4. \A q \in Procs : pc'[q] \in Outside
    BY <2>1, <1>22 DEF ResyncFails, ReturnUnknown, Return
  <2> QED BY <2>1, <2>2, <2>3, <2>4, <1>22 DEF ResyncFails, ReturnUnknown, Return
<1>23. ASSUME NEW p \in Procs, ProjectFactsDb(p) PROVE PowerInv'
  <2>1. OpRow(p) \in Row
    BY <1>23 DEF ProjectFactsDb
  <2>2. db' \subseteq Row /\ IsFiniteSet(db')
    BY <2>1, <1>23, FS_AddElement DEF ProjectFactsDb
  <2> QED BY <2>2, <1>23 DEF ProjectFactsDb
<1>24. ASSUME NEW p \in Procs, ProjectionFails(p) PROVE PowerInv'
  BY <1>24 DEF ProjectionFails, Return
<1>25. ASSUME NEW p \in Procs, refresh_reconcile_cache_after_append(p) PROVE PowerInv'
  <2>1. SeqStats(rows) \in Stats /\ SeqStats(db) \in Stats
    BY StatsType
  <2>2. cache' \subseteq ReconcileCache
    BY <2>1, <1>25, CacheNowType DEF refresh_reconcile_cache_after_append
  <2> QED BY <2>2, <1>25 DEF refresh_reconcile_cache_after_append, Return
<1>26. ASSUME NEW p \in Procs, Crash(p) PROVE PowerInv'
  BY <1>26 DEF Crash
<1>27. ASSUME NEW p \in Procs, CrashWriting(p) PROVE PowerInv'
  <2>1. pc[p] = "write" /\ UNCHANGED <<durable, db, cache, minted, acked, exposed>>
    BY <1>27 DEF CrashWriting
  <2>2. op[p].seg \in Segs /\ op[p].id \in Ids /\ op[p].seq \in 1..MaxSeq
    BY <2>1, OpFields
  <2>3. OpRow(p) \in Row
    BY <2>2 DEF Row
  <2>4. /\ rows' = rows \/ rows' = rows \cup {OpRow(p)}
        /\ end' = end \/ \E b \in {"torn", "open", "clean"} : end' = [end EXCEPT ![op[p].seg] = b]
    BY <2>1, <1>27 DEF CrashWriting, Write, ledgerVars
  <2>5. IsFiniteSet(rows')
    <3>1. IsFiniteSet(rows) /\ (rows' = rows \/ rows' = rows \cup {OpRow(p)})
      BY <2>4
    <3> HIDE DEF OpRow
    <3> QED BY ONLY <3>1, FS_AddElement
  <2>6. end' \in [Segs -> Tails] /\ \A t \in Segs : end'[t] # "corrupt"
    BY <2>2, <2>4 DEF Tails
  <2>7. \A q \in Procs : pc[q] \in Inside => q = p
    BY <2>1
  <2>8. \A r, t \in rows' : r.seq = t.seq => r = t
    BY <2>1, <2>3, <2>4 DEF Row
  <2>9. \A q \in Procs : pc'[q] \in Outside
    BY <2>7, <1>27 DEF CrashWriting
  <2> QED BY <2>1, <2>2, <2>3, <2>4, <2>5, <2>6, <2>8, <2>9, <1>27 DEF CrashWriting
<1>28. ASSUME NEW p \in Procs, NEW i \in Ids, NEW s \in Segs,
             AppendNew(p, i, s) \/ AppendRetry(p, i, s)
      PROVE  PowerInv'
  <2> DEFINE new == [id |-> i, seg |-> s, seq |-> 0, proof |-> {}, repaired |-> FALSE]
  <2>1. new \in AppendOp
    BY MaxSeqAssumption DEF AppendOp
  <2>2. op' = [op EXCEPT ![p] = new]
    BY <1>28 DEF AppendNew, AppendRetry, Request
  <2> HIDE DEF new
  <2> QED BY <2>1, <2>2, <1>28 DEF AppendNew, AppendRetry, Request
<1>29. ASSUME PowerLoss PROVE PowerInv'
  <2>1. durable \subseteq rows' /\ rows' \subseteq rows /\ db' \subseteq db /\ cache' \subseteq cache
    BY <1>29 DEF PowerLoss
  <2>2. IsFiniteSet(rows') /\ IsFiniteSet(db')
    BY <2>1, FS_Subset
  <2>3. end' \in [Segs -> Tails] /\ \A t \in Segs : end'[t] # "corrupt"
    BY <1>29 DEF PowerLoss
  <2> QED BY <2>1, <2>2, <2>3, <1>29 DEF PowerLoss
<1> QED
  BY <1>1, <1>2, <1>3, <1>4, <1>5, <1>6, <1>7, <1>8, <1>9, <1>10, <1>11, <1>12, <1>13, <1>14, <1>15, <1>16, <1>17, <1>18, <1>19, <1>20, <1>21, <1>22, <1>23, <1>24, <1>25, <1>26, <1>27, <1>28, <1>29, <1>30 DEF NextWithPowerLoss, Next, Step, Reconcile, Append, Project

\* PowerInv holds whatever processes do and however they or the machine die.
THEOREM PowerInvHolds == PowerLossSpec => []PowerInv
<1>1. Init => PowerInv
  BY FS_EmptySet DEF Init, PowerInv, TypeOK, Finite, LockHeld, OpPresent, SeqAhead, WriteClean,
     Written, SeqUnique, AckedDurable, NoCorruptLine, KeyAhead, KeyUnique, Inside, Outside, Appending, Tails
<1>2. PowerInv /\ [NextWithPowerLoss]_vars => PowerInv'
  <2>1. ASSUME PowerInv, UNCHANGED vars PROVE PowerInv'
    BY <2>1 DEF vars, PowerInv, TypeOK, Finite, LockHeld, OpPresent, SeqAhead, WriteClean,
       Written, SeqUnique, AckedDurable, NoCorruptLine, KeyAhead, KeyUnique, OpRow
  <2> QED BY <2>1, PowerInvStep
<1> QED BY <1>1, <1>2, PTL DEF PowerLossSpec

\* Every step of every process, killed processes and power losses included,
\* keeps the types.
THEOREM TypeCorrect == PowerLossSpec => []TypeOK
<1>1. PowerInv => TypeOK
  BY DEF PowerInv
<1> QED BY <1>1, PowerInvHolds, PTL

\* For any number of processes, ids and segments, the sequence number that
\* append_fact gives a row under the lock is never given to another one.
THEOREM SeqUniqueHolds == PowerLossSpec => []SeqUnique
<1>1. PowerInv => SeqUnique
  BY DEF PowerInv
<1> QED BY <1>1, PowerInvHolds, PTL

\* A row that append_fact reported committed is in its segment and covered by
\* a sync, whatever was killed and whenever the power failed.
THEOREM AckedDurableHolds == PowerLossSpec => []AckedDurable
<1>1. PowerInv => AckedDurable
  BY DEF PowerInv
<1> QED BY <1>1, PowerInvHolds, PTL

\* apply_active_tail_repair comes before every write: no append continues what
\* a killed one or a power loss left at the end of a segment.
THEOREM NoCorruptLineHolds == PowerLossSpec => []NoCorruptLine
<1>1. PowerInv => NoCorruptLine
  BY DEF PowerInv
<1> QED BY <1>1, PowerInvHolds, PTL

\* However many runs of a handoff command mint ids for it, whichever of them is
\* killed or caught by a power loss, append_fact writes its key once.
THEOREM KeyUniqueHolds == PowerLossSpec => []KeyUnique
<1>1. PowerInv => KeyUnique
  BY DEF PowerInv
<1> QED BY <1>1, PowerInvHolds, PTL

-----------------------------------------------------------------------------
(* While the machine stays up: kills anywhere, but written bytes are not lost *)

\* The database holds nothing that is not canonical.
DbCanonical == db \subseteq rows

\* A sidecar carries the true statistics of the rows it describes.
CacheTrue == \A c \in cache : c.canonical = SeqStats(c.rows)

\* The proof an append carries describes the rows before its own.
ProofTrue ==
    \A p \in Procs :
        /\ pc[p] \in {"want", "check", "resync"} => op[p].proof = {}
        /\ pc[p] \in {"start", "write"} =>
             \A c \in op[p].proof : c.rows = rows /\ c.canonical = SeqStats(c.rows)
        /\ pc[p] \in {"sync", "project", "refresh"} =>
             \A c \in op[p].proof : /\ c.rows = rows \ {OpRow(p)}
                                    /\ c.canonical = SeqStats(c.rows)

\* Every id in use was minted.
Minted ==
    /\ known \subseteq minted
    /\ \A r \in rows : r.id \in minted
    /\ \A p \in Procs : pc[p] \in Appending => op[p].id \in minted

\* A fresh id is known to one process only and names nothing yet.
FreshUnused ==
    /\ \A p \in Procs : fresh[p] \subseteq minted /\ fresh[p] \cap known = {}
    /\ \A p \in Procs : \A r \in rows : r.id \notin fresh[p]
    /\ \A p, q \in Procs : p # q => fresh[p] \cap fresh[q] = {}
    /\ \A p, q \in Procs :
         pc[q] \in Appending /\ (q # p \/ pc[q] \notin {"want", "check"})
            => op[q].id \notin fresh[p]

\* The id of the row about to be written is new.
IdAhead == \A p \in Procs : pc[p] \in {"start", "write"} => \A r \in rows : r.id # op[p].id

CrashInv ==
    /\ PowerInv
    /\ DbCanonical
    /\ CacheTrue
    /\ ProofTrue
    /\ Minted
    /\ FreshUnused
    /\ IdAhead
    /\ IdUnique

-----------------------------------------------------------------------------
(* The append proof *)

\* Canonical rows and database rows with equal statistics are the same rows
\* as long as the database holds nothing else.
LEMMA EqualStats ==
    ASSUME Finite, DbCanonical, SeqStats(db).count = SeqStats(rows).count
    PROVE  db = rows
BY FS_Subset DEF Finite, DbCanonical, SeqStats

\* While the proof holds the database is the ledger.
LEMMA ProofMeansEqual ==
    ASSUME Finite, DbCanonical, CacheTrue, NEW c \in derived_db_proof
    PROVE  db = rows /\ c.canonical = SeqStats(rows)
<1>1. c \in cache /\ c.rows = rows /\ c.canonical = c.dbStats /\ SeqStats(db) = c.dbStats
  BY DEF derived_db_proof, reconcile_cache_matches
<1>2. c.canonical = SeqStats(rows)
  BY <1>1 DEF CacheTrue
<1> QED BY <1>1, <1>2, EqualStats

\* The fields of a sidecar written now.
LEMMA CacheNowFields ==
    ASSUME NEW a, NEW b
    PROVE  CacheNow(a, b).rows = rows /\ CacheNow(a, b).canonical = a
BY DEF CacheNow

\* A refresh from the proof publishes the true statistics.
LEMMA AdvanceMeansEqual ==
    ASSUME CrashInv, NEW p \in Procs, pc[p] = "refresh",
           fingerprint_advanced_by_one_append(p)
    PROVE  db = rows
<1>1. PICK c \in op[p].proof :
         SeqStats(db) = [count |-> c.canonical.count + 1, max |-> op[p].seq]
  BY DEF fingerprint_advanced_by_one_append
<1>2. c.rows = rows \ {OpRow(p)} /\ c.canonical = SeqStats(c.rows) /\ OpRow(p) \in rows
  BY DEF CrashInv, ProofTrue, PowerInv, Written
<1>3. SeqStats(db).count = Cardinality(c.rows) + 1
  <2>1. SeqStats(db).count = c.canonical.count + 1
    BY <1>1
  <2>2. SeqStats(c.rows).count = Cardinality(c.rows)
    BY DEF SeqStats
  <2> QED BY <1>2, <2>1, <2>2
<1>4. IsFiniteSet(rows)
  BY DEF CrashInv, PowerInv, Finite
<1> HIDE DEF OpRow
<1>5. Cardinality(c.rows) = Cardinality(rows) - 1
  BY ONLY <1>2, <1>4, FS_RemoveElement
<1>6. Cardinality(rows) \in Nat
  BY <1>4, FS_CardinalityType
<1>7. SeqStats(db).count = SeqStats(rows).count
  BY <1>3, <1>5, <1>6 DEF SeqStats
<1> QED BY <1>7, EqualStats DEF CrashInv, PowerInv

-----------------------------------------------------------------------------
(* CrashInv is inductive *)

\* Every step of a process preserves CrashInv.
LEMMA CrashInvStep ==
    ASSUME CrashInv, Next
    PROVE  CrashInv'
<1>0. PowerInv'
  BY PowerInvStep DEF CrashInv, NextWithPowerLoss
<1> USE <1>0 DEF CrashInv, PowerInv, TypeOK, Finite, LockHeld, OpPresent, Written,
        DbCanonical, CacheTrue, ProofTrue, Minted, FreshUnused, IdAhead, IdUnique,
        OpRow, Inside, Appending, ledgerVars, derivedVars, procVars, idVars
<1>1. ASSUME NEW p \in Procs, Open(p) PROVE CrashInv'
  BY <1>1 DEF Open
<1>2. ASSUME NEW p \in Procs, acquire_room_mutation_lock(p) PROVE CrashInv'
  BY <1>2 DEF acquire_room_mutation_lock
<1>3. ASSUME NEW p \in Procs, LockDeadline(p) PROVE CrashInv'
  BY <1>3 DEF LockDeadline
<1>4. ASSUME NEW p \in Procs, ReconcileFast(p) PROVE CrashInv'
  BY <1>4 DEF ReconcileFast, Return
<1>5. ASSUME NEW p \in Procs, ReconcileEmpty(p) PROVE CrashInv'
  <2>1. \A c \in cache' : c.canonical = SeqStats(c.rows)
    <3>1. CacheNow(SeqStats({}), SeqStats({})).rows = rows
          /\ CacheNow(SeqStats({}), SeqStats({})).canonical = SeqStats({})
      BY CacheNowFields
    <3>2. rows = {}
      BY <1>5 DEF ReconcileEmpty
    <3>3. cache' = {} \/ cache' = {CacheNow(SeqStats({}), SeqStats({}))}
      BY <1>5 DEF ReconcileEmpty
    <3> QED BY ONLY <3>1, <3>2, <3>3
  <2> QED BY <2>1, <1>5 DEF ReconcileEmpty, Return
<1>6. ASSUME NEW p \in Procs, ReconcileEqual(p) PROVE CrashInv'
  <2>1. \A c \in cache' : c.canonical = SeqStats(c.rows)
    BY <1>6, CacheNowFields DEF ReconcileEqual
  <2> QED BY <2>1, <1>6 DEF ReconcileEqual, Return
<1>7. ASSUME NEW p \in Procs, ReconcileDiffer(p) PROVE CrashInv'
  BY <1>7 DEF ReconcileDiffer
<1>8. ASSUME NEW p \in Procs, Replay(p) PROVE CrashInv'
  <2>1. \A c \in cache' : c.canonical = SeqStats(c.rows)
    BY <1>8 DEF Replay
  <2> QED BY <2>1, <1>8 DEF Replay, Return
<1>9. ASSUME NEW p \in Procs, OpenRefused(p) PROVE CrashInv'
  BY <1>9 DEF OpenRefused, Return
<1>10. ASSUME NEW p \in Procs, AppendRefused(p) PROVE CrashInv'
  BY <1>10 DEF AppendRefused, Return
<1>11. ASSUME NEW p \in Procs, GateRefused(p) PROVE CrashInv'
  BY <1>11 DEF GateRefused, Return
<1>12. ASSUME NEW p \in Procs, AllocateSeq(p) PROVE CrashInv'
  <2>1. /\ pc[p] = "check" /\ pc' = [pc EXCEPT ![p] = "start"]
        /\ fresh' = [fresh EXCEPT ![p] = @ \ {op[p].id}]
        /\ UNCHANGED <<rows, durable, end, db, cache, lock, minted, known, acked, exposed>>
    BY <1>12 DEF AllocateSeq
  <2>2. \E n : op' = [op EXCEPT ![p].seq = n, ![p].proof = derived_db_proof]
    BY <1>12 DEF AllocateSeq
  <2>3. op[p] \in AppendOp
    BY <2>1
  <2>4. op'[p].id = op[p].id /\ op'[p].proof = derived_db_proof
    BY <2>2, <2>3 DEF AppendOp
  <2>5. \A c \in derived_db_proof : c.rows = rows /\ c.canonical = SeqStats(c.rows)
    BY DEF derived_db_proof, reconcile_cache_matches
  <2>6. \A r \in rows : r.id # op[p].id
    <3>1. CASE op[p].id \in fresh[p]
      BY <3>1
    <3>2. CASE AbsentByIndex(p)
      BY <3>2, ProofMeansEqual DEF AbsentByIndex, IdsOf
    <3>3. CASE Matching(p) = {}
      BY <3>3 DEF Matching
    <3> QED BY <3>1, <3>2, <3>3, <1>12 DEF AllocateSeq, NotCanonical, SkipsScan
  <2>7. \A q \in Procs : q # p => op'[q] = op[q]
    BY <2>2
  <2>8. CacheTrue' /\ ProofTrue'
    <3>1. CacheTrue'
      BY <2>1
    <3>2. ASSUME NEW q \in Procs, q # p
          PROVE  op'[q] = op[q] /\ pc'[q] = pc[q]
      BY <2>1, <2>7, <3>2
    <3>3. pc'[p] = "start"
      BY <2>1
    <3> HIDE DEF OpRow
    <3>4. ASSUME NEW q \in Procs, q # p
          PROVE  OpRow(q)' = OpRow(q)
      BY <3>2, <3>4 DEF OpRow
    <3> QED BY <2>1, <2>4, <2>5, <3>1, <3>2, <3>3, <3>4
  <2>9. Minted' /\ FreshUnused'
    BY <2>1, <2>4, <2>7
  <2> QED BY <2>1, <2>4, <2>6, <2>7, <2>8, <2>9
<1>13. ASSUME NEW p \in Procs, FoundExisting(p) PROVE CrashInv'
  <2>1. /\ pc[p] = "check" /\ pc' = [pc EXCEPT ![p] = "resync"]
        /\ UNCHANGED <<rows, durable, end, db, cache, lock, fresh, minted, known, acked, exposed>>
        /\ ~SkipsScan(p)
    BY <1>13 DEF FoundExisting
  <2>2. \E n : op' = [op EXCEPT ![p].seq = n]
    BY <1>13 DEF FoundExisting
  <2>3. op[p] \in AppendOp
    BY <2>1
  <2>4. op'[p].id = op[p].id /\ op'[p].proof = op[p].proof
    BY <2>2, <2>3 DEF AppendOp
  <2>5. \A q \in Procs : q # p => op'[q] = op[q]
    BY <2>2
  <2>6. op[p].id \notin fresh[p]
    BY <2>1 DEF SkipsScan
  <2> QED BY <2>1, <2>4, <2>5, <2>6
<1>30. ASSUME NEW p \in Procs, FoundByKey(p) PROVE CrashInv'
  <2>1. /\ pc[p] = "check" /\ pc' = [pc EXCEPT ![p] = "project"]
        /\ UNCHANGED <<rows, durable, end, db, cache, lock, minted, known>>
        /\ fresh' = [fresh EXCEPT ![p] = @ \ {op[p].id}]
    BY <1>30 DEF FoundByKey
  <2>2. PICK r \in rows :
          op' = [op EXCEPT ![p] = [id |-> r.id, seg |-> r.seg, seq |-> r.seq, proof |-> {},
                                   repaired |-> FALSE]]
    BY <1>30 DEF FoundByKey, SameKey
  <2>3. op'[p].id = r.id /\ op'[p].proof = {}
    BY <2>2
  <2>4. \A q \in Procs : q # p => op'[q] = op[q]
    BY <2>2
  <2>5. \A q \in Procs : fresh'[q] \subseteq fresh[q]
    BY <2>1
  <2>6. r.id \in minted /\ \A q \in Procs : r.id \notin fresh[q]
    BY <2>2
  <2> QED BY <2>1, <2>3, <2>4, <2>5, <2>6
<1>14. ASSUME NEW p \in Procs, NotStarted(p) PROVE CrashInv'
  BY <1>14 DEF NotStarted, Return
<1>15. ASSUME NEW p \in Procs, apply_active_tail_repair(p) PROVE CrashInv'
  <2>1. /\ pc[p] = "start" /\ pc' = [pc EXCEPT ![p] = "write"]
        /\ UNCHANGED <<rows, db, lock, fresh, minted, known, acked>>
        /\ cache' \subseteq cache
    BY <1>15 DEF apply_active_tail_repair, RepairTail
  <2>2. \E b : op' = [op EXCEPT ![p].repaired = b]
    BY <1>15 DEF apply_active_tail_repair
  <2>3. op[p] \in AppendOp
    BY <2>1
  <2>4. op'[p].id = op[p].id /\ op'[p].proof = op[p].proof
    BY <2>2, <2>3 DEF AppendOp
  <2>5. \A q \in Procs : q # p => op'[q] = op[q]
    BY <2>2
  <2> QED BY <2>1, <2>4, <2>5
<1>16. ASSUME NEW p \in Procs, RepairFails(p) PROVE CrashInv'
  BY <1>16 DEF RepairFails, ReturnUnknown, Return
<1>17. ASSUME NEW p \in Procs, WriteCanonicalLine(p) PROVE CrashInv'
  <2>1. /\ pc[p] = "write" /\ pc' = [pc EXCEPT ![p] = "sync"]
        /\ UNCHANGED <<db, cache, lock, op, fresh, minted, known, acked, exposed>>
        /\ rows' = rows \cup {OpRow(p)}
    BY <1>17 DEF WriteCanonicalLine, Write, WriteClean
  <2>2. OpRow(p) \notin rows
    BY <2>1
  <2>3. rows' \ {OpRow(p)} = rows
    BY <2>1, <2>2
  <2>4. \A r, t \in rows' : r.id = t.id => r = t
    BY <2>1
  <2>5. \A q \in Procs : q # p => pc'[q] = pc[q] /\ pc[q] \notin Inside
    BY <2>1
  <2>6. ProofTrue'
    BY <2>1, <2>3, <2>5
  <2>7. Minted' /\ FreshUnused'
    BY <2>1
  <2> QED BY <2>1, <2>4, <2>5, <2>6, <2>7
<1>18. ASSUME NEW p \in Procs, WriteFails(p) PROVE CrashInv'
  <2>1. /\ pc[p] = "write" /\ UNCHANGED <<db, cache, minted, acked, exposed>>
        /\ rows' = rows \/ rows' = rows \cup {OpRow(p)}
    BY <1>18 DEF WriteFails, Write
  <2>2. \A q \in Procs : pc[q] \in Inside => q = p
    BY <2>1
  <2>3. \A q \in Procs : pc'[q] \notin Inside /\ (pc'[q] \in Appending => q # p /\ pc'[q] = pc[q] /\ op'[q] = op[q])
    BY <2>1, <2>2, <1>18 DEF WriteFails, ReturnUnknown, Return
  <2>4. \A r, t \in rows' : r.id = t.id => r = t
    BY <2>1
  <2>5. Minted' /\ FreshUnused'
    BY <2>1, <2>3, <1>18 DEF WriteFails, ReturnUnknown, Return
  <2>6. \A q \in Procs : pc'[q] # "want" \/ op'[q].proof = {}
    BY <2>3
  <2> QED BY <2>1, <2>3, <2>4, <2>5, <2>6
<1>19. ASSUME NEW p \in Procs, SyncFails(p) PROVE CrashInv'
  BY <1>19 DEF SyncFails, ReturnUnknown, Return
<1>20. ASSUME NEW p \in Procs, SyncAndReadback(p) PROVE CrashInv'
  BY <1>20 DEF SyncAndReadback
<1>21. ASSUME NEW p \in Procs, resync_existing_canonical_fact(p) PROVE CrashInv'
  BY <1>21 DEF resync_existing_canonical_fact, RepairTail
<1>22. ASSUME NEW p \in Procs, ResyncFails(p) PROVE CrashInv'
  BY <1>22 DEF ResyncFails, RepairTail, ReturnUnknown, Return
<1>23. ASSUME NEW p \in Procs, ProjectFactsDb(p) PROVE CrashInv'
  BY <1>23 DEF ProjectFactsDb
<1>24. ASSUME NEW p \in Procs, ProjectionFails(p) PROVE CrashInv'
  BY <1>24 DEF ProjectionFails, Return
<1>25. ASSUME NEW p \in Procs, refresh_reconcile_cache_after_append(p) PROVE CrashInv'
  <2>1. PICK a : cache' = {CacheNow(a, SeqStats(db))} /\ a = SeqStats(rows)
    BY <1>25, AdvanceMeansEqual DEF refresh_reconcile_cache_after_append
  <2>2. \A c \in cache' : c.canonical = SeqStats(c.rows)
    BY <2>1, CacheNowFields
  <2> QED BY <2>2, <1>25 DEF refresh_reconcile_cache_after_append, Return
<1>26. ASSUME NEW p \in Procs, Crash(p) PROVE CrashInv'
  BY <1>26 DEF Crash
<1>27. ASSUME NEW p \in Procs, CrashWriting(p) PROVE CrashInv'
  <2>1. /\ pc[p] = "write" /\ UNCHANGED <<db, cache, minted, acked, exposed>>
        /\ rows' = rows \/ rows' = rows \cup {OpRow(p)}
    BY <1>27 DEF CrashWriting, Write
  <2>2. \A q \in Procs : pc[q] \in Inside => q = p
    BY <2>1
  <2>3. \A q \in Procs : pc'[q] \notin Inside /\ (pc'[q] \in Appending => q # p /\ pc'[q] = pc[q] /\ op'[q] = op[q])
    BY <2>1, <2>2, <1>27 DEF CrashWriting
  <2>4. \A r, t \in rows' : r.id = t.id => r = t
    BY <2>1
  <2>5. Minted' /\ FreshUnused'
    BY <2>1, <2>3, <1>27 DEF CrashWriting
  <2>6. \A q \in Procs : pc'[q] # "want" \/ op'[q].proof = {}
    BY <2>3
  <2> QED BY <2>1, <2>3, <2>4, <2>5, <2>6
<1>28. ASSUME NEW p \in Procs, NEW i \in Ids, NEW s \in Segs,
             AppendNew(p, i, s) \/ AppendRetry(p, i, s)
      PROVE  CrashInv'
  BY <1>28 DEF AppendNew, AppendRetry, Request, IdsOf
<1> QED
  BY <1>1, <1>2, <1>3, <1>4, <1>5, <1>6, <1>7, <1>8, <1>9, <1>10, <1>11, <1>12, <1>13, <1>14, <1>15, <1>16, <1>17, <1>18, <1>19, <1>20, <1>21, <1>22, <1>23, <1>24, <1>25, <1>26, <1>27, <1>28, <1>30 DEF Next, Step, Reconcile, Append, Project

\* CrashInv holds while the machine stays up.
THEOREM CrashInvHolds == Spec => []CrashInv
<1>1. Init => CrashInv
  <2>1. Init => PowerInv
    BY FS_EmptySet DEF Init, PowerInv, TypeOK, Finite, LockHeld, OpPresent, SeqAhead, WriteClean,
       Written, SeqUnique, AckedDurable, NoCorruptLine, KeyAhead, KeyUnique, Inside, Outside, Appending, Tails
  <2> QED BY <2>1 DEF Init, CrashInv, DbCanonical, CacheTrue, ProofTrue, Minted, FreshUnused,
             IdAhead, IdUnique, Appending
<1>2. CrashInv /\ [Next]_vars => CrashInv'
  <2>1. ASSUME CrashInv, UNCHANGED vars PROVE CrashInv'
    <3>1. PowerInv'
      BY <2>1 DEF vars, CrashInv, PowerInv, TypeOK, Finite, LockHeld, OpPresent, SeqAhead,
         WriteClean, Written, SeqUnique, AckedDurable, NoCorruptLine, KeyAhead, KeyUnique, OpRow
    <3> QED BY <2>1, <3>1 DEF vars, CrashInv, DbCanonical, CacheTrue, ProofTrue, Minted,
               FreshUnused, IdAhead, IdUnique, OpRow
  <2> QED BY <2>1, CrashInvStep
<1> QED BY <1>1, <1>2, PTL DEF Spec

\* Retrying is idempotent: an event id has one row, for any number of processes,
\* ids and segments and whichever process is killed wherever.
THEOREM IdUniqueHolds == Spec => []IdUnique
<1>1. CrashInv => IdUnique
  BY DEF CrashInv
<1> QED BY <1>1, CrashInvHolds, PTL

\* The reconcile sidecar never proves a facts.db that differs from the segments:
\* an append that trusts it works on the rows that are there.
THEOREM ProofHonestHolds == Spec => []ProofHonest
<1>1. CrashInv => ProofHonest
  BY ProofMeansEqual DEF CrashInv, PowerInv, ProofHonest
<1> QED BY <1>1, CrashInvHolds, PTL

\* The store implements the append-only ledger its readers rely on.
THEOREM LedgerRefines == Spec => ContractSpec
<1>1. Init => Contract!Init
  BY DEF Init, Contract!Init
<1>2. ASSUME CrashInv, [Next]_vars PROVE [Contract!Next]_Contract!contractVars
  <2> USE DEF Contract!contractVars, ledgerVars, derivedVars, procVars, idVars
  <2>1. CASE UNCHANGED vars
    BY <2>1 DEF vars
  <2>2. ASSUME NEW p \in Procs, pc[p] = "write", acked' = acked,
               rows' = rows \/ rows' = rows \cup {OpRow(p)}
        PROVE  [Contract!Next]_Contract!contractVars
    <3>1. op[p].seq \in 1..MaxSeq /\ op[p].id \in Ids /\ op[p].seg \in Segs
      BY <1>2, <2>2, OpFields DEF CrashInv, PowerInv, SeqAhead, Appending
    <3>2. \A r \in rows : r.seq < op[p].seq /\ r.id # op[p].id
      BY <1>2, <2>2 DEF CrashInv, PowerInv, SeqAhead, IdAhead
    <3> QED BY <2>2, <3>1, <3>2 DEF OpRow, Contract!Next, Contract!Append
  <2>3. ASSUME NEW p \in Procs, WriteCanonicalLine(p) \/ WriteFails(p) \/ CrashWriting(p)
        PROVE  [Contract!Next]_Contract!contractVars
    BY <2>2, <2>3 DEF WriteCanonicalLine, WriteFails, CrashWriting, Write
  <2>8. ASSUME NEW p \in Procs, FoundByKey(p)
        PROVE  [Contract!Next]_Contract!contractVars
    BY <2>8 DEF FoundByKey, SameKey, Contract!Next, Contract!Report
  <2>4. ASSUME NEW p \in Procs, SyncAndReadback(p) \/ resync_existing_canonical_fact(p)
        PROVE  [Contract!Next]_Contract!contractVars
    <3>1. OpRow(p) \in rows
      BY <1>2, <2>4 DEF SyncAndReadback, resync_existing_canonical_fact, CrashInv, PowerInv, Written
    <3> QED BY <2>4, <3>1 DEF SyncAndReadback, resync_existing_canonical_fact, Contract!Next,
               Contract!Report
  <2>5. ASSUME NEW p \in Procs, Reconcile(p) \/ Project(p) \/ Open(p) \/ Crash(p)
                                \/ acquire_room_mutation_lock(p) \/ LockDeadline(p)
        PROVE  UNCHANGED <<rows, acked>>
    BY <2>5 DEF Reconcile, ReconcileFast, ReconcileEmpty, ReconcileEqual, ReconcileDiffer, Replay,
       OpenRefused, Project, ProjectFactsDb, ProjectionFails, refresh_reconcile_cache_after_append,
       Open, Crash, acquire_room_mutation_lock, LockDeadline
  <2>6. ASSUME NEW p \in Procs, NEW i \in Ids, NEW s \in Segs,
               AppendNew(p, i, s) \/ AppendRetry(p, i, s)
        PROVE  UNCHANGED <<rows, acked>>
    BY <2>6 DEF AppendNew, AppendRetry
  <2>7. ASSUME NEW p \in Procs,
               AppendRefused(p) \/ GateRefused(p) \/ AllocateSeq(p) \/ FoundExisting(p)
               \/ NotStarted(p) \/ apply_active_tail_repair(p) \/ RepairFails(p)
               \/ SyncFails(p) \/ ResyncFails(p)
        PROVE  UNCHANGED <<rows, acked>>
    BY <2>7 DEF AppendRefused, GateRefused, AllocateSeq, FoundExisting, NotStarted,
       apply_active_tail_repair, RepairFails, SyncFails, ResyncFails
  <2> QED BY <1>2, <2>1, <2>3, <2>4, <2>5, <2>6, <2>7, <2>8 DEF Next, Step, Append
<1> QED BY <1>1, <1>2, CrashInvHolds, PTL DEF Spec, ContractSpec, Contract!Spec
=============================================================================
