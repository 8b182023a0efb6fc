-------------------------- MODULE LeadSeat_proofs --------------------------
(***************************************************************************)
(* Proofs about LeadSeat: for any number of agents, any timeouts and rooms *)
(* of any length, a lead that was heard from keeps its seat, and whether a *)
(* blocker freezes the room was settled when it was written.               *)
(***************************************************************************)
EXTENDS LeadSeat, WellFoundedInduction, TLAPS

-----------------------------------------------------------------------------
(* Inductive invariant *)

Kinds == {"presence", "lead", "relinquish", "work", "blocker", "resolve", "retract"}
Fact ==
    [kind : Kinds, tool : Tools, to : Tools \cup {None}, ref : Nat, at : Nat,
     force : BOOLEAN, of : Nat]

LeadTypes ==
    /\ facts \in Seq(Fact)
    /\ now \in Nat
    /\ draft \in [Tools -> {None} \cup Fact]

\* What was read before the append is a decision on the seat.
DraftsDecide == \A t \in Tools : draft[t] # None => is_lead_decision(draft[t])

\* A fact is withdrawn after it was written.
RetractsBack == \A i \in Ids : facts[i].kind = "retract" => facts[i].ref < i

LeadInv ==
    /\ LeadTypes
    /\ DraftsDecide
    /\ RetractsBack

-----------------------------------------------------------------------------
(* Projections of a longer room *)

\* A nonempty set of positions has a latest one.
LEMMA LatestExists ==
    ASSUME NEW n \in Nat, NEW S \in SUBSET (0 .. n), S # {}
    PROVE  Max(S) \in S /\ \A y \in S : y <= Max(S)
<1> DEFINE D == {m \in Nat : n - m \in S}
<1>1. D \in SUBSET Nat /\ D # {}
  <2>1. PICK s \in S : TRUE
    OBVIOUS
  <2>2. n - s \in Nat /\ n - (n - s) = s
    OBVIOUS
  <2> QED BY <2>2
<1>2. PICK m \in D : \A k \in D : ~(<<k, m>> \in OpToRel(<, Nat))
  <2> HIDE DEF D
  <2> QED BY <1>1, NatLessThanWellFounded, WFMin
<1>3. \A k \in D : m <= k
  <2> HIDE DEF D
  <2>1. \A k \in D : ~(k < m)
    BY <1>1, <1>2 DEF OpToRel
  <2> QED BY <1>1, <2>1
<1>4. n - m \in S
  OBVIOUS
<1>5. \A y \in S : n - m >= y
  <2> TAKE y \in S
  <2>1. n - y \in Nat /\ n - (n - y) = y
    OBVIOUS
  <2>2. m <= n - y
    BY <1>3, <2>1
  <2> QED BY <2>2
<1>6. Max(S) \in S /\ \A y \in S : Max(S) >= y
  BY <1>4, <1>5 DEF Max
<1> QED BY <1>6

\* The lead that the rows F name when only those at the positions S count.
DecisionsIn(F, S) == {i \in S : is_lead_decision(F[i])}
LeadIn(F, S) ==
    LET D == DecisionsIn(F, S) IN
    IF D = {} \/ F[Max(D)].kind = "relinquish" THEN None ELSE F[Max(D)].to

\* The same decisions name the same lead.
LEMMA SameDecisions ==
    ASSUME NEW n \in Nat, NEW F, NEW G, NEW S, NEW T,
           DecisionsIn(F, S) = DecisionsIn(G, T), DecisionsIn(F, S) \subseteq 1 .. n,
           \A i \in 1 .. n : F[i] = G[i]
    PROVE  LeadIn(F, S) = LeadIn(G, T)
<1> DEFINE D == DecisionsIn(F, S)
<1>1. CASE D = {}
  BY <1>1 DEF LeadIn
<1>2. CASE D # {}
  <2>1. D \in SUBSET (0 .. n)
    OBVIOUS
  <2> HIDE DEF D
  <2>2. Max(D) \in D
    BY <1>2, <2>1, LatestExists
  <2>3. F[Max(D)] = G[Max(D)]
    BY <2>2 DEF D
  <2> QED BY <1>2, <2>3 DEF LeadIn, D
<1> QED BY <1>1, <1>2

\* What a fact appended to the room leaves as it was.
LEMMA RoomGrows ==
    ASSUME LeadInv, NEW f \in Fact, append_fact(f), f.kind = "retract" => f.ref <= Len(facts)
    PROVE  /\ Len(facts) \in Nat /\ Len(facts)' = Len(facts) + 1
           /\ facts' \in Seq(Fact) /\ facts'[Len(facts) + 1] = f
           /\ \A i \in 1 .. Len(facts) : facts'[i] = facts[i]
           /\ Ids' = Ids \cup {Len(facts) + 1}
           /\ Resolved' = (IF f.kind = "retract" THEN Resolved \ {f.ref} ELSE Resolved)
                          \cup {Len(facts) + 1}
<1> DEFINE n == Len(facts)
<1>1. /\ n \in Nat /\ Len(facts)' = n + 1
      /\ facts' \in Seq(Fact) /\ facts'[n + 1] = f
      /\ \A i \in 1 .. n : facts'[i] = facts[i]
  BY DEF LeadInv, LeadTypes, append_fact
<1>2. Ids' = Ids \cup {n + 1}
  BY <1>1 DEF Ids
<1>3. n + 1 \notin retracted_ids
  <2>1. \A i \in 1 .. n : facts[i] \in Fact /\ (facts[i].kind = "retract" => facts[i].ref < i)
    BY DEF LeadInv, RetractsBack, LeadTypes, Ids
  <2>2. \A i \in 1 .. n : facts[i].ref \in Nat
    BY <2>1 DEF Fact
  <2>3. \A i \in 1 .. n, r \in Nat : r < i => r # n + 1
    BY <1>1
  <2>4. \A i \in 1 .. n : facts[i].kind = "retract" => facts[i].ref # n + 1
    <3> HIDE DEF n
    <3> QED BY <2>1, <2>2, <2>3
  <2> QED BY <2>4 DEF retracted_ids, Ids
<1>4. retracted_ids' = IF f.kind = "retract" THEN retracted_ids \cup {f.ref} ELSE retracted_ids
  <2>1. \A x : x \in retracted_ids' <=> \E i \in Ids' : facts'[i].kind = "retract" /\ facts'[i].ref = x
    BY DEF retracted_ids
  <2>2. \A x : x \in retracted_ids <=> \E i \in 1 .. n : facts[i].kind = "retract" /\ facts[i].ref = x
    BY DEF retracted_ids, Ids
  <2> HIDE DEF n
  <2>3. \A x : x \in retracted_ids' <=> x \in retracted_ids \/ (f.kind = "retract" /\ f.ref = x)
    BY <1>1, <1>2, <2>1, <2>2 DEF Ids, n
  <2> QED BY <2>3
<1>5. f.kind = "retract" => f.ref # n + 1
  BY <1>1 DEF Fact
<1> HIDE DEF n
<1>6. Resolved' = Ids' \ retracted_ids' /\ Resolved = Ids \ retracted_ids /\ n + 1 \notin Ids
  BY <1>1 DEF Resolved, Ids, n
<1>7. Resolved' = (IF f.kind = "retract" THEN Resolved \ {f.ref} ELSE Resolved) \cup {n + 1}
  BY <1>2, <1>3, <1>4, <1>5, <1>6
<1> QED BY <1>1, <1>2, <1>7 DEF n

-----------------------------------------------------------------------------
(* LeadInv is inductive *)

\* A decision or another fact appended to the room keeps the invariant.
LEMMA AppendKeeps ==
    ASSUME LeadInv, NEW f \in Fact, append_fact(f), f.kind = "retract" => f.ref <= Len(facts),
           now' = now, draft' \in [Tools -> {None} \cup Fact], DraftsDecide'
    PROVE  LeadInv'
<1>1. /\ Len(facts) \in Nat /\ facts' \in Seq(Fact) /\ facts'[Len(facts) + 1] = f
      /\ \A i \in 1 .. Len(facts) : facts'[i] = facts[i]
      /\ Ids' = Ids \cup {Len(facts) + 1}
  BY RoomGrows
<1>2. RetractsBack'
  <2> SUFFICES ASSUME NEW i \in Ids', facts'[i].kind = "retract" PROVE facts'[i].ref < i
    BY DEF RetractsBack
  <2>1. CASE i \in Ids
    BY <1>1, <2>1 DEF LeadInv, RetractsBack, Ids
  <2>2. CASE i = Len(facts) + 1
    <3>1. f.ref \in Nat /\ f.ref <= Len(facts)
      BY <1>1, <2>2 DEF Fact
    <3> QED BY <1>1, <2>2, <3>1
  <2> QED BY <1>1, <2>1, <2>2
<1> QED BY <1>1, <1>2 DEF LeadInv, LeadTypes

\* Every append of the room is one fact, a retraction that of an earlier one.
Appends(f) ==
    /\ append_fact(f) /\ now' = now
    /\ f.kind = "retract" => f.ref <= Len(facts)

\* Every step appends one fact or leaves the room alone, and keeps the invariant.
LEMMA LeadStep ==
    ASSUME LeadInv, [Next]_vars
    PROVE  LeadInv' /\ (facts' = facts \/ \E f \in Fact : Appends(f))
<1> LeadTypes /\ now \in Nat /\ Len(facts) \in Nat /\ draft \in [Tools -> {None} \cup Fact]
  BY DEF LeadInv, LeadTypes
<1>d. ASSUME UNCHANGED draft PROVE draft' \in [Tools -> {None} \cup Fact] /\ DraftsDecide'
  BY <1>d DEF LeadInv, DraftsDecide, is_lead_decision
<1>f. ASSUME NEW t \in Tools, NEW f \in Fact, is_lead_decision(f), draft' = [draft EXCEPT ![t] = f]
      PROVE  draft' \in [Tools -> {None} \cup Fact] /\ DraftsDecide'
  BY <1>f DEF LeadInv, DraftsDecide, is_lead_decision
<1>n. ASSUME NEW t \in Tools, draft' = [draft EXCEPT ![t] = None]
      PROVE  draft' \in [Tools -> {None} \cup Fact] /\ DraftsDecide'
  BY <1>n DEF LeadInv, DraftsDecide, is_lead_decision
<1>a. ASSUME NEW f \in Fact, Appends(f), draft' \in [Tools -> {None} \cup Fact], DraftsDecide'
      PROVE  LeadInv' /\ \E g \in Fact : Appends(g)
  BY <1>a, AppendKeeps DEF Appends
<1>q. ASSUME UNCHANGED facts, now' \in Nat, draft' \in [Tools -> {None} \cup Fact], DraftsDecide'
      PROVE  LeadInv'
  BY <1>q DEF LeadInv, LeadTypes, RetractsBack, Ids
<1>1. ASSUME NEW t \in Tools, ensure_presence(t) PROVE LeadInv' /\ \E g \in Fact : Appends(g)
  <2> DEFINE f == NewFact("presence", t)
             g == [NewFact("lead", t) EXCEPT !.to = t]
  <2>1. f \in Fact /\ f.kind = "presence" /\ g \in Fact /\ g.kind = "lead"
    BY DEF NewFact, Fact, Kinds
  <2>2. append_fact(f) /\ now' = now /\ (draft' = draft \/ draft' = [draft EXCEPT ![t] = g])
    BY <1>1 DEF ensure_presence
  <2> HIDE DEF f, g
  <2>3. draft' \in [Tools -> {None} \cup Fact] /\ DraftsDecide'
    BY <1>d, <1>f, <2>1, <2>2 DEF is_lead_decision
  <2> QED BY <1>a, <2>1, <2>2, <2>3 DEF Appends
<1>2. ASSUME NEW t \in Tools, NEW to \in Tools, NEW force \in BOOLEAN, set_lead(t, to, force)
      PROVE  LeadInv' /\ \E g \in Fact : Appends(g)
  <2> DEFINE f == [NewFact("lead", t) EXCEPT !.to = to, !.force = force]
  <2>1. f \in Fact /\ f.kind = "lead"
    BY DEF NewFact, Fact, Kinds
  <2>2. append_fact(f) /\ now' = now /\ draft' = draft
    BY <1>2 DEF set_lead
  <2> HIDE DEF f
  <2> QED BY <1>a, <1>d, <2>1, <2>2 DEF Appends
<1>3. ASSUME NEW t \in Tools, NEW kind \in {"relinquish", "work", "blocker"}, append_fact(NewFact(kind, t)),
             UNCHANGED <<now, draft>>
      PROVE  LeadInv' /\ \E g \in Fact : Appends(g)
  <2>1. NewFact(kind, t) \in Fact /\ NewFact(kind, t).kind # "retract"
    BY DEF NewFact, Fact, Kinds
  <2> QED BY <1>3, <1>a, <1>d, <2>1 DEF Appends
<1>4. ASSUME NEW t \in Tools, NEW i \in Ids, retract_in_room(t, i)
      PROVE  LeadInv' /\ \E g \in Fact : Appends(g)
  <2> DEFINE f == [NewFact("retract", t) EXCEPT !.ref = i]
  <2>1. i \in Nat /\ i <= Len(facts)
    BY DEF Ids
  <2>2. f \in Fact /\ f.ref = i
    BY <2>1 DEF NewFact, Fact, Kinds
  <2>3. append_fact(f) /\ now' = now /\ draft' = draft
    BY <1>4 DEF retract_in_room
  <2> HIDE DEF f
  <2> QED BY <1>a, <1>d, <2>1, <2>2, <2>3 DEF Appends
<1>r. ASSUME NEW t \in Tools, NEW i \in Ids, Resolve(t, i)
      PROVE  LeadInv' /\ \E g \in Fact : Appends(g)
  <2> DEFINE f == [NewFact("resolve", t) EXCEPT !.ref = i]
  <2>0. i \in Nat
    BY DEF Ids
  <2>1. f \in Fact /\ f.kind = "resolve"
    BY <2>0 DEF NewFact, Fact, Kinds
  <2>2. append_fact(f) /\ now' = now /\ draft' = draft
    BY <1>r DEF Resolve
  <2> HIDE DEF f
  <2> QED BY <1>a, <1>d, <2>1, <2>2 DEF Appends
<1>5. ASSUME NEW t \in Tools, reap_stale_lead(t) PROVE LeadInv' /\ facts' = facts
  <2> DEFINE e == lead_and_epoch_of.epoch
             f == [NewFact("relinquish", t) EXCEPT !.of = e]
             D == LeadDecisions(Resolved) \cup {0}
  <2>1. D \in SUBSET (0 .. Len(facts)) /\ D # {}
    BY DEF LeadDecisions, Resolved, Ids
  <2>2. e = Max(D)
    BY DEF lead_and_epoch_of
  <2> HIDE DEF e, D
  <2>3. e \in Nat
    <3>1. Max(D) \in D
      BY <2>1, LatestExists
    <3>2. D \subseteq Nat
      BY <2>1
    <3>3. Max(D) \in Nat
      BY <3>1, <3>2
    <3> QED BY <2>2, <3>3
  <2>4. f \in Fact /\ f.kind = "relinquish"
    BY <2>3 DEF NewFact, Fact, Kinds
  <2>5. draft' = [draft EXCEPT ![t] = f] /\ UNCHANGED <<facts, now>>
    BY <1>5 DEF reap_stale_lead, e
  <2> HIDE DEF f
  <2>6. draft' \in [Tools -> {None} \cup Fact] /\ DraftsDecide'
    BY <1>f, <2>4, <2>5 DEF is_lead_decision
  <2> QED BY <1>q, <2>5, <2>6
<1>6. ASSUME NEW t \in Tools, AppendDraft(t) PROVE LeadInv' /\ \E g \in Fact : Appends(g)
  <2>1. draft[t] \in Fact /\ is_lead_decision(draft[t])
    BY <1>6 DEF AppendDraft, LeadInv, DraftsDecide
  <2>2. append_fact(draft[t]) /\ now' = now /\ draft[t].kind # "retract"
    BY <1>6, <2>1 DEF AppendDraft, is_lead_decision
  <2>3. draft' \in [Tools -> {None} \cup Fact] /\ DraftsDecide'
    BY <1>6, <1>n DEF AppendDraft
  <2> QED BY <1>a, <2>1, <2>2, <2>3 DEF Appends
<1>7. ASSUME NEW t \in Tools, GiveUp(t) PROVE LeadInv' /\ facts' = facts
  BY <1>7, <1>n, <1>q DEF GiveUp
<1>8. CASE Tick
  BY <1>8, <1>d, <1>q DEF Tick
<1>9. CASE UNCHANGED vars
  BY <1>9, <1>d, <1>q DEF vars
<1> QED
  BY <1>1, <1>2, <1>3, <1>4, <1>r, <1>5, <1>6, <1>7, <1>8, <1>9 DEF Next, Relinquish, Say

\* The room is well formed in every behaviour: positions, drafts and
\* retractions are what the projections take them for.
THEOREM LeadInvHolds == Spec => []LeadInv
<1>1. Init => LeadInv
  BY DEF Init, LeadInv, LeadTypes, DraftsDecide, RetractsBack, Ids
<1>2. LeadInv /\ [Next]_vars => LeadInv'
  BY LeadStep
<1> QED BY <1>1, <1>2, PTL DEF Spec

-----------------------------------------------------------------------------
(* Properties *)

\* What was projected and what will be, in terms of the rows.
LEMMA ProjectedLead ==
    /\ projected_lead = LeadIn(facts, Resolved)
    /\ (projected_lead)' = LeadIn(facts', Resolved')
    /\ \A i : projected_lead_with_retraction(i) = LeadIn(facts, Resolved \ {i})
BY DEF projected_lead, projected_lead_with_retraction, lead_of, LeadIn, LeadDecisions, DecisionsIn

\* A fact that decides nothing on the seat, itself or by retraction, moves
\* the seat nowhere.
LEMMA SeatMoves ==
    ASSUME LeadInv, NEW f \in Fact, Appends(f), ~is_lead_decision(f)
    PROVE  (projected_lead)' = IF f.kind = "retract" THEN projected_lead_with_retraction(f.ref)
                               ELSE projected_lead
<1> DEFINE n == Len(facts)
           S == IF f.kind = "retract" THEN Resolved \ {f.ref} ELSE Resolved
<1>1. /\ n \in Nat /\ facts'[n + 1] = f /\ Resolved' = S \cup {n + 1}
      /\ \A i \in 1 .. n : facts'[i] = facts[i]
  BY RoomGrows DEF Appends
<1>2. S \subseteq 1 .. n
  BY DEF Resolved, Ids
<1> HIDE DEF n, S
<1>3. DecisionsIn(facts', Resolved') = DecisionsIn(facts, S)
  BY <1>1, <1>2 DEF DecisionsIn
<1>4. DecisionsIn(facts, S) \subseteq 1 .. n
  BY <1>2 DEF DecisionsIn
<1>5. LeadIn(facts', Resolved') = LeadIn(facts, S)
  BY <1>1, <1>3, <1>4, SameDecisions
<1> QED BY <1>5, ProjectedLead DEF S

\* An agent that left a fact was last seen at a time.
LEMMA LastSeenTyped ==
    ASSUME LeadInv, NEW t \in Tools, Authored(t) # {}
    PROVE  LastSeen(t) \in Nat
<1> DEFINE A == Authored(t)
<1>1. A \in SUBSET (0 .. Len(facts)) /\ A \subseteq Ids /\ Len(facts) \in Nat
  BY DEF Authored, Resolved, Ids, LeadInv, LeadTypes
<1> HIDE DEF A
<1>2. A # {}
  BY DEF A
<1>3. Max(A) \in A
  BY <1>1, <1>2, LatestExists
<1>4. facts[Max(A)] \in Fact
  <2>1. \A i \in Ids : facts[i] \in Fact
    BY DEF LeadInv, LeadTypes, Ids
  <2> QED BY <1>1, <1>3, <2>1
<1>5. facts[Max(A)].at \in Nat
  BY <1>4 DEF Fact
<1> QED BY <1>5 DEF LastSeen, A

\* The gate lets nobody but the lead itself, or a recorded seizure, move the
\* seat of a lead that was heard from.
LEMMA GateHolds ==
    ASSUME LeadInv, NEW t \in Tools, NEW f \in Fact, Appends(f),
           projected_lead = t, (projected_lead)' # t,
           Authored(t) # {}, now - LastSeen(t) <= Large
    PROVE  f.tool = t \/ f.force
<1>1. ~lead_is_stale(t)
  <2>1. LastSeen(t) \in Nat /\ now \in Nat /\ Large \in Nat
    BY LastSeenTyped, LeadAssumption DEF LeadInv, LeadTypes
  <2> QED BY <2>1 DEF lead_is_stale
<1>2. projected_lead # None
  BY LeadAssumption
<1>3. CASE is_lead_decision(f)
  BY <1>1, <1>2, <1>3 DEF Appends, append_fact, assert_lead_transfer_authorized, lead_seat_change_allowed
<1>4. CASE ~is_lead_decision(f)
  <2>1. f.kind = "retract" /\ projected_lead_with_retraction(f.ref) # t
    BY <1>4, SeatMoves
  <2> QED BY <1>1, <1>2, <2>1
         DEF Appends, append_fact, assert_lead_retraction_authorized, lead_seat_change_allowed
<1> QED BY <1>3, <1>4

\* append_fact's gate keeps a lead that was heard from in its seat, whatever
\* agents and reapers decided on an older projection (write_authority.rs).
THEOREM SeatKeptHolds == Spec => SeatKept
<1>1. LeadInv /\ [Next]_vars =>
        [\A t \in Tools :
          /\ projected_lead = t /\ (projected_lead)' # t
          /\ Authored(t) # {} /\ now - LastSeen(t) <= Large
          => facts'[Len(facts')].tool = t \/ facts'[Len(facts')].force]_vars
  <2> SUFFICES ASSUME LeadInv, [Next]_vars, NEW t \in Tools,
                      projected_lead = t, (projected_lead)' # t,
                      Authored(t) # {}, now - LastSeen(t) <= Large
               PROVE  facts'[Len(facts')].tool = t \/ facts'[Len(facts')].force
    OBVIOUS
  <2>1. facts' # facts
    BY DEF projected_lead, lead_of, LeadDecisions, Resolved, Ids, retracted_ids
  <2>2. PICK f \in Fact : Appends(f)
    BY <2>1, LeadStep
  <2>3. facts'[Len(facts')] = f
    BY <2>2, RoomGrows DEF Appends
  <2> QED BY <2>2, <2>3, GateHolds
<1> QED BY <1>1, LeadInvHolds, PTL DEF SeatKept, Spec

\* A fact that settles nothing anew about a blocker leaves its part in the
\* freeze as it was.
LEMMA FreezeFramed ==
    ASSUME LeadInv, NEW f \in Fact, Appends(f), NEW i \in Ids, ~Reopens(f, i)
    PROVE  Freezes(i) <=> (Freezes(i))'
<1> DEFINE n == Len(facts)
           R == IF f.kind = "retract" THEN Resolved \ {f.ref} ELSE Resolved
           S == {j \in Resolved : j <= i}
           T == {j \in Resolved' : j <= i}
<1>1. /\ n \in Nat /\ Resolved' = R \cup {n + 1} /\ facts'[n + 1] = f
      /\ \A j \in 1 .. n : facts'[j] = facts[j]
  BY RoomGrows DEF Appends
<1>2. i \in 1 .. n /\ Resolved \subseteq 1 .. n /\ R \subseteq Resolved
  BY DEF Resolved, Ids
<1>3. i # n + 1 /\ ~(n + 1 <= i) /\ f.ref \in Nat
  BY <1>1, <1>2 DEF Fact
<1>4. \A j \in Resolved \ R : j = f.ref /\ f.kind = "retract"
  OBVIOUS
<1> HIDE DEF n, R
<1>5. /\ i \in Resolved' <=> i \in Resolved
      /\ facts'[i] = facts[i]
  BY <1>1, <1>2, <1>3, <1>4 DEF Reopens
<1>6. (\E j \in Resolved' : Closes(facts'[j], i)) <=> \E j \in Resolved : Closes(facts[j], i)
  <2>1. ASSUME NEW j \in Resolved', Closes(facts'[j], i)
        PROVE  \E k \in Resolved : Closes(facts[k], i)
    <3>1. j # n + 1
      BY <1>1, <2>1 DEF Reopens
    <3>2. j \in Resolved /\ facts'[j] = facts[j]
      BY <1>1, <1>2, <3>1
    <3> QED BY <2>1, <3>2
  <2>2. ASSUME NEW j \in Resolved, Closes(facts[j], i)
        PROVE  \E k \in Resolved' : Closes(facts'[k], i)
    <3>1. j \in R
      BY <1>4, <2>2 DEF Reopens
    <3>2. j \in Resolved' /\ facts'[j] = facts[j]
      BY <1>1, <1>2, <3>1
    <3> QED BY <2>2, <3>2
  <2> QED BY <2>1, <2>2
<1>7. i \in active_blockers <=> i \in active_blockers'
  BY <1>5, <1>6 DEF active_blockers
<1>8. lead_as_of(i) = LeadIn(facts, S) /\ (lead_as_of(i))' = LeadIn(facts', T)
  BY DEF lead_as_of, lead_of, LeadIn, LeadDecisions, DecisionsIn
<1>9. DecisionsIn(facts, S) = DecisionsIn(facts', T) /\ DecisionsIn(facts, S) \subseteq 1 .. n
  <2>1. ASSUME NEW j \in S, is_lead_decision(facts[j])
        PROVE  j \in T /\ is_lead_decision(facts'[j])
    <3>1. j \in R
      <4> SUFFICES ASSUME j \notin R PROVE FALSE
        OBVIOUS
      <4>1. j = f.ref /\ f.kind = "retract"
        BY <1>4
      <4>2. j = i \/ j < i
        BY <1>2
      <4> QED BY <2>1, <4>1, <4>2 DEF Reopens
    <3> QED BY <1>1, <1>2, <2>1, <3>1
  <2>2. ASSUME NEW j \in T, is_lead_decision(facts'[j])
        PROVE  j \in S /\ is_lead_decision(facts[j])
    <3>1. j \in Resolved
      BY <1>1, <1>2, <1>3
    <3> QED BY <1>1, <1>2, <2>2, <3>1
  <2>3. S \subseteq 1 .. n
    BY <1>2
  <2> HIDE DEF S, T
  <2> QED BY <2>1, <2>2, <2>3 DEF DecisionsIn
<1> HIDE DEF S, T
<1>10. LeadIn(facts, S) = LeadIn(facts', T)
  BY <1>1, <1>9, SameDecisions
<1> QED BY <1>5, <1>7, <1>8, <1>10 DEF Freezes

\* Which blockers freeze the room is settled when they are written; only the
\* closing or withdrawing of a blocker, or the withdrawal of its closing or of
\* an earlier decision on the seat, settles it anew (the snapshot fold of
\* store.rs asks for the lead of the blocker's moment).
THEOREM FreezeSettledHolds == Spec => FreezeSettled
<1>1. LeadInv /\ [Next]_vars =>
        [\A i \in Ids :
           (Freezes(i) <=> (Freezes(i))') \/ Reopens(facts'[Len(facts')], i)]_vars
  <2> SUFFICES ASSUME LeadInv, [Next]_vars, NEW i \in Ids, ~Reopens(facts'[Len(facts')], i)
               PROVE  Freezes(i) <=> (Freezes(i))'
    OBVIOUS
  <2>1. CASE facts' = facts
    BY <2>1 DEF Freezes, active_blockers, Closes, lead_as_of, lead_of, LeadDecisions, Resolved, Ids,
                retracted_ids, is_lead_decision
  <2>2. CASE facts' # facts
    <3>1. PICK f \in Fact : Appends(f)
      BY <2>2, LeadStep
    <3>2. facts'[Len(facts')] = f
      BY <3>1, RoomGrows DEF Appends
    <3> QED BY <3>1, <3>2, FreezeFramed
  <2> QED BY <2>1, <2>2
<1> QED BY <1>1, LeadInvHolds, PTL DEF FreezeSettled, Spec
=============================================================================
