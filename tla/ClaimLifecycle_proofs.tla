----------------------- MODULE ClaimLifecycle_proofs -----------------------
(***************************************************************************)
(* Proofs about ClaimLifecycle: for any agents, files, timeouts and rooms  *)
(* of any length, claims of different owners are disjoint and a closed     *)
(* session holds nothing unless a close was withdrawn, every claim that    *)
(* ends was ended by somebody who may, and the reaper never ends one for a *)
(* death it no longer sees.                                                *)
(***************************************************************************)
EXTENDS ClaimLifecycle, WellFoundedInduction, TLAPS

-----------------------------------------------------------------------------
(* Inductive invariant *)

Kinds == {"claim", "release", "resolve", "receipt", "claim.renewed", "claim.expired",
          "retract", "presence", "session.closed"}
ToolNames == {a.tool : a \in Agents}
SessionNames == {a.session : a \in Agents}
Reasons == {"", "owner-stale+lease-expired", "owner-stale", "lease-expired", "no-lease-over-age"}
Observations == {"", "unknown", "live", "stale", "stale-unobserved"}
Fact ==
    [kind : Kinds, tool : ToolNames, session : SessionNames, scope : SUBSET Files, ref : Nat,
     at : Nat, lease : Nat, owners : SUBSET ToolNames, reason : Reasons, observed : Observations]

ClaimTypes ==
    /\ facts \in Seq(Fact)
    /\ now \in Nat
    /\ draft \in [Agents -> {None} \cup Fact]

\* A retraction withdraws an earlier fact.
RetractOf(f) == f.kind = "retract" => f.ref \in Ids

\* The reaper gives age as the reason only when it saw no dead process.
ReapOf(f) ==
    f.kind = "claim.expired" =>
        /\ f.ref \in Ids
        /\ f.reason = "no-lease-over-age" /\ f.observed = "stale" => facts[f.ref].session = NoSession

RetractsBack == \A i \in Ids : facts[i].kind = "retract" => facts[i].ref < i /\ RetractOf(facts[i])

\* A command outlives at most one tick.
Fresh(f) == f.at <= now /\ now <= f.at + 1

DraftsSound ==
    \A a \in Agents : draft[a] # None => draft[a].kind # "retract" /\ ReapOf(draft[a]) /\ Fresh(draft[a])

\* So the rows are in order of their time up to one tick.
RowsTimed ==
    /\ \A i \in Ids : facts[i].at <= now
    /\ \A i, j \in Ids : i < j => facts[i].at <= facts[j].at + 1

\* Nothing is written under a session that was closed.
ClosedIsFinal ==
    \A i, j \in Ids : i < j /\ facts[i].kind = "session.closed" =>
        facts[j].tool # facts[i].tool \/ facts[j].session # facts[i].session

\* When a claim was taken, every older one of another owner that shares a file
\* with it was withdrawn or closed.
ConflictChecked ==
    \A c, d \in Ids :
        /\ c < d /\ facts[c].kind = "claim" /\ facts[d].kind = "claim"
        /\ facts[c].scope \cap facts[d].scope # {} /\ ~same_session_owner(facts[c], facts[d])
        => c \in retracted_ids \/ \E i \in Ids : i < d /\ Closes(i, c)

ClaimInv ==
    /\ ClaimTypes
    /\ RetractsBack
    /\ DraftsSound
    /\ RowsTimed
    /\ ClosedIsFinal
    /\ ConflictChecked

-----------------------------------------------------------------------------
(* A longer room *)

\* A nonempty set of positions has a first one.
LEMMA FirstExists ==
    ASSUME NEW S \in SUBSET Nat, S # {}
    PROVE  Min(S) \in S
<1>1. PICK m \in S : \A k \in S : ~(<<k, m>> \in OpToRel(<, Nat))
  BY NatLessThanWellFounded, WFMin
<1>2. \A k \in S : ~(k < m)
  BY <1>1 DEF OpToRel
<1>3. \A k \in S : m <= k
  BY <1>2
<1> QED BY <1>3 DEF Min

\* What a fact appended to the room leaves as it was.
LEMMA RoomGrows ==
    ASSUME ClaimInv, NEW f \in Fact, facts' = Append(facts, f), RetractOf(f)
    PROVE  /\ Len(facts) \in Nat /\ Len(facts') = Len(facts) + 1
           /\ facts' \in Seq(Fact) /\ facts'[Len(facts) + 1] = f
           /\ \A i \in Ids : facts'[i] = facts[i]
           /\ Ids' = Ids \cup {Len(facts) + 1} /\ Len(facts) + 1 \notin Ids
           /\ \A i \in Ids : i \in Nat /\ i < Len(facts) + 1
           /\ Resolved' = (IF f.kind = "retract" THEN Resolved \ {f.ref} ELSE Resolved)
                          \cup {Len(facts) + 1}
           /\ retracted_ids \subseteq retracted_ids'
<1> DEFINE n == Len(facts)
<1>1. /\ n \in Nat /\ Len(facts') = n + 1
      /\ facts' \in Seq(Fact) /\ facts'[n + 1] = f
      /\ \A i \in 1 .. n : facts'[i] = facts[i]
  BY DEF ClaimInv, ClaimTypes
<1>2. Ids = 1 .. n /\ Ids' = Ids \cup {n + 1} /\ n + 1 \notin Ids /\ \A i \in Ids : i \in Nat /\ i < n + 1
  BY <1>1 DEF Ids
<1> HIDE DEF n
<1>3. \A i \in Ids : facts[i].kind = "retract" => facts[i].ref \in Ids
  BY DEF ClaimInv, RetractsBack, RetractOf
<1>4. n + 1 \notin retracted_ids
  BY <1>2, <1>3 DEF retracted_ids
<1>5. retracted_ids' = IF f.kind = "retract" THEN retracted_ids \cup {f.ref} ELSE retracted_ids
  <2>1. \A x : x \in retracted_ids' <=> \E i \in Ids' : facts'[i].kind = "retract" /\ facts'[i].ref = x
    BY DEF retracted_ids
  <2>2. \A x : x \in retracted_ids <=> \E i \in Ids : facts[i].kind = "retract" /\ facts[i].ref = x
    BY DEF retracted_ids
  <2>3. \A x : x \in retracted_ids' <=> x \in retracted_ids \/ (f.kind = "retract" /\ f.ref = x)
    BY <1>1, <1>2, <2>1, <2>2
  <2> QED BY <2>3
<1>6. f.kind = "retract" => f.ref # n + 1
  BY <1>2 DEF RetractOf
<1>7. Resolved' = Ids' \ retracted_ids' /\ Resolved = Ids \ retracted_ids
  BY DEF Resolved
<1>8. Resolved' = (IF f.kind = "retract" THEN Resolved \ {f.ref} ELSE Resolved) \cup {n + 1}
  BY <1>2, <1>4, <1>5, <1>6, <1>7
<1> QED BY <1>1, <1>2, <1>5, <1>8 DEF n

-----------------------------------------------------------------------------
(* ClaimInv is inductive *)

\* How a fact gets into the room.
Appends(f) ==
    /\ \E a \in Agents : append_fact(a, f)
    /\ RetractOf(f) /\ ReapOf(f) /\ Fresh(f)
    /\ now' = now

\* What an earlier command refers to is still there.
LEMMA ReferencesStay ==
    ASSUME ClaimInv, NEW f \in Fact, facts' = Append(facts, f), RetractOf(f)
    PROVE  \A g : (RetractOf(g) => RetractOf(g)') /\ (ReapOf(g) => ReapOf(g)')
<1>1. Ids \subseteq Ids' /\ \A i \in Ids : facts'[i] = facts[i]
  BY RoomGrows
<1> QED BY <1>1 DEF RetractOf, ReapOf

\* A fact that append_fact admits keeps the rows in order.
LEMMA AppendKeeps ==
    ASSUME ClaimInv, NEW f \in Fact, Appends(f)
    PROVE  facts' \in Seq(Fact) /\ RetractsBack' /\ RowsTimed' /\ ClosedIsFinal' /\ ConflictChecked'
<1> DEFINE n == Len(facts)
<1>0. facts' = Append(facts, f) /\ RetractOf(f) /\ assert_session_lifecycle_authorized(f)
  BY DEF Appends, append_fact, Admits, assert_write_authorized
<1>1. /\ n \in Nat /\ facts' \in Seq(Fact) /\ facts'[n + 1] = f
      /\ \A i \in Ids : facts'[i] = facts[i]
      /\ Ids' = Ids \cup {n + 1} /\ n + 1 \notin Ids
      /\ \A i \in Ids : i \in Nat /\ i < n + 1
  BY <1>0, RoomGrows
<1> HIDE DEF n
<1>2. RetractsBack'
  <2> SUFFICES ASSUME NEW i \in Ids', facts'[i].kind = "retract"
               PROVE  facts'[i].ref < i /\ RetractOf(facts[i])'
    BY DEF RetractsBack
  <2>1. ASSUME NEW g, g = facts'[i], RetractOf(g) PROVE RetractOf(facts[i])'
    <3>1. RetractOf(g)'
      BY <1>0, <2>1, ReferencesStay
    <3> QED BY <2>1, <3>1 DEF RetractOf
  <2>2. CASE i \in Ids
    <3>1. facts[i].kind = "retract" /\ facts[i].ref < i /\ RetractOf(facts[i]) /\ facts'[i] = facts[i]
      BY <1>1, <2>2 DEF ClaimInv, RetractsBack
    <3>2. RetractOf(facts[i])'
      BY <2>1, <3>1
    <3> QED BY <3>1, <3>2
  <2>3. CASE i = n + 1
    <3>1. f.ref \in Ids /\ facts'[i] = f
      BY <1>0, <1>1, <2>3 DEF RetractOf
    <3>2. RetractOf(facts[i])'
      BY <1>0, <2>1, <3>1
    <3> QED BY <1>1, <2>3, <3>1, <3>2
  <2> QED BY <1>1, <2>2, <2>3
<1>3. ClosedIsFinal'
  <2> SUFFICES ASSUME NEW i \in Ids', NEW j \in Ids', i < j, facts'[i].kind = "session.closed"
               PROVE  facts'[j].tool # facts'[i].tool \/ facts'[j].session # facts'[i].session
    BY DEF ClosedIsFinal
  <2>1. i \in Ids
    BY <1>1
  <2>2. CASE j \in Ids
    BY <1>1, <2>1, <2>2 DEF ClaimInv, ClosedIsFinal
  <2>3. CASE j = n + 1
    BY <1>0, <1>1, <2>1, <2>3 DEF assert_session_lifecycle_authorized
  <2> QED BY <1>1, <2>2, <2>3
<1>4. RowsTimed'
  <2>1. f.at \in Nat /\ now \in Nat /\ now' = now /\ f.at <= now /\ now <= f.at + 1
    BY DEF Appends, Fresh, Fact, ClaimInv, ClaimTypes
  <2>2. \A i \in Ids : facts[i].at \in Nat /\ facts[i].at <= now
    <3>1. \A i \in Ids : facts[i] \in Fact
      BY DEF ClaimInv, ClaimTypes, Ids
    <3> QED BY <3>1 DEF ClaimInv, RowsTimed, Fact
  <2>3. \A i \in Ids : facts[i].at <= f.at + 1
    BY <2>1, <2>2
  <2>4. \A i, j \in Ids : i < j => facts[i].at <= facts[j].at + 1
    BY DEF ClaimInv, RowsTimed
  <2>5. \A i \in Ids' : facts'[i].at <= now'
    BY <1>1, <2>1, <2>2
  <2>6. ASSUME NEW i \in Ids', NEW j \in Ids', i < j PROVE facts'[i].at <= facts'[j].at + 1
    <3>1. i \in Ids
      BY <1>1, <2>6
    <3>2. CASE j \in Ids
      BY <1>1, <2>4, <2>6, <3>1, <3>2
    <3>3. CASE j = n + 1
      BY <1>1, <2>3, <3>1, <3>3
    <3> QED BY <1>1, <3>2, <3>3
  <2> QED BY <2>5, <2>6 DEF RowsTimed
<1>5. ConflictChecked'
  <2> SUFFICES ASSUME NEW c \in Ids', NEW d \in Ids', c < d,
                      facts'[c].kind = "claim", facts'[d].kind = "claim",
                      facts'[c].scope \cap facts'[d].scope # {},
                      ~same_session_owner(facts'[c], facts'[d])
               PROVE  c \in retracted_ids' \/ \E i \in Ids' : i < d /\ Closes(i, c)'
    BY DEF ConflictChecked, same_session_owner, same_nonblank_tool
  <2>1. c \in Ids /\ facts'[c] = facts[c] /\ facts[c].kind = "claim"
    BY <1>1
  <2>2. retracted_ids \subseteq retracted_ids' /\ Ids \subseteq Ids'
    BY <1>0, <1>1, RoomGrows
  <2>3. \A i \in Ids : Closes(i, c) => Closes(i, c)'
    BY <1>1, <2>1 DEF Closes
  <2>4. CASE d \in Ids
    BY <1>1, <2>1, <2>2, <2>3, <2>4 DEF ClaimInv, ConflictChecked
  <2>5. CASE d = n + 1
    <3>1. c \notin active_claims
      <4>1. facts'[d] = f /\ f.kind = "claim" /\ ~detect_conflict(f)
        BY <1>1, <2>5 DEF Appends, append_fact, Admits
      <4> QED BY <2>1, <4>1 DEF detect_conflict
    <3>2. c \notin Resolved \/ \E i \in Resolved : Closes(i, c)
      BY <2>1, <3>1 DEF active_claims, is_active_claim_fact
    <3> QED BY <1>1, <2>1, <2>2, <2>3, <2>5, <3>2 DEF Resolved
  <2> QED BY <1>1, <2>4, <2>5
<1> QED BY <1>1, <1>2, <1>3, <1>4, <1>5

\* A fact without references is well typed, and so is one that names a row,
\* files, a lease, or what the reaper saw.
LEMMA BlankTyped ==
    ASSUME now \in Nat, NEW a \in Agents, NEW kind \in Kinds
    PROVE  Blank(kind, a) \in Fact /\ Blank(kind, a).kind = kind /\ Blank(kind, a).at = now
<1>1. a.tool \in ToolNames /\ a.session \in SessionNames
  BY DEF ToolNames, SessionNames
<1> QED BY <1>1 DEF Blank, Fact, Reasons, Observations

\* An active claim is a row of the room.
LEMMA ActiveRows ==
    ASSUME ClaimInv
    PROVE  /\ Ids \subseteq Nat /\ active_claims \subseteq Ids
           /\ \A i \in Ids : facts[i] \in Fact
           /\ \A scope : reclaim_timeout_secs(scope) \in Nat
<1>1. Len(facts) \in Nat /\ \A i \in 1 .. Len(facts) : facts[i] \in Fact
  BY DEF ClaimInv, ClaimTypes
<1>2. Ids \subseteq Nat /\ \A i \in Ids : facts[i] \in Fact
  BY <1>1 DEF Ids
<1>3. active_claims \subseteq Ids
  BY DEF active_claims, is_active_claim_fact, Resolved
<1>4. \A scope : reclaim_timeout_secs(scope) \in Nat
  BY ClaimAssumption DEF reclaim_timeout_secs
<1> QED BY <1>2, <1>3, <1>4

\* A command that appends at once.
LEMMA SayStep ==
    ASSUME ClaimInv, NEW a \in Agents, NEW f \in Fact, Say(a, f), RetractOf(f),
           f.kind # "claim.expired", f.at = now
    PROVE  ClaimInv' /\ Appends(f)
<1>1. append_fact(a, f) /\ now' = now /\ draft' = draft /\ facts' = Append(facts, f)
  BY DEF Say, append_fact
<1>2. Appends(f)
  BY <1>1 DEF Appends, ReapOf, Fresh, ClaimInv, ClaimTypes
<1>3. facts' \in Seq(Fact) /\ RetractsBack' /\ RowsTimed' /\ ClosedIsFinal' /\ ConflictChecked'
  BY <1>2, AppendKeeps
<1>4. DraftsSound'
  <2>1. \A g : ReapOf(g) => ReapOf(g)'
    BY <1>1, ReferencesStay
  <2>2. ASSUME NEW b \in Agents, draft[b] # None PROVE draft[b].kind # "retract" /\ ReapOf(draft[b])' /\ Fresh(draft[b])'
    <3>1. draft[b].kind # "retract" /\ ReapOf(draft[b]) /\ Fresh(draft[b]) /\ draft'[b] = draft[b]
      BY <1>1, <2>2 DEF ClaimInv, DraftsSound
    <3>2. PICK g : g = draft[b]
      OBVIOUS
    <3>3. ReapOf(g)'
      BY <2>1, <3>1, <3>2
    <3> QED BY <1>1, <3>1, <3>2, <3>3 DEF ReapOf, Fresh
  <2> QED BY <1>1, <2>2 DEF DraftsSound
<1> QED BY <1>1, <1>2, <1>3, <1>4 DEF ClaimInv, ClaimTypes

\* A command that appends later what it prepares now.
LEMMA PrepareStep ==
    ASSUME ClaimInv, NEW a \in Agents, NEW f \in Fact, Prepare(a, f), f.kind # "retract", ReapOf(f), f.at = now
    PROVE  ClaimInv' /\ facts' = facts
<1>1. draft' = [draft EXCEPT ![a] = f] /\ UNCHANGED <<facts, now>>
  BY DEF Prepare
<1>2. draft' \in [Agents -> {None} \cup Fact]
  BY <1>1 DEF ClaimInv, ClaimTypes
<1>3. \A b \in Agents : draft'[b] = f \/ draft'[b] = draft[b]
  BY <1>1 DEF ClaimInv, ClaimTypes
<1>4. DraftsSound'
  <2>1. Fresh(f)
    BY DEF Fresh, ClaimInv, ClaimTypes
  <2> QED BY <1>1, <1>3, <2>1 DEF ClaimInv, DraftsSound, ReapOf, Fresh, Ids
<1>5. RetractsBack' /\ RowsTimed' /\ ClosedIsFinal' /\ ConflictChecked'
  BY <1>1 DEF ClaimInv, RetractsBack, RetractOf, RowsTimed, ClosedIsFinal, ConflictChecked, Ids,
       retracted_ids, Closes
<1> QED BY <1>1, <1>2, <1>4, <1>5 DEF ClaimInv, ClaimTypes

\* Every step appends one admitted fact or leaves the room alone, and keeps
\* the invariant.
LEMMA ClaimStep ==
    ASSUME ClaimInv, [Next]_vars
    PROVE  ClaimInv' /\ (facts' = facts \/ \E f \in Fact : Appends(f))
<1> now \in Nat
  BY DEF ClaimInv, ClaimTypes
<1> /\ Ids \subseteq Nat /\ active_claims \subseteq Ids
    /\ \A i \in Ids : facts[i] \in Fact
    /\ \A scope : reclaim_timeout_secs(scope) \in Nat
  BY ActiveRows
<1>1. ASSUME NEW a \in Agents, SayClaim(a) PROVE ClaimInv' /\ \E f \in Fact : Appends(f)
  <2>1. PICK scope \in SUBSET Files :
          Say(a, [Blank("claim", a) EXCEPT !.scope = scope, !.lease = now + reclaim_timeout_secs(scope)])
    BY <1>1 DEF SayClaim
  <2> DEFINE f == [Blank("claim", a) EXCEPT !.scope = scope, !.lease = now + reclaim_timeout_secs(scope)]
  <2>2. Blank("claim", a) \in Fact /\ Blank("claim", a).kind = "claim" /\ Blank("claim", a).at = now
    BY BlankTyped DEF Kinds
  <2>3. f \in Fact /\ f.kind = "claim" /\ f.at = now
    <3>1. ASSUME NEW lease \in Nat PROVE
            LET g == [Blank("claim", a) EXCEPT !.scope = scope, !.lease = lease] IN
            g \in Fact /\ g.kind = "claim" /\ g.at = now
      BY <2>2 DEF Fact
    <3>2. now + reclaim_timeout_secs(scope) \in Nat
      OBVIOUS
    <3> QED BY <3>1, <3>2
  <2> HIDE DEF f
  <2> QED BY <2>1, <2>3, SayStep DEF RetractOf, f
<1>2. ASSUME NEW a \in Agents, SayClose(a) PROVE ClaimInv' /\ \E f \in Fact : Appends(f)
  <2>1. PICK kind \in {"release", "resolve", "receipt"}, c \in Ids, scope \in SUBSET Files :
          Say(a, [Blank(kind, a) EXCEPT !.ref = c, !.scope = scope])
    BY <1>2 DEF SayClose
  <2> DEFINE f == [Blank(kind, a) EXCEPT !.ref = c, !.scope = scope]
  <2>2. Blank(kind, a) \in Fact /\ Blank(kind, a).kind = kind /\ Blank(kind, a).at = now
    BY BlankTyped DEF Kinds
  <2>3. f \in Fact /\ f.kind = kind /\ f.at = now
    BY <2>2 DEF Fact
  <2> HIDE DEF f
  <2> QED BY <2>1, <2>3, SayStep DEF RetractOf, f
<1>3. ASSUME NEW a \in Agents, renew_claim_lease(a) PROVE ClaimInv' /\ \E f \in Fact : Appends(f)
  <2>1. PICK c \in Ids :
          Say(a, [Blank("claim.renewed", a) EXCEPT
                    !.ref = c, !.lease = now + reclaim_timeout_secs(facts[c].scope)])
    BY <1>3 DEF renew_claim_lease
  <2> DEFINE f == [Blank("claim.renewed", a) EXCEPT
                     !.ref = c, !.lease = now + reclaim_timeout_secs(facts[c].scope)]
  <2>2. Blank("claim.renewed", a) \in Fact /\ Blank("claim.renewed", a).kind = "claim.renewed" /\ Blank("claim.renewed", a).at = now
    BY BlankTyped DEF Kinds
  <2>3. f \in Fact /\ f.kind = "claim.renewed" /\ f.at = now
    <3>1. ASSUME NEW lease \in Nat PROVE
            LET g == [Blank("claim.renewed", a) EXCEPT !.ref = c, !.lease = lease] IN
            g \in Fact /\ g.kind = "claim.renewed" /\ g.at = now
      BY <2>2 DEF Fact
    <3>2. now + reclaim_timeout_secs(facts[c].scope) \in Nat
      OBVIOUS
    <3> QED BY <3>1, <3>2
  <2> HIDE DEF f
  <2> QED BY <2>1, <2>3, SayStep DEF RetractOf, f
<1>4. ASSUME NEW a \in Agents, retract_in_room(a) PROVE ClaimInv' /\ \E f \in Fact : Appends(f)
  <2>1. PICK i \in Ids : Say(a, [Blank("retract", a) EXCEPT !.ref = i])
    BY <1>4 DEF retract_in_room
  <2> DEFINE f == [Blank("retract", a) EXCEPT !.ref = i]
  <2>2. Blank("retract", a) \in Fact /\ Blank("retract", a).kind = "retract" /\ Blank("retract", a).at = now
    BY BlankTyped DEF Kinds
  <2>3. f \in Fact /\ f.kind = "retract" /\ f.at = now /\ f.ref = i
    BY <2>2 DEF Fact
  <2> HIDE DEF f
  <2> QED BY <2>1, <2>3, SayStep DEF RetractOf, f
<1>5. ASSUME NEW a \in Agents, Presence(a) \/ SessionClose(a) PROVE ClaimInv' /\ \E f \in Fact : Appends(f)
  <2>1. PICK kind \in {"presence", "session.closed"} : Say(a, Blank(kind, a))
    BY <1>5 DEF Presence, SessionClose
  <2>2. Blank(kind, a) \in Fact /\ Blank(kind, a).kind = kind /\ Blank(kind, a).at = now
    BY BlankTyped DEF Kinds
  <2> QED BY <2>1, <2>2, SayStep DEF RetractOf
<1>6. ASSUME NEW a \in Agents, command_release_by_path(a) PROVE ClaimInv' /\ facts' = facts
  <2>1. PICK matches \in SUBSET active_claims :
          /\ matches # {}
          /\ Prepare(a, [Blank("release", a) EXCEPT
                  !.ref = Min(matches),
                  !.scope = UNION {facts[c].scope : c \in matches},
                  !.owners = {facts[c].tool : c \in matches} \ {a.tool}])
    BY <1>6 DEF command_release_by_path
  <2> DEFINE files == UNION {facts[c].scope : c \in matches}
             owners == {facts[c].tool : c \in matches} \ {a.tool}
             f == [Blank("release", a) EXCEPT !.ref = Min(matches), !.scope = files, !.owners = owners]
  <2>2. Min(matches) \in Nat
    <3>1. matches \in SUBSET Nat
      OBVIOUS
    <3>2. Min(matches) \in matches
      BY <2>1, <3>1, FirstExists
    <3> QED BY <3>1, <3>2
  <2>3. \A c \in matches : facts[c].scope \in SUBSET Files /\ facts[c].tool \in ToolNames
    BY DEF Fact
  <2>4. files \in SUBSET Files /\ owners \in SUBSET ToolNames
    BY <2>3
  <2>5. Blank("release", a) \in Fact /\ Blank("release", a).kind = "release" /\ Blank("release", a).at = now
    BY BlankTyped DEF Kinds
  <2> HIDE DEF files, owners
  <2>6. f \in Fact /\ f.kind = "release" /\ f.at = now
    BY <2>2, <2>4, <2>5 DEF Fact
  <2>7. Prepare(a, f)
    BY <2>1 DEF files, owners
  <2> HIDE DEF f
  <2> QED BY <2>6, <2>7, PrepareStep DEF ReapOf
<1>7. ASSUME NEW a \in Agents, NEW full \in BOOLEAN, ReapStale(a, full) PROVE ClaimInv' /\ facts' = facts
  <2>0. PICK c \in active_claims : \E verdict \in Verdicts(Owner(c)), reason \in Reasons :
          /\ reason = "no-lease-over-age" /\ facts[c].session # NoSession => ~is_stale(verdict)
          /\ Prepare(a, [Blank("claim.expired", a) EXCEPT
                  !.ref = c, !.scope = facts[c].scope, !.reason = reason, !.observed = verdict])
    BY <1>7 DEF ReapStale, Reasons
  <2>1. PICK verdict \in Verdicts(Owner(c)), reason \in Reasons :
          /\ reason = "no-lease-over-age" /\ facts[c].session # NoSession => ~is_stale(verdict)
          /\ Prepare(a, [Blank("claim.expired", a) EXCEPT
                  !.ref = c, !.scope = facts[c].scope, !.reason = reason, !.observed = verdict])
    BY <2>0
  <2> DEFINE f == [Blank("claim.expired", a) EXCEPT
                     !.ref = c, !.scope = facts[c].scope, !.reason = reason, !.observed = verdict]
  <2>2. verdict \in Observations
    BY DEF Verdicts, Observations
  <2>3. facts[c].scope \in SUBSET Files /\ c \in Nat /\ c \in Ids
    BY DEF Fact
  <2>4. Blank("claim.expired", a) \in Fact /\ Blank("claim.expired", a).kind = "claim.expired" /\ Blank("claim.expired", a).at = now
    BY BlankTyped DEF Kinds
  <2>5. f \in Fact /\ f.kind = "claim.expired" /\ f.at = now /\ f.ref = c /\ f.reason = reason /\ f.observed = verdict
    BY <2>2, <2>3, <2>4 DEF Fact
  <2> HIDE DEF f
  <2>6. ReapOf(f)
    BY <2>1, <2>3, <2>5 DEF ReapOf, is_stale
  <2> QED BY <2>1, <2>5, <2>6, PrepareStep DEF f
<1>8. ASSUME NEW a \in Agents, AppendPrepared(a)
      PROVE  ClaimInv' /\ (facts' = facts \/ \E f \in Fact : Appends(f))
  <2>1. /\ draft[a] \in Fact /\ draft[a].kind # "retract" /\ ReapOf(draft[a])
        /\ draft' = [draft EXCEPT ![a] = None] /\ now' = now /\ Fresh(draft[a])
    BY <1>8 DEF AppendPrepared, ClaimInv, ClaimTypes, DraftsSound
  <2>2. /\ draft' \in [Agents -> {None} \cup Fact]
        /\ \A b \in Agents : draft'[b] = None \/ draft'[b] = draft[b]
    BY <2>1 DEF ClaimInv, ClaimTypes
  <2>3. CASE append_fact(a, draft[a])
    <3>1. Appends(draft[a]) /\ facts' = Append(facts, draft[a]) /\ RetractOf(draft[a])
      BY <2>1, <2>3 DEF Appends, RetractOf, append_fact
    <3>2. facts' \in Seq(Fact) /\ RetractsBack' /\ RowsTimed' /\ ClosedIsFinal' /\ ConflictChecked'
      BY <2>1, <3>1, AppendKeeps
    <3>3. \A g : ReapOf(g) => ReapOf(g)'
      BY <2>1, <3>1, ReferencesStay
    <3>4. ASSUME NEW b \in Agents, draft'[b] # None PROVE draft'[b].kind # "retract" /\ ReapOf(draft[b])' /\ Fresh(draft[b])'
      <4>1. draft'[b] = draft[b] /\ draft[b].kind # "retract" /\ ReapOf(draft[b]) /\ Fresh(draft[b])
        BY <2>2, <3>4 DEF ClaimInv, DraftsSound
      <4>2. PICK g : g = draft[b]
        OBVIOUS
      <4>3. ReapOf(g)'
        BY <3>3, <4>1, <4>2
      <4> QED BY <2>1, <4>1, <4>2, <4>3 DEF ReapOf, Fresh
    <3>5. DraftsSound'
      BY <3>4 DEF DraftsSound
    <3> QED BY <2>1, <2>2, <3>1, <3>2, <3>5 DEF ClaimInv, ClaimTypes
  <2>4. CASE UNCHANGED facts
    <3>1. DraftsSound'
      BY <2>1, <2>2, <2>4 DEF ClaimInv, DraftsSound, ReapOf, Fresh, Ids
    <3> QED BY <2>1, <2>2, <2>4, <3>1
          DEF ClaimInv, ClaimTypes, RetractsBack, RetractOf, RowsTimed, ClosedIsFinal, ConflictChecked, Ids,
       retracted_ids, Closes
  <2> QED BY <1>8, <2>3, <2>4 DEF AppendPrepared
<1>9. ASSUME UNCHANGED <<facts, draft>>, now' \in Nat, now <= now',
             \A a \in Agents : draft[a] # None => now' <= draft[a].at + 1
      PROVE  ClaimInv' /\ facts' = facts
  <2>1. DraftsSound'
    <3> SUFFICES ASSUME NEW a \in Agents, draft[a] # None
                 PROVE  draft[a].kind # "retract" /\ ReapOf(draft[a])' /\ draft[a].at <= now'
      BY <1>9 DEF DraftsSound, Fresh
    <3>1. draft[a] \in Fact /\ draft[a].kind # "retract" /\ ReapOf(draft[a]) /\ draft[a].at <= now
      BY DEF ClaimInv, ClaimTypes, DraftsSound, Fresh
    <3>2. draft[a].at \in Nat
      BY <3>1 DEF Fact
    <3> QED BY <1>9, <3>1, <3>2 DEF ReapOf, Ids
  <2>2. RowsTimed'
    <3>1. \A i \in Ids : facts[i].at \in Nat /\ facts[i].at <= now
      BY DEF ClaimInv, RowsTimed, Fact
    <3>2. \A x \in Nat : x <= now => x <= now'
      BY <1>9
    <3>3. \A i \in Ids : facts[i].at <= now'
      BY <3>1, <3>2
    <3> QED BY <1>9, <3>3 DEF ClaimInv, RowsTimed, Ids
  <2> QED BY <1>9, <2>1, <2>2 DEF ClaimInv, ClaimTypes, RetractsBack, RetractOf, ClosedIsFinal, ConflictChecked, Ids,
       retracted_ids, Closes
<1>10. CASE Tick
  <2>1. UNCHANGED <<facts, draft>> /\ now' = now + 1
    BY <1>10 DEF Tick
  <2>2. \A a \in Agents : draft[a] # None => now' <= draft[a].at + 1
    BY <1>10, <2>1 DEF Tick
  <2> QED BY <1>9, <2>1, <2>2
<1>11. ASSUME UNCHANGED vars \/ \E a \in Agents : Die(a) PROVE ClaimInv' /\ facts' = facts
  <2>1. UNCHANGED <<facts, draft, now>>
    BY <1>11 DEF vars, Die
  <2>2. \A a \in Agents : draft[a] # None => now' <= draft[a].at + 1
    BY <2>1 DEF ClaimInv, DraftsSound, Fresh
  <2> QED BY <1>9, <2>1, <2>2
<1> QED
  BY <1>1, <1>2, <1>3, <1>4, <1>5, <1>6, <1>7, <1>8, <1>10, <1>11 DEF Next, Agent

\* The rows are in order in every behaviour: retractions and reaps name earlier
\* rows, and nothing is written under a closed session.
THEOREM ClaimInvHolds == Spec => []ClaimInv
<1>1. Init => ClaimInv
  <2> SUFFICES ASSUME Init PROVE ClaimInv
    OBVIOUS
  <2>1. ASSUME NEW o \in Legacy
        PROVE  LegacyClaim(o) \in Fact /\ LegacyClaim(o).kind = "claim" /\ LegacyClaim(o).at = 0
    <3>1. o.tool \in ToolNames /\ o.session \in SessionNames
      BY ClaimAssumption DEF ToolNames, SessionNames
    <3> QED BY <3>1 DEF LegacyClaim, Fact, Kinds, Reasons, Observations
  <2>2. facts \in Seq(Fact) /\ Len(facts) \in 0 .. 1 /\ \A i \in 1 .. Len(facts) : facts[i].kind = "claim" /\ facts[i].at = 0
    <3>1. CASE facts = <<>>
      BY <3>1
    <3>2. CASE \E o \in Legacy : facts = <<LegacyClaim(o)>>
      BY <2>1, <3>2
    <3> QED BY <3>1, <3>2 DEF Init
  <2>3. RetractsBack
    BY <2>2 DEF RetractsBack, Ids
  <2>4. ClosedIsFinal /\ RowsTimed /\ ConflictChecked
    BY <2>2 DEF ClosedIsFinal, RowsTimed, ConflictChecked, Ids, Init
  <2>5. DraftsSound /\ now \in Nat /\ draft \in [Agents -> {None} \cup Fact]
    BY DEF Init, DraftsSound
  <2> QED BY <2>2, <2>3, <2>4, <2>5 DEF ClaimInv, ClaimTypes
<1>2. ClaimInv /\ [Next]_vars => ClaimInv'
  BY ClaimStep
<1> QED BY <1>1, <1>2, PTL DEF Spec

-----------------------------------------------------------------------------
(* Claims that begin and end *)

\* Which rows close a row is fixed once both are written.
LEMMA ClosesFixed ==
    ASSUME ClaimInv, NEW f \in Fact, facts' = Append(facts, f), RetractOf(f)
    PROVE  \A i, c \in Ids : Closes(i, c) <=> Closes(i, c)'
<1>1. \A i \in Ids : facts'[i] = facts[i]
  BY RoomGrows
<1> QED BY <1>1 DEF Closes

\* A fact ends a claim only by closing it or by withdrawing it.
LEMMA EndsByFact ==
    ASSUME ClaimInv, NEW f \in Fact, Appends(f), NEW c \in active_claims, c \notin active_claims'
    PROVE  \/ later_fact_refs_claim(f, c)
           \/ later_release_overlaps_claim_scope(f, facts[c])
           \/ later_session_close_matches_claim(f, facts[c])
           \/ f.kind = "retract" /\ f.ref = c
<1> DEFINE n == Len(facts)
<1>0. facts' = Append(facts, f) /\ RetractOf(f)
  BY DEF Appends, append_fact
<1>1. /\ facts'[n + 1] = f /\ \A i \in Ids : facts'[i] = facts[i]
      /\ Resolved' = (IF f.kind = "retract" THEN Resolved \ {f.ref} ELSE Resolved) \cup {n + 1}
  BY <1>0, RoomGrows
<1>2. /\ c \in Resolved /\ c \in Ids /\ facts[c].kind = "claim" /\ Resolved \subseteq Ids
      /\ \A i \in Resolved : ~Closes(i, c)
  BY DEF active_claims, is_active_claim_fact, Resolved
<1>3. CASE c \notin Resolved'
  BY <1>1, <1>2, <1>3
<1>4. CASE c \in Resolved'
  <2>1. PICK i \in Resolved' : Closes(i, c)'
    BY <1>1, <1>2, <1>4 DEF active_claims, is_active_claim_fact
  <2>2. i \notin Resolved
    BY <1>0, <1>2, <2>1, ClosesFixed
  <2>3. i = n + 1
    BY <1>1, <2>2
  <2> QED BY <1>1, <1>2, <2>1, <2>3 DEF Closes
<1> QED BY <1>3, <1>4

\* Two owners whose claims share a file: detect_conflict let the newer claim in
\* only because the older one was closed, and a withdrawal of that close brought
\* it back.  Nothing else does, under any interleaving of claims, renewals,
\* releases, takeovers, reaps and session ends.
THEOREM OverlapNeedsWithdrawalHolds == Spec => []OverlapNeedsWithdrawal
<1>1. ClaimInv => OverlapNeedsWithdrawal
  <2> SUFFICES ASSUME ClaimInv, NEW c \in active_claims, NEW d \in active_claims, c < d,
                      facts[c].scope \cap facts[d].scope # {},
                      ~same_session_owner(facts[c], facts[d])
               PROVE  \E i \in retracted_ids : i < d /\ Closes(i, c)
    BY DEF OverlapNeedsWithdrawal
  <2>1. /\ c \in Ids /\ d \in Ids /\ facts[c].kind = "claim" /\ facts[d].kind = "claim"
        /\ c \notin retracted_ids /\ \A i \in Ids \ retracted_ids : ~Closes(i, c)
    BY DEF active_claims, is_active_claim_fact, Resolved
  <2>2. PICK i \in Ids : i < d /\ Closes(i, c)
    BY <2>1 DEF ClaimInv, ConflictChecked
  <2> QED BY <2>1, <2>2
<1> QED BY <1>1, ClaimInvHolds, PTL

\* A closed session holds only what it held before a close that was withdrawn,
\* whichever of its commands raced with the close (the fold closes what came
\* before it, assert_session_lifecycle_authorized refuses what comes after,
\* withdrawn or not).
THEOREM ClosedHoldsNothingHolds == Spec => []ClosedHoldsNothing
<1>1. ClaimInv => ClosedHoldsNothing
  <2> SUFFICES ASSUME ClaimInv, NEW c \in active_claims, NEW i \in Ids,
                      later_session_close_matches_claim(facts[i], facts[c])
               PROVE  i \in retracted_ids /\ c < i
    BY DEF ClosedHoldsNothing
  <2>1. facts[i].kind = "session.closed" /\ facts[i].tool = facts[c].tool /\ facts[i].session = facts[c].session
    BY DEF later_session_close_matches_claim
  <2>2. c \in Ids /\ c \in Nat /\ i \in Nat /\ facts[c].kind = "claim"
    BY ActiveRows DEF active_claims, is_active_claim_fact
  <2>3. ~(i < c)
    BY <2>1, <2>2 DEF ClaimInv, ClosedIsFinal
  <2>4. i # c
    BY <2>1, <2>2
  <2>5. c < i
    BY <2>2, <2>3, <2>4
  <2>6. Closes(i, c)
    BY <2>2, <2>5 DEF Closes
  <2>7. i \notin Resolved
    BY <2>6 DEF active_claims, is_active_claim_fact
  <2> QED BY <2>5, <2>7 DEF Resolved
<1> QED BY <1>1, ClaimInvHolds, PTL

-----------------------------------------------------------------------------
(* Who may end a claim *)

\* A nonempty set of positions has a latest one.
LEMMA LatestExists ==
    ASSUME NEW n \in Nat, NEW S \in SUBSET (1 .. n), S # {}
    PROVE  Max(S) \in S /\ \A y \in S : y <= Max(S)
<1> DEFINE D == {m \in Nat : n - m \in S}
<1>1. D \in SUBSET Nat /\ D # {}
  <2>1. PICK s \in S : TRUE
    OBVIOUS
  <2>2. n - s \in Nat /\ n - (n - s) = s
    OBVIOUS
  <2> QED BY <2>2
<1>2. PICK m \in D : \A k \in D : m <= k
  <2> HIDE DEF D
  <2>1. PICK m \in D : \A k \in D : ~(<<k, m>> \in OpToRel(<, Nat))
    BY <1>1, NatLessThanWellFounded, WFMin
  <2>2. \A k \in D : ~(k < m)
    BY <1>1, <2>1 DEF OpToRel
  <2> QED BY <1>1, <2>2
<1>3. \A y \in S : n - m >= y
  <2> TAKE y \in S
  <2>1. n - y \in Nat /\ n - (n - y) = y
    OBVIOUS
  <2>2. m <= n - y
    BY <1>2, <2>1
  <2> QED BY <2>2
<1>4. Max(S) \in S /\ \A y \in S : Max(S) >= y
  BY <1>3 DEF Max
<1> QED BY <1>4

\* Once a claim may be taken over, its owner's tool has written nothing that
\* stands within the timeout, although its last fact is found by position.
LEMMA EligibleIsSilent ==
    ASSUME ClaimInv, NEW c \in active_claims, claim_reclaim_eligible(c)
    PROVE  ~Wrote(facts[c].tool, now - reclaim_timeout_secs(facts[c].scope))
<1> DEFINE A == {i \in Resolved : facts[i].tool = facts[c].tool /\ ~System(facts[i])}
           T == reclaim_timeout_secs(facts[c].scope)
           last == Max(A)
<1> SUFFICES ASSUME NEW i \in A, facts[i].at > now - T PROVE FALSE
  BY DEF Wrote
<1>1. Len(facts) \in Nat /\ A \in SUBSET (1 .. Len(facts)) /\ A # {} /\ A \subseteq Ids
  BY DEF Resolved, Ids, ClaimInv, ClaimTypes
<1>2. T \in Nat /\ now \in Nat
  BY ActiveRows DEF ClaimInv, ClaimTypes
<1>3. now - facts[Max(A)].at > T
  BY <1>1 DEF claim_reclaim_eligible, author_last_seen
<1> HIDE DEF A, T
<1>4. last \in A /\ i <= last
  BY <1>1, LatestExists
<1> HIDE DEF last
<1>5. last \in Ids /\ i \in Ids /\ i \in Nat /\ last \in Nat
  BY <1>1, <1>4, ActiveRows
<1>6. facts[last].at \in Nat /\ facts[i].at \in Nat
  BY <1>5, ActiveRows DEF Fact
<1>7. facts[i].at <= facts[last].at + 1
  <2>1. CASE i < last
    BY <1>5, <2>1 DEF ClaimInv, RowsTimed
  <2>2. CASE i = last
    BY <1>6, <2>2
  <2> QED BY <1>4, <1>5, <2>1, <2>2
<1>8. now - facts[last].at > T
  BY <1>3 DEF last
<1> QED BY <1>2, <1>6, <1>7, <1>8

\* What the gate of append_fact lets through.
LEMMA GateJustifies ==
    ASSUME ClaimInv, NEW f, NEW c \in active_claims, authorize_claim_removal(f, c)
    PROVE  Justified(c, f)
<1>1. \/ claim_owner_matches_caller(facts[c], f) \/ lease_expired_at(c)
      \/ claim_reclaim_eligible(c) \/ no_lease_over_age(c)
  BY DEF authorize_claim_removal
<1> QED BY <1>1, EligibleIsSilent DEF Justified

\* No claim ends but by its owner, by the end of its lease, by the silence of
\* its owner or by age, whatever snapshot the command that ends it was prepared
\* on and whether it names, sweeps or withdraws the claim (authorize_claim_removal
\* judges every claim that a fact removes).
THEOREM LiveClaimKeptHolds == Spec => LiveClaimKept
<1>1. ClaimInv /\ [Next]_vars =>
        [\A c \in active_claims : c \notin active_claims' => Justified(c, facts'[Len(facts')])]_facts
  <2> SUFFICES ASSUME ClaimInv, [Next]_vars, facts' # facts,
                      NEW c \in active_claims, c \notin active_claims'
               PROVE  Justified(c, facts'[Len(facts')])
    OBVIOUS
  <2>1. PICK f \in Fact : Appends(f)
    BY ClaimStep
  <2>2. facts' = Append(facts, f) /\ RetractOf(f) /\ \A d \in Removes(f) : authorize_claim_removal(f, d)
    BY <2>1 DEF Appends, append_fact, Admits, assert_write_authorized
  <2>3. facts'[Len(facts')] = f
    BY <2>2, RoomGrows
  <2>4. CASE c \in Removes(f)
    BY <2>2, <2>3, <2>4, GateJustifies
  <2>5. CASE later_session_close_matches_claim(f, facts[c])
    <3>1. claim_owner_matches_caller(facts[c], f)
      BY <2>5 DEF later_session_close_matches_claim, claim_owner_matches_caller, same_session_owner
    <3> QED BY <2>3, <3>1 DEF Justified
  <2>6. c \in Removes(f) \/ later_session_close_matches_claim(f, facts[c])
    BY <2>1, EndsByFact DEF Removes
  <2> QED BY <2>4, <2>5, <2>6
<1> QED BY <1>1, ClaimInvHolds, PTL DEF Spec, LiveClaimKept

\* A claim that the reaper ends for a dead process has an owner whose process
\* is dead at that step: append_fact probes again, and a pass that saw it dead
\* never gives age as its reason.
THEOREM ReapedIsDeadHolds == Spec => ReapedIsDead
<1>1. ClaimInv /\ [Next]_vars =>
        [\A c \in active_claims :
          LET f == facts'[Len(facts')]
          IN  c \notin active_claims' /\ f.kind = "claim.expired" /\ f.observed = "stale"
                => facts[c].session = NoSession \/ Owner(c) \notin alive]_facts
  <2> SUFFICES ASSUME ClaimInv, [Next]_vars, facts' # facts,
                      NEW c \in active_claims, c \notin active_claims',
                      facts'[Len(facts')].kind = "claim.expired", facts'[Len(facts')].observed = "stale",
                      facts[c].session # NoSession
               PROVE  Owner(c) \notin alive
    OBVIOUS
  <2>1. PICK f \in Fact : Appends(f)
    BY ClaimStep
  <2>2. facts' = Append(facts, f) /\ RetractOf(f) /\ ReapOf(f)
    BY <2>1 DEF Appends, append_fact
  <2>3. facts'[Len(facts')] = f
    BY <2>2, RoomGrows
  <2>4. f.kind = "claim.expired" /\ f.observed = "stale"
    BY <2>3
  <2>5. f.ref = c
    BY <2>1, <2>4, EndsByFact DEF later_fact_refs_claim, later_release_overlaps_claim_scope,
                                  later_session_close_matches_claim
  <2>6. PICK verdict \in Verdicts(Owner(c)) : ReapStillDue(f, verdict)
    BY <2>1, <2>4, <2>5 DEF Appends, append_fact, Admits
  <2>7. f.reason # "no-lease-over-age"
    BY <2>2, <2>4, <2>5 DEF ReapOf
  <2>8. verdict = "stale"
    BY <2>4, <2>5, <2>6, <2>7 DEF ReapStillDue
  <2>9. Owner(c).session # NoSession
    BY DEF Owner
  <2> QED BY <2>6, <2>8, <2>9 DEF Verdicts
<1> QED BY <1>1, ClaimInvHolds, PTL DEF Spec, ReapedIsDead
=============================================================================
