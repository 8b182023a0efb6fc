-------------------------- MODULE Handoffs_proofs --------------------------
(***************************************************************************)
(* Proofs about Sessions and Handoffs: for any number of processes, agents *)
(* and rows, two launches never hold one numbered identity, a handoff has  *)
(* one receiver, and an obligation leaves the inbox of its addressee only  *)
(* by an answer of the addressee or by a retraction.                       *)
(***************************************************************************)
EXTENDS Handoffs, WellFoundedInduction, TLAPS

-----------------------------------------------------------------------------
(* Inductive invariant of the sessions *)

SessionRows == [num : Numbers, status : {"active", "stopped"}]
Launches ==
    [pc : {"idle", "chosen", "reserved", "launched"},
     seen : Nat, num : Numbers \cup {0}, at : Nat]

SessionTypes ==
    /\ sessions \in Seq(SessionRows)
    /\ launch \in [Procs -> Launches]
    /\ stops \subseteq Numbers

\* A chosen number is free as long as no session row was added since the read.
ChosenFree ==
    \A p \in Procs : launch[p].pc = "chosen" =>
        /\ launch[p].num \in Numbers
        /\ launch[p].seen <= Len(sessions)
        /\ ContextUnchanged(p) => launch[p].num \notin active_session_records

\* The row of a reservation is in the room, and a standing one is active.
ReservedActive ==
    \A p \in Procs : launch[p].pc \in {"reserved", "launched"} =>
        /\ launch[p].num \in Numbers
        /\ launch[p].at \in 1 .. Len(sessions)
        /\ Standing(p) => launch[p].num \in active_session_records

SessionInv ==
    /\ SessionTypes
    /\ ChosenFree
    /\ ReservedActive
    /\ IdentityExclusive

\* A nonempty set of natural numbers has a least element.
LEMMA LeastExists ==
    ASSUME NEW D \in SUBSET Nat, D # {}
    PROVE  \E n \in D : \A m \in D : n <= m
<1> DEFINE R == OpToRel(<, Nat)
<1>1. IsWellFoundedOn(R, Nat)
  BY NatLessThanWellFounded
<1>2. PICK n \in D : \A m \in D : ~(<<m, n>> \in R)
  <2> HIDE DEF R
  <2> QED BY <1>1, WFMin
<1>3. \A m \in D : ~(m < n)
  BY <1>2 DEF OpToRel
<1>4. \A m \in D : n <= m
  BY <1>3
<1> QED BY <1>4

\* next_identity_number is a number no active record uses.
LEMMA NextNumberFree ==
    ASSUME Numbers \ active_session_records # {}
    PROVE  next_identity_number \in Numbers \ active_session_records
<1>1. Numbers \ active_session_records \in SUBSET Nat
  BY DEF Numbers
<1>2. \E n \in Numbers \ active_session_records :
          \A m \in Numbers \ active_session_records : n <= m
  BY <1>1, LeastExists
<1> QED BY <1>2 DEF next_identity_number

\* A session row makes its number active or removes it, and no other.
LEMMA AppendSession ==
    ASSUME SessionTypes, NEW n \in Numbers, NEW status \in {"active", "stopped"},
           sessions' = Append(sessions, SessionRow(n, status))
    PROVE  /\ sessions' \in Seq(SessionRows)
           /\ Len(sessions) \in Nat
           /\ Len(sessions') = Len(sessions) + 1
           /\ \A i \in 1 .. Len(sessions) : sessions'[i] = sessions[i]
           /\ sessions'[Len(sessions) + 1] = SessionRow(n, status)
           /\ active_session_records' =
                IF status = "active" THEN active_session_records \cup {n}
                ELSE active_session_records \ {n}
<1>1. SessionRow(n, status) \in SessionRows
  BY DEF SessionRow, SessionRows
<1>2. /\ sessions' \in Seq(SessionRows)
      /\ Len(sessions) \in Nat
      /\ Len(sessions') = Len(sessions) + 1
      /\ \A i \in 1 .. Len(sessions) : sessions'[i] = sessions[i]
      /\ sessions'[Len(sessions) + 1] = SessionRow(n, status)
      /\ DOMAIN sessions = 1 .. Len(sessions)
      /\ DOMAIN sessions' = 1 .. Len(sessions')
  BY <1>1 DEF SessionTypes
<1>3. ASSUME NEW m \in Numbers
      PROVE  m \in active_session_records' <=>
               IF m = n THEN status = "active" ELSE m \in active_session_records
  <2>1. CASE m = n
    BY <1>2, <2>1 DEF active_session_records, SessionRow
  <2>2. CASE m # n
    <3>1. ASSUME NEW i \in 1 .. Len(sessions), sessions[i].num = m, sessions[i].status = "active",
                 \A j \in i + 1 .. Len(sessions) : sessions[j].num # m
          PROVE  m \in active_session_records'
      <4>1. \A j \in i + 1 .. Len(sessions') : sessions'[j].num # m
        <5> SUFFICES ASSUME NEW j \in i + 1 .. Len(sessions') PROVE sessions'[j].num # m
          OBVIOUS
        <5>1. CASE j \in 1 .. Len(sessions)
          <6>1. sessions'[j] = sessions[j] /\ j \in i + 1 .. Len(sessions)
            BY <1>2, <5>1
          <6> QED BY <6>1, <3>1
        <5>2. CASE j = Len(sessions) + 1
          BY <1>2, <2>2, <5>2 DEF SessionRow
        <5> QED BY <1>2, <5>1, <5>2
      <4>2. i \in DOMAIN sessions' /\ sessions'[i] = sessions[i]
        BY <1>2
      <4> QED BY <3>1, <4>1, <4>2 DEF active_session_records
    <3>2. ASSUME NEW i \in 1 .. Len(sessions'), sessions'[i].num = m, sessions'[i].status = "active",
                 \A j \in i + 1 .. Len(sessions') : sessions'[j].num # m
          PROVE  m \in active_session_records
      <4>1. i \in 1 .. Len(sessions)
        BY <1>2, <2>2, <3>2 DEF SessionRow
      <4>2. \A j \in i + 1 .. Len(sessions) : sessions[j].num # m
        BY <1>2, <3>2
      <4> QED BY <1>2, <3>2, <4>1, <4>2 DEF active_session_records
    <3> QED BY <1>2, <2>2, <3>1, <3>2 DEF active_session_records
  <2> QED BY <2>1, <2>2
<1>4. active_session_records \subseteq Numbers /\ active_session_records' \subseteq Numbers
  BY DEF active_session_records
<1> QED BY <1>2, <1>3, <1>4

\* What a session row of anybody means for a launch that only goes on: its
\* reservation stands only if it stood, and stays active while it stands.
LEMMA OtherLaunch ==
    ASSUME SessionInv, NEW n \in Numbers, NEW status \in {"active", "stopped"},
           sessions' = Append(sessions, SessionRow(n, status)),
           NEW q \in Procs,
           launch'[q].num = launch[q].num, launch'[q].at = launch[q].at,
           launch'[q].seen = launch[q].seen,
           \/ launch'[q].pc = launch[q].pc
           \/ launch[q].pc = "reserved" /\ launch'[q].pc = "launched"
    PROVE  /\ Standing(q)' => Standing(q)
           /\ launch'[q].pc = "chosen" =>
                /\ launch'[q].num \in Numbers
                /\ launch'[q].seen <= Len(sessions')
                /\ ~ContextUnchanged(q)'
           /\ launch'[q].pc \in {"reserved", "launched"} =>
                /\ launch'[q].num \in Numbers
                /\ launch'[q].at \in 1 .. Len(sessions')
                /\ Standing(q)' => launch'[q].num \in active_session_records'
<1>1. /\ Len(sessions) \in Nat /\ Len(sessions') = Len(sessions) + 1
      /\ \A i \in 1 .. Len(sessions) : sessions'[i] = sessions[i]
      /\ sessions'[Len(sessions) + 1] = SessionRow(n, status)
      /\ active_session_records' =
            IF status = "active" THEN active_session_records \cup {n}
            ELSE active_session_records \ {n}
  BY AppendSession DEF SessionInv
<1>2. launch[q] \in Launches
  BY DEF SessionInv, SessionTypes
<1>3. launch[q].pc \in {"reserved", "launched"} =>
        /\ launch[q].num \in Numbers /\ launch[q].at \in 1 .. Len(sessions)
        /\ Standing(q) => launch[q].num \in active_session_records
  BY DEF SessionInv, ReservedActive
<1>4. ASSUME Standing(q)'
      PROVE  Standing(q) /\ SessionRow(n, status) # SessionRow(launch[q].num, "stopped")
  <2>1. launch[q].pc \in {"reserved", "launched"}
    BY <1>4 DEF Standing
  <2>2. \A i \in launch[q].at .. Len(sessions) + 1 :
            sessions'[i] # SessionRow(launch[q].num, "stopped")
    BY <1>1, <1>4 DEF Standing, SessionRow
  <2>3. \A i \in launch[q].at .. Len(sessions) : sessions[i] # SessionRow(launch[q].num, "stopped")
    BY <1>1, <1>3, <2>1, <2>2
  <2>4. SessionRow(n, status) # SessionRow(launch[q].num, "stopped")
    BY <1>1, <1>3, <2>1, <2>2
  <2> QED BY <2>1, <2>3, <2>4 DEF Standing
<1>5. Standing(q)' => launch'[q].num \in active_session_records'
  <2> SUFFICES ASSUME Standing(q)' PROVE launch[q].num \in active_session_records'
    OBVIOUS
  <2>1. launch[q].num \in active_session_records
    BY <1>3, <1>4 DEF Standing
  <2>2. status = "stopped" => launch[q].num # n
    BY <1>4
  <2> QED BY <1>1, <2>1, <2>2
<1>6. launch'[q].pc = "chosen" =>
        /\ launch'[q].num \in Numbers
        /\ launch'[q].seen <= Len(sessions')
        /\ ~ContextUnchanged(q)'
  <2> SUFFICES ASSUME launch'[q].pc = "chosen"
               PROVE  /\ launch'[q].num \in Numbers
                      /\ launch'[q].seen <= Len(sessions')
                      /\ ~ContextUnchanged(q)'
    OBVIOUS
  <2>1. launch[q].num \in Numbers /\ launch[q].seen <= Len(sessions) /\ launch[q].seen \in Nat
    BY <1>2 DEF SessionInv, ChosenFree, Launches
  <2>2. launch'[q].seen # Len(sessions')
    BY <1>1, <2>1
  <2> QED BY <1>1, <2>1, <2>2 DEF ContextUnchanged, ContextVersion
<1> QED BY <1>1, <1>3, <1>4, <1>5, <1>6

\* Every step of a launch or a stop preserves SessionInv.
LEMMA SessionInvStep ==
    ASSUME SessionInv, SessionNext
    PROVE  SessionInv'
<1> USE DEF SessionInv
<1>1. ASSUME NEW p \in Procs, ReadContext(p) PROVE SessionInv'
  <2>1. next_identity_number \in Numbers \ active_session_records
    BY <1>1, NextNumberFree DEF ReadContext
  <2>2. Len(sessions) \in Nat
    BY DEF SessionTypes
  <2>3. launch'[p] = [pc |-> "chosen", seen |-> Len(sessions), num |-> next_identity_number, at |-> 0]
    BY <1>1 DEF ReadContext, SessionTypes, ContextVersion
  <2>4. \A q \in Procs \ {p} : launch'[q] = launch[q]
    BY <1>1 DEF ReadContext, SessionTypes
  <2>5. SessionTypes'
    BY <1>1, <2>1, <2>2 DEF ReadContext, SessionTypes, Launches, ContextVersion
  <2>6. active_session_records' = active_session_records
    BY <1>1 DEF ReadContext, active_session_records
  <2>7. \A q \in Procs : Standing(q)' => q # p /\ Standing(q)
    BY <1>1, <2>3, <2>4 DEF ReadContext, Standing
  <2>8. ChosenFree'
    BY <1>1, <2>1, <2>2, <2>3, <2>4, <2>6
       DEF ReadContext, ChosenFree, ContextUnchanged, ContextVersion
  <2>9. ReservedActive'
    BY <1>1, <2>3, <2>4, <2>6, <2>7 DEF ReadContext, ReservedActive
  <2>10. IdentityExclusive'
    BY <2>4, <2>7 DEF IdentityExclusive
  <2> QED BY <2>5, <2>8, <2>9, <2>10
<1>2. ASSUME NEW p \in Procs, Reserve(p) PROVE SessionInv'
  <2>1. \A q \in Procs \ {p} : launch'[q] = launch[q]
    BY <1>2 DEF Reserve, SessionTypes
  <2>2. launch[p] \in Launches /\ launch[p].num \in Numbers
    BY <1>2 DEF Reserve, SessionTypes, ChosenFree
  <2>3. CASE ContextUnchanged(p)
    <3>1. sessions' = Append(sessions, SessionRow(launch[p].num, "active"))
      BY <1>2, <2>3 DEF Reserve
    <3>2. /\ sessions' \in Seq(SessionRows)
          /\ Len(sessions) \in Nat /\ Len(sessions') = Len(sessions) + 1
          /\ active_session_records' = active_session_records \cup {launch[p].num}
      BY <2>2, <3>1, AppendSession
    <3>3. launch'[p] = [launch[p] EXCEPT !.pc = "reserved", !.at = Len(sessions) + 1]
      BY <1>2, <2>3 DEF Reserve, SessionTypes
    <3>4. launch'[p].pc = "reserved" /\ launch'[p].at = Len(sessions) + 1
          /\ launch'[p].num = launch[p].num /\ launch'[p] \in Launches
      <4>1. Len(sessions) + 1 \in Nat
        BY <3>2
      <4> QED BY <2>2, <3>3, <4>1 DEF Launches
    <3>5. SessionTypes'
      <4>1. launch' \in [Procs -> Launches]
        BY <1>2, <2>1, <2>3, <3>4 DEF Reserve, SessionTypes
      <4> QED BY <1>2, <3>2, <4>1 DEF Reserve, SessionTypes
    <3>6. ASSUME NEW q \in Procs \ {p}
          PROVE  /\ Standing(q)' => Standing(q)
                 /\ launch'[q].pc = "chosen" =>
                      /\ launch'[q].num \in Numbers
                      /\ launch'[q].seen <= Len(sessions')
                      /\ ~ContextUnchanged(q)'
                 /\ launch'[q].pc \in {"reserved", "launched"} =>
                      /\ launch'[q].num \in Numbers
                      /\ launch'[q].at \in 1 .. Len(sessions')
                      /\ Standing(q)' => launch'[q].num \in active_session_records'
      BY <2>1, <2>2, <3>1, OtherLaunch
    <3>7. ChosenFree'
      BY <3>4, <3>6 DEF ChosenFree
    <3>8. ReservedActive'
      BY <2>2, <3>2, <3>4, <3>6 DEF ReservedActive
    <3>9. launch[p].num \notin active_session_records
      BY <1>2, <2>3 DEF Reserve, ChosenFree
    <3>10. \A q \in Procs \ {p} : Standing(q)' => launch'[q].num # launch'[p].num
      BY <2>1, <3>4, <3>6, <3>9 DEF ReservedActive, Standing
    <3>11. IdentityExclusive'
      BY <2>1, <3>6, <3>10 DEF IdentityExclusive
    <3> QED BY <3>5, <3>7, <3>8, <3>11
  <2>4. CASE ~ContextUnchanged(p)
    <3>1. launch'[p] = Idle /\ UNCHANGED <<sessions, stops>>
      BY <1>2, <2>4 DEF Reserve, SessionTypes
    <3>2. SessionTypes'
      <4>1. launch' \in [Procs -> Launches]
        <5>1. Idle \in Launches
          BY DEF Idle, Launches
        <5> QED BY <1>2, <2>4, <5>1 DEF Reserve, SessionTypes
      <4> QED BY <3>1, <4>1 DEF SessionTypes
    <3>3. active_session_records' = active_session_records
      BY <3>1 DEF active_session_records
    <3>4. \A q \in Procs : Standing(q)' => q # p /\ Standing(q)
      BY <2>1, <3>1 DEF Standing, Idle
    <3>5. ChosenFree' /\ ReservedActive'
      BY <2>1, <3>1, <3>3, <3>4 DEF ChosenFree, ReservedActive, ContextUnchanged, ContextVersion, Idle
    <3>6. IdentityExclusive'
      BY <2>1, <3>4 DEF IdentityExclusive
    <3> QED BY <3>2, <3>5, <3>6
  <2> QED BY <2>3, <2>4
<1>3. ASSUME NEW n \in Numbers, NEW status \in {"active", "stopped"},
             sessions' = Append(sessions, SessionRow(n, status)),
             launch' \in [Procs -> Launches], stops' \subseteq Numbers,
             \A q \in Procs :
                \/ launch'[q] = Idle
                \/ /\ launch'[q].num = launch[q].num /\ launch'[q].at = launch[q].at
                   /\ launch'[q].seen = launch[q].seen
                   /\ \/ launch'[q].pc = launch[q].pc
                      \/ launch[q].pc = "reserved" /\ launch'[q].pc = "launched"
      PROVE  SessionInv'
  <2>1. ASSUME NEW q \in Procs, launch'[q] # Idle
        PROVE  /\ Standing(q)' => Standing(q)
               /\ launch'[q].pc = "chosen" =>
                    /\ launch'[q].num \in Numbers
                    /\ launch'[q].seen <= Len(sessions')
                    /\ ~ContextUnchanged(q)'
               /\ launch'[q].pc \in {"reserved", "launched"} =>
                    /\ launch'[q].num \in Numbers
                    /\ launch'[q].at \in 1 .. Len(sessions')
                    /\ Standing(q)' => launch'[q].num \in active_session_records'
    BY <1>3, <2>1, OtherLaunch
  <2>2. \A q \in Procs : Standing(q)' => launch'[q] # Idle
    BY DEF Standing, Idle
  <2>3. SessionTypes'
    BY <1>3, AppendSession DEF SessionTypes
  <2>4. ChosenFree' /\ ReservedActive'
    BY <2>1 DEF ChosenFree, ReservedActive, Idle
  <2>5. IdentityExclusive'
    BY <1>3, <2>1, <2>2 DEF IdentityExclusive
  <2> QED BY <2>3, <2>4, <2>5
<1>4. ASSUME NEW p \in Procs, Refresh(p) PROVE SessionInv'
  <2>1. launch[p] \in Launches /\ launch[p].num \in Numbers
    BY <1>4 DEF Refresh, SessionTypes, ReservedActive
  <2>2. launch'[p] = [launch[p] EXCEPT !.pc = "launched"] /\ \A q \in Procs \ {p} : launch'[q] = launch[q]
    BY <1>4 DEF Refresh, SessionTypes
  <2>3. launch' \in [Procs -> Launches]
    BY <1>4, <2>1 DEF Refresh, SessionTypes, Launches
  <2> QED BY <1>3, <1>4, <2>1, <2>2, <2>3 DEF Refresh, SessionTypes, Launches
<1>5. ASSUME NEW p \in Procs, LaunchFails(p) PROVE SessionInv'
  <2>1. launch[p].num \in Numbers
    BY <1>5 DEF LaunchFails, ReservedActive
  <2>2. launch'[p] = Idle /\ \A q \in Procs \ {p} : launch'[q] = launch[q]
    BY <1>5 DEF LaunchFails, SessionTypes
  <2>3. launch' \in [Procs -> Launches]
    BY <1>5 DEF LaunchFails, SessionTypes, Launches, Idle
  <2> QED BY <1>3, <1>5, <2>1, <2>2, <2>3 DEF LaunchFails, SessionTypes
<1>6. ASSUME StopRead PROVE SessionInv'
  BY <1>6 DEF StopRead, SessionTypes, ChosenFree, ReservedActive, IdentityExclusive, Standing,
     ContextUnchanged, ContextVersion, active_session_records
<1>7. ASSUME StopAppend PROVE SessionInv'
  <2>1. PICK n \in stops : sessions' = Append(sessions, SessionRow(n, "stopped")) /\ stops' = stops \ {n}
    BY <1>7 DEF StopAppend
  <2> QED BY <1>3, <1>7, <2>1 DEF StopAppend, SessionTypes
<1> QED BY <1>1, <1>2, <1>4, <1>5, <1>6, <1>7 DEF SessionNext

-----------------------------------------------------------------------------
(* Inductive invariant of the handoffs *)

Rows ==
    [kind : {"request", "artifact", "reply", "answer", "retract", "expiry"},
     by : Parties \cup {Reaper}, signed : BOOLEAN, target : Tools \cup {NoTool},
     to : Parties \cup {NoAgent}, ref : Nat]

HandoffTypes ==
    /\ facts \in Seq(Rows)
    /\ draft \in [Parties -> Rows \cup {NoDraft}]
    /\ reaping \subseteq Ids

\* A row cites an earlier row, only the reaper's rows have no party as author,
\* and an artifact binds nobody.
Sound(f, i) ==
    /\ f.ref < i
    /\ f.kind = "reply" => f.ref >= 1
    /\ f.kind # "expiry" => f.by \in Parties
    /\ f.kind = "artifact" => f.to = NoAgent
RowsSound == \A i \in 1 .. Len(facts) : Sound(facts[i], i)

\* A prepared handoff is the session's own and cites a row of the room.
DraftsSound ==
    \A a \in Parties : draft[a] # NoDraft =>
        /\ draft[a] \in Rows
        /\ draft[a].kind \in {"request", "reply"}
        /\ draft[a].by = a
        /\ draft[a].ref \in 1 .. Len(facts)

\* Every reply was written by the session that its handoff is bound to now.
RepliesBound ==
    \A i, j \in 1 .. Len(facts) : facts[j].kind = "reply" /\ facts[j].ref = i =>
        facts[j].by = unbound_directive_receiver(i)

HandoffInv ==
    /\ HandoffTypes
    /\ RowsSound
    /\ DraftsSound
    /\ RepliesBound

\* A row of the room keeps its place when another one is appended.
LEMMA AppendFacts ==
    ASSUME facts \in Seq(Rows), NEW r \in Rows, facts' = Append(facts, r)
    PROVE  /\ facts' \in Seq(Rows)
           /\ Len(facts) \in Nat /\ Len(facts') = Len(facts) + 1
           /\ Ids = 1 .. Len(facts) /\ Ids' = 1 .. Len(facts) + 1
           /\ \A i \in 1 .. Len(facts) : facts'[i] = facts[i] /\ facts[i] \in Rows
           /\ facts'[Len(facts) + 1] = r
  BY DEF Ids

\* The element FirstReply chooses among the replies is the least one.
LEMMA LeastChosen ==
    ASSUME NEW D \in SUBSET Nat, D # {}
    PROVE  LET m == CHOOSE j \in D : \A k \in D : j <= k
           IN  m \in D /\ \A k \in D : m <= k
  BY LeastExists

\* The first reply to a handoff stays the first; a reply to a handoff without
\* one becomes it.
LEMMA FirstReplyStays ==
    ASSUME facts \in Seq(Rows), NEW r \in Rows, facts' = Append(facts, r), NEW i \in Nat
    PROVE  /\ FirstReply(Ids, i) # 0 =>
                /\ FirstReply(Ids, i) \in Ids
                /\ FirstReply(Ids, i)' = FirstReply(Ids, i)
           /\ FirstReply(Ids, i) = 0 =>
                \A j \in Ids : ~(facts[j].kind = "reply" /\ facts[j].ref = i)
           /\ FirstReply(Ids, i) = 0 /\ r.kind = "reply" /\ r.ref = i =>
                FirstReply(Ids, i)' = Len(facts) + 1
<1> DEFINE D == {j \in Ids : facts[j].kind = "reply" /\ facts[j].ref = i}
           E == {j \in Ids' : facts'[j].kind = "reply" /\ facts'[j].ref = i}
           d == CHOOSE j \in D : \A k \in D : j <= k
           e == CHOOSE j \in E : \A k \in E : j <= k
<1>1. /\ Len(facts) \in Nat
      /\ Ids = 1 .. Len(facts) /\ Ids' = 1 .. Len(facts) + 1
      /\ \A j \in 1 .. Len(facts) : facts'[j] = facts[j]
      /\ facts'[Len(facts) + 1] = r
  BY AppendFacts
<1>2. D \in SUBSET Nat /\ E \in SUBSET Nat /\ D \subseteq 1 .. Len(facts)
  BY <1>1
<1>3. D \subseteq E /\ E \subseteq D \cup {Len(facts) + 1}
  BY <1>1
<1>4. r.kind = "reply" /\ r.ref = i => Len(facts) + 1 \in E
  BY <1>1
<1>5. FirstReply(Ids, i) = IF D = {} THEN 0 ELSE d
  BY DEF FirstReply
<1>6. FirstReply(Ids, i)' = IF E = {} THEN 0 ELSE e
  BY DEF FirstReply
<1>7. D # {} => d \in D /\ \A k \in D : d <= k
  BY <1>2, LeastChosen
<1>8. E # {} => e \in E /\ \A k \in E : e <= k
  BY <1>2, LeastChosen
<1> HIDE DEF D, E, d, e
<1>9. D # {} => d \in Ids /\ d # 0 /\ e = d
  <2> SUFFICES ASSUME D # {} PROVE d \in Ids /\ d # 0 /\ e = d
    OBVIOUS
  <2>1. d \in D /\ d \in Ids /\ d \in Nat /\ 1 <= d /\ d <= Len(facts)
    <3>1. d \in D
      BY <1>7
    <3>2. d \in 1 .. Len(facts)
      BY <1>2, <3>1
    <3> QED BY <1>1, <3>1, <3>2
  <2>2. e \in E /\ e <= d /\ e \in Nat
    BY <1>2, <1>3, <1>8, <2>1
  <2>3. e \in D
    BY <1>1, <1>3, <2>1, <2>2
  <2>4. d <= e
    BY <1>7, <2>3
  <2> QED BY <2>1, <2>2, <2>4
<1>10. D = {} /\ E # {} => e = Len(facts) + 1
  BY <1>3, <1>8
<1>11. D = {} => \A j \in Ids : ~(facts[j].kind = "reply" /\ facts[j].ref = i)
  BY DEF D
<1> QED BY <1>3, <1>4, <1>5, <1>6, <1>9, <1>10, <1>11

\* A row that the commands write keeps the rows sound and every reply bound;
\* a reply has passed MayReply under the lock.
LEMMA RowAdded ==
    ASSUME HandoffInv, NEW r \in Rows, facts' = Append(facts, r),
           Sound(r, Len(facts) + 1),
           r.kind = "reply" => MayReply(r.by, r.ref)
    PROVE  /\ facts' \in Seq(Rows)
           /\ RowsSound'
           /\ RepliesBound'
           /\ Ids \subseteq Ids' /\ Len(facts) <= Len(facts') /\ Len(facts) \in Nat /\ Len(facts') \in Nat
<1> USE DEF HandoffInv, HandoffTypes
<1>1. /\ facts' \in Seq(Rows)
      /\ Len(facts) \in Nat /\ Len(facts') = Len(facts) + 1
      /\ Ids = 1 .. Len(facts) /\ Ids' = 1 .. Len(facts) + 1
      /\ \A i \in 1 .. Len(facts) : facts'[i] = facts[i] /\ facts[i] \in Rows
      /\ facts'[Len(facts) + 1] = r
  BY AppendFacts
<1>2. RowsSound'
  <2> SUFFICES ASSUME NEW i \in 1 .. Len(facts') PROVE Sound(facts'[i], i)
    BY DEF RowsSound, Sound
  <2>1. CASE i \in 1 .. Len(facts)
    BY <1>1, <2>1 DEF RowsSound
  <2>2. CASE i = Len(facts) + 1
    BY <1>1, <2>2
  <2> QED BY <1>1, <2>1, <2>2
<1>3. ASSUME NEW i \in Ids
      PROVE  /\ \A j \in Ids : facts[j].kind = "reply" /\ facts[j].ref = i =>
                   unbound_directive_receiver(i)' = unbound_directive_receiver(i)
             /\ r.kind = "reply" /\ r.ref = i => unbound_directive_receiver(i)' = r.by
  <2>1. i \in Nat /\ i \in 1 .. Len(facts)
    BY <1>1
  <2>2. facts'[i] = facts[i]
    BY <1>1, <2>1
  <2>3. /\ FirstReply(Ids, i) # 0 =>
             FirstReply(Ids, i) \in Ids /\ FirstReply(Ids, i)' = FirstReply(Ids, i)
        /\ FirstReply(Ids, i) = 0 => \A j \in Ids : ~(facts[j].kind = "reply" /\ facts[j].ref = i)
        /\ FirstReply(Ids, i) = 0 /\ r.kind = "reply" /\ r.ref = i =>
             FirstReply(Ids, i)' = Len(facts) + 1
    BY <2>1, FirstReplyStays
  <2>4. FirstReply(Ids, i) # 0 => /\ facts'[FirstReply(Ids, i)'] = facts[FirstReply(Ids, i)]
                                  /\ facts[FirstReply(Ids, i)].by # NoAgent
    <3> SUFFICES ASSUME FirstReply(Ids, i) # 0
                 PROVE  /\ facts'[FirstReply(Ids, i)'] = facts[FirstReply(Ids, i)]
                        /\ facts[FirstReply(Ids, i)].by # NoAgent
      OBVIOUS
    <3>1. FirstReply(Ids, i) \in 1 .. Len(facts)
      BY <1>1, <2>3
    <3>2. facts[FirstReply(Ids, i)] \in Rows
      BY <1>1, <3>1
    <3>3. facts[FirstReply(Ids, i)].by # NoAgent
      BY <3>2, HandoffBounds DEF Rows, Parties
    <3> QED BY <1>1, <2>3, <3>1, <3>3
  <2>5. unbound_directive_receiver(i)' =
          IF facts[i].target # NoTool /\ facts[i].to # NoAgent THEN facts[i].to
          ELSE IF FirstReply(Ids, i)' = 0 THEN NoAgent
          ELSE facts'[FirstReply(Ids, i)'].by
    BY <2>2 DEF unbound_directive_receiver
  <2>6. ASSUME NEW j \in Ids, facts[j].kind = "reply", facts[j].ref = i
        PROVE  unbound_directive_receiver(i)' = unbound_directive_receiver(i)
    BY <2>3, <2>4, <2>5, <2>6 DEF unbound_directive_receiver
  <2>7. ASSUME r.kind = "reply", r.ref = i PROVE unbound_directive_receiver(i)' = r.by
    <3>1. MayReply(r.by, i)
      BY <2>7
    <3>2. CASE unbound_directive_receiver(i) = NoAgent
      <4>1. FirstReply(Ids, i) = 0 /\ ~(facts[i].target # NoTool /\ facts[i].to # NoAgent)
        BY <2>4, <3>2 DEF unbound_directive_receiver
      <4>2. FirstReply(Ids, i)' = Len(facts) + 1 /\ Len(facts) + 1 # 0
        BY <1>1, <2>3, <2>7, <4>1
      <4> QED BY <1>1, <2>5, <4>1, <4>2
    <3>3. CASE unbound_directive_receiver(i) # NoAgent
      <4>1. unbound_directive_receiver(i) = r.by
        BY <3>1, <3>3 DEF MayReply
      <4> QED BY <2>3, <2>4, <2>5, <3>3, <4>1 DEF unbound_directive_receiver
    <3> QED BY <3>2, <3>3
  <2> QED BY <2>6, <2>7
<1>4. RepliesBound'
  <2> SUFFICES ASSUME NEW i \in 1 .. Len(facts'), NEW j \in 1 .. Len(facts'),
                      facts'[j].kind = "reply", facts'[j].ref = i
               PROVE  facts'[j].by = unbound_directive_receiver(i)'
    BY DEF RepliesBound
  <2>1. CASE j \in 1 .. Len(facts)
    <3>1. facts'[j] = facts[j] /\ facts[j] \in Rows /\ Sound(facts[j], j)
      BY <1>1, <2>1 DEF RowsSound
    <3>2. i \in Ids /\ j \in Ids
      BY <1>1, <2>1, <3>1 DEF Sound, Rows
    <3>3. unbound_directive_receiver(i)' = unbound_directive_receiver(i)
      BY <1>3, <3>1, <3>2
    <3> QED BY <1>1, <2>1, <3>1, <3>2, <3>3 DEF RepliesBound
  <2>2. CASE j = Len(facts) + 1
    <3>1. i \in Ids
      BY <1>1, <2>2 DEF Sound, Rows
    <3> QED BY <1>1, <1>3, <2>2, <3>1
  <2> QED BY <1>1, <2>1, <2>2
<1> QED BY <1>1, <1>2, <1>4

\* Every party runs under a tool name.
LEMMA ToolTyped == \A a \in Parties : ToolOf(a) \in Tools
  BY HandoffBounds DEF ToolOf, Parties

\* A step that appends a sound row other than a reply keeps the invariant.
LEMMA CommandRow ==
    ASSUME HandoffInv, NEW r \in Rows, Sound(r, Len(facts) + 1), r.kind # "reply",
           facts' = Append(facts, r), UNCHANGED draft, reaping' \subseteq reaping
    PROVE  HandoffInv'
<1>1. Len(facts) \in Nat
  BY DEF HandoffInv, HandoffTypes
<1>2. /\ facts' \in Seq(Rows) /\ RowsSound' /\ RepliesBound' /\ Ids \subseteq Ids'
      /\ Len(facts) <= Len(facts') /\ Len(facts') \in Nat
  BY RowAdded
<1>3. DraftsSound'
  BY <1>1, <1>2 DEF HandoffInv, DraftsSound
<1> QED BY <1>2, <1>3 DEF HandoffInv, HandoffTypes

\* Who is bound to a handoff depends on the rows alone.
LEMMA RowsUnchanged ==
    ASSUME UNCHANGED facts, RowsSound, RepliesBound
    PROVE  RowsSound' /\ RepliesBound' /\ Ids' = Ids
<1>1. Ids' = Ids
  BY DEF Ids
<1>2. \A i : FirstReply(Ids, i)' = FirstReply(Ids, i)
  BY <1>1 DEF FirstReply
<1>3. \A i : unbound_directive_receiver(i)' = unbound_directive_receiver(i)
  BY <1>2 DEF unbound_directive_receiver
<1>4. RepliesBound'
  BY <1>3 DEF RepliesBound
<1>5. RowsSound'
  BY DEF RowsSound, Sound
<1> QED BY <1>1, <1>4, <1>5

\* Every step of a command or of the reaper preserves HandoffInv.
LEMMA HandoffInvStep ==
    ASSUME HandoffInv, HandoffNext
    PROVE  HandoffInv'
<1> USE DEF HandoffTypes
<1> HandoffTypes /\ RowsSound /\ DraftsSound /\ RepliesBound
  BY DEF HandoffInv
<1>0. Len(facts) \in Nat /\ Ids = 1 .. Len(facts) /\ \A i \in Ids : facts[i] \in Rows
  BY DEF Ids
<1>1. ASSUME NEW a \in Parties, Direct(a) PROVE HandoffInv'
  <2>1. PICK t \in Tools \cup {NoTool} : facts' = Append(facts, Row("request", a, TRUE, t, NoAgent, 0))
    BY <1>1 DEF Direct
  <2>2. UNCHANGED <<draft, reaping>>
    BY <1>1 DEF Direct
  <2>3. /\ Row("request", a, TRUE, t, NoAgent, 0) \in Rows
        /\ Sound(Row("request", a, TRUE, t, NoAgent, 0), Len(facts) + 1)
        /\ Row("request", a, TRUE, t, NoAgent, 0).kind # "reply"
    BY <1>0, <2>1 DEF Row, Rows, Sound
  <2> QED BY <2>1, <2>2, <2>3, CommandRow
<1>2. ASSUME NEW a \in Parties, Publish(a) PROVE HandoffInv'
  <2>1. PICK t \in Tools : facts' = Append(facts, Row("artifact", a, TRUE, t, NoAgent, 0))
    BY <1>2 DEF Publish
  <2>2. UNCHANGED <<draft, reaping>>
    BY <1>2 DEF Publish
  <2>3. /\ Row("artifact", a, TRUE, t, NoAgent, 0) \in Rows
        /\ Sound(Row("artifact", a, TRUE, t, NoAgent, 0), Len(facts) + 1)
        /\ Row("artifact", a, TRUE, t, NoAgent, 0).kind # "reply"
    BY <1>0, <2>1 DEF Row, Rows, Sound
  <2> QED BY <2>1, <2>2, <2>3, CommandRow
<1>3. ASSUME NEW a \in Parties, Prepare(a) PROVE HandoffInv'
  <2>1. ASSUME NEW f \in Rows, f.kind \in {"request", "reply"}, f.by = a, f.ref \in 1 .. Len(facts),
               draft' = [draft EXCEPT ![a] = f]
        PROVE  HandoffInv'
    <3>1. UNCHANGED <<facts, reaping>>
      BY <1>3 DEF Prepare
    <3>2. draft' \in [Parties -> Rows \cup {NoDraft}] /\ draft'[a] = f
          /\ \A b \in Parties \ {a} : draft'[b] = draft[b]
      BY <2>1
    <3>3. DraftsSound'
      BY <2>1, <3>1, <3>2 DEF DraftsSound
    <3>4. RowsSound' /\ RepliesBound'
      BY <3>1, RowsUnchanged
    <3> QED BY <3>1, <3>2, <3>3, <3>4 DEF Ids, HandoffInv
  <2>2. PICK i \in Ids :
         \/ /\ facts[i].kind \in {"request", "reply"}
            /\ draft' = [draft EXCEPT ![a] =
                  Row("reply", a, TRUE, RowTool(facts[i]), facts[i].by, i)]
         \/ /\ facts[i].kind = "artifact"
            /\ \E s \in {facts[i].by} \cup Numbers :
                  draft' = [draft EXCEPT ![a] = Row("request", a, TRUE, ToolOf(s), s, i)]
    BY <1>3 DEF Prepare
  <2>3. facts[i] \in Rows /\ i \in 1 .. Len(facts) /\ i \in Nat
    BY <1>0
  <2>4. facts[i].kind # "expiry" => facts[i].by \in Parties
    BY <2>3 DEF RowsSound, Sound
  <2>5. CASE /\ facts[i].kind \in {"request", "reply"}
             /\ draft' = [draft EXCEPT ![a] = Row("reply", a, TRUE, RowTool(facts[i]), facts[i].by, i)]
    <3>1. RowTool(facts[i]) \in Tools
      BY <2>4, <2>5, ToolTyped, HandoffBounds DEF RowTool, Parties
    <3>2. Row("reply", a, TRUE, RowTool(facts[i]), facts[i].by, i) \in Rows
      BY <2>3, <2>4, <2>5, <3>1 DEF Row, Rows
    <3> QED BY <2>1, <2>3, <2>5, <3>2 DEF Row
  <2>6. ASSUME facts[i].kind = "artifact", NEW s \in {facts[i].by} \cup Numbers,
               draft' = [draft EXCEPT ![a] = Row("request", a, TRUE, ToolOf(s), s, i)]
        PROVE  HandoffInv'
    <3>1. s \in Parties
      BY <2>4, <2>6 DEF Parties
    <3>2. Row("request", a, TRUE, ToolOf(s), s, i) \in Rows
      BY <2>3, <3>1, ToolTyped DEF Row, Rows
    <3> QED BY <2>1, <2>3, <2>6, <3>2 DEF Row
  <2> QED BY <2>2, <2>5, <2>6
<1>4. ASSUME NEW a \in Parties, Submit(a) PROVE HandoffInv'
  <2>1. draft' = [draft EXCEPT ![a] = NoDraft] /\ UNCHANGED reaping /\ draft[a] # NoDraft
    BY <1>4 DEF Submit
  <2>2. /\ draft' \in [Parties -> Rows \cup {NoDraft}]
        /\ \A b \in Parties : draft'[b] # NoDraft => b # a /\ draft'[b] = draft[b]
    BY <2>1
  <2>3. CASE UNCHANGED facts
    <3>1. DraftsSound'
      BY <2>2, <2>3 DEF DraftsSound
    <3>2. RowsSound' /\ RepliesBound'
      BY <2>3, RowsUnchanged
    <3> QED BY <2>1, <2>2, <2>3, <3>1, <3>2 DEF Ids, HandoffInv
  <2>4. CASE validate_referenced_handoff(draft[a]) /\ facts' = Append(facts, draft[a])
    <3>1. /\ draft[a] \in Rows /\ draft[a].kind \in {"request", "reply"} /\ draft[a].by = a
          /\ draft[a].ref \in 1 .. Len(facts)
      BY <2>1 DEF DraftsSound
    <3>2. draft[a].kind = "reply" => MayReply(draft[a].by, draft[a].ref)
      BY <2>4 DEF validate_referenced_handoff
    <3>3. Sound(draft[a], Len(facts) + 1)
      BY <1>0, <3>1 DEF Sound
    <3>4. /\ facts' \in Seq(Rows) /\ RowsSound' /\ RepliesBound' /\ Ids \subseteq Ids'
          /\ Len(facts) <= Len(facts') /\ Len(facts') \in Nat
      BY <2>4, <3>1, <3>2, <3>3, RowAdded
    <3>5. DraftsSound'
      BY <1>0, <2>2, <3>4 DEF DraftsSound
    <3> QED BY <2>1, <2>2, <3>4, <3>5 DEF HandoffInv
  <2> QED BY <1>4, <2>3, <2>4 DEF Submit
<1>5. ASSUME NEW a \in Parties, Answer(a) PROVE HandoffInv'
  <2>1. PICK i \in Ids, signed \in BOOLEAN :
            facts' = Append(facts, Row("answer", a, signed, NoTool, NoAgent, i))
    BY <1>5 DEF Answer
  <2>2. UNCHANGED <<draft, reaping>>
    BY <1>5 DEF Answer
  <2>3. /\ Row("answer", a, signed, NoTool, NoAgent, i) \in Rows
        /\ Sound(Row("answer", a, signed, NoTool, NoAgent, i), Len(facts) + 1)
        /\ Row("answer", a, signed, NoTool, NoAgent, i).kind # "reply"
    BY <1>0, <2>1 DEF Row, Rows, Sound
  <2> QED BY <2>1, <2>2, <2>3, CommandRow
<1>6. ASSUME NEW a \in Parties, retract_in_room(a) \/ SayRetraction(a) PROVE HandoffInv'
  <2>1. PICK i \in Ids : facts' = Append(facts, Row("retract", a, TRUE, NoTool, NoAgent, i))
    BY <1>6 DEF retract_in_room, SayRetraction, Resolved
  <2>2. UNCHANGED <<draft, reaping>>
    BY <1>6 DEF retract_in_room, SayRetraction
  <2>3. /\ Row("retract", a, TRUE, NoTool, NoAgent, i) \in Rows
        /\ Sound(Row("retract", a, TRUE, NoTool, NoAgent, i), Len(facts) + 1)
        /\ Row("retract", a, TRUE, NoTool, NoAgent, i).kind # "reply"
    BY <1>0, <2>1 DEF Row, Rows, Sound
  <2> QED BY <2>1, <2>2, <2>3, CommandRow
<1>7. ASSUME ReapRead PROVE HandoffInv'
  <2>1. reaping' \subseteq Ids /\ UNCHANGED <<facts, draft>>
    BY <1>7 DEF ReapRead, open_handoffs, Resolved
  <2>2. DraftsSound' /\ RowsSound' /\ RepliesBound'
    BY <2>1, RowsUnchanged DEF DraftsSound
  <2> QED BY <2>1, <2>2 DEF Ids, HandoffInv
<1>8. ASSUME ReapAppend PROVE HandoffInv'
  <2>1. PICK i \in reaping :
          /\ reaping' = reaping \ {i} /\ UNCHANGED draft
          /\ \/ UNCHANGED facts
             \/ facts' = Append(facts, Row("expiry", Reaper, TRUE, NoTool, NoAgent, i))
    BY <1>8 DEF ReapAppend
  <2>2. CASE UNCHANGED facts
    <3>1. DraftsSound' /\ RowsSound' /\ RepliesBound'
      BY <2>1, <2>2, RowsUnchanged DEF DraftsSound
    <3> QED BY <2>1, <2>2, <3>1 DEF Ids, HandoffInv
  <2>3. CASE facts' = Append(facts, Row("expiry", Reaper, TRUE, NoTool, NoAgent, i))
    <3> DEFINE r == Row("expiry", Reaper, TRUE, NoTool, NoAgent, i)
    <3>1. i \in 1 .. Len(facts) /\ i \in Nat
      BY <1>0, <2>1
    <3>2. r \in Rows /\ Sound(r, Len(facts) + 1) /\ r.kind # "reply"
      BY <1>0, <3>1 DEF Row, Rows, Sound
    <3> HIDE DEF r
    <3>3. facts' = Append(facts, r)
      BY <2>3 DEF r
    <3> QED BY <2>1, <3>2, <3>3, CommandRow
  <2> QED BY <2>1, <2>2, <2>3
<1> QED BY <1>1, <1>2, <1>3, <1>4, <1>5, <1>6, <1>7, <1>8 DEF HandoffNext

\* A step writes at most one row, at the end of the room.
LEMMA FactsGrow ==
    ASSUME HandoffInv, [Next]_vars
    PROVE  UNCHANGED facts \/ \E r \in Rows : facts' = Append(facts, r)
<1>1. CASE UNCHANGED vars
  BY <1>1 DEF vars
<1>2. CASE UNCHANGED handoffVars
  BY <1>2 DEF handoffVars
<1>3. CASE HandoffNext
  <2>1. facts' \in Seq(Rows)
    BY <1>3, HandoffInvStep DEF HandoffInv, HandoffTypes
  <2>2. facts \in Seq(Rows)
    BY DEF HandoffInv, HandoffTypes
  <2>3. UNCHANGED facts \/ \E r : facts' = Append(facts, r)
    BY <1>3 DEF HandoffNext, Direct, Publish, Prepare, Submit, Answer, retract_in_room, SayRetraction,
       ReapRead, ReapAppend
  <2>4. ASSUME NEW r, facts' = Append(facts, r) PROVE r \in Rows
    <3>1. Len(facts) \in Nat /\ Len(facts') = Len(facts) + 1 /\ facts'[Len(facts) + 1] = r
      BY <2>2, <2>4
    <3> QED BY <2>1, <3>1
  <2> QED BY <2>3, <2>4
<1> QED BY <1>1, <1>2, <1>3 DEF Next

\* The row that takes an obligation out of open_obligations cites it, and is a
\* retraction or comes from the addressed tool and the bound session.
LEMMA ObligationCloser ==
    ASSUME HandoffInv, NEW r \in Rows, facts' = Append(facts, r),
           NEW i \in open_obligations, i \notin open_obligations'
    PROVE  /\ r.ref = i
           /\ \/ r.kind = "retract"
              \/ /\ RowTool(r) = facts[i].target
                 /\ facts[i].to # NoAgent => r.by = facts[i].to
<1>1. /\ Len(facts) \in Nat
      /\ Ids = 1 .. Len(facts) /\ Ids' = 1 .. Len(facts) + 1
      /\ \A j \in 1 .. Len(facts) : facts'[j] = facts[j]
      /\ facts'[Len(facts) + 1] = r
  BY AppendFacts DEF HandoffInv, HandoffTypes
<1>2. /\ i \in Ids /\ i \notin retracted_ids /\ fact_is_addressed_obligation(facts[i])
      /\ \A j \in Ids \ retracted_ids : ~receiver_ack_closes_obligation(i, j)
      /\ facts'[i] = facts[i] /\ i \in Ids'
  BY <1>1 DEF open_obligations, Resolved
<1>3. CASE i \in retracted_ids'
  <2>1. PICK j \in Ids' : facts'[j].kind = "retract" /\ facts'[j].ref = i
    BY <1>3 DEF retracted_ids
  <2>2. j \notin Ids
    BY <1>1, <1>2, <2>1 DEF retracted_ids
  <2>3. j = Len(facts) + 1
    BY <1>1, <2>2
  <2> QED BY <1>1, <2>1, <2>3
<1>4. CASE i \notin retracted_ids'
  <2>1. fact_is_addressed_obligation(facts[i])'
    BY <1>2 DEF fact_is_addressed_obligation
  <2>2. PICK j \in Ids' : j \notin retracted_ids' /\ receiver_ack_closes_obligation(i, j)'
    BY <1>2, <1>4, <2>1 DEF open_obligations, Resolved
  <2>3. ASSUME j \in Ids PROVE FALSE
    <3>1. facts'[j] = facts[j]
      BY <1>1, <2>3
    <3>2. receiver_ack_closes_obligation(i, j)
      BY <1>2, <2>2, <3>1 DEF receiver_ack_closes_obligation
    <3>3. j \notin retracted_ids
      <4>1. retracted_ids \subseteq retracted_ids'
        BY <1>1 DEF retracted_ids
      <4> QED BY <2>2, <4>1
    <3> QED BY <1>2, <2>3, <3>2, <3>3
  <2>4. j = Len(facts) + 1 /\ facts'[j] = r
    BY <1>1, <2>2, <2>3
  <2>5. /\ r.ref = i /\ RowTool(r) = facts[i].target
        /\ facts[i].kind = "request" /\ facts[i].to # NoAgent => r.by = facts[i].to
    BY <1>2, <2>2, <2>4 DEF receiver_ack_closes_obligation
  <2>6. facts[i].kind # "request" => facts[i].to = NoAgent
    BY <1>1, <1>2 DEF fact_is_addressed_obligation, HandoffInv, RowsSound, Sound
  <2> QED BY <2>5, <2>6
<1> QED BY <1>3, <1>4

-----------------------------------------------------------------------------
(* Theorems *)

\* SessionInv holds in every reachable state.
THEOREM SessionInvHolds == Spec => []SessionInv
<1>1. Init => SessionInv
  <2> SUFFICES ASSUME Init PROVE SessionInv
    OBVIOUS
  <2>1. SessionTypes
    BY DEF Init, SessionInit, SessionTypes, Launches, Idle
  <2>2. \A p \in Procs : launch[p].pc = "idle"
    BY DEF Init, SessionInit, Idle
  <2> QED BY <2>1, <2>2 DEF SessionInv, ChosenFree, ReservedActive, IdentityExclusive, Standing
<1>2. SessionInv /\ [Next]_vars => SessionInv'
  <2>1. ASSUME SessionInv, UNCHANGED sessionVars PROVE SessionInv'
    <3> USE <2>1 DEF sessionVars
    <3>1. active_session_records' = active_session_records
      BY DEF active_session_records
    <3>2. \A p \in Procs : Standing(p)' <=> Standing(p)
      BY DEF Standing
    <3> QED BY <3>1, <3>2 DEF SessionInv, SessionTypes, ChosenFree, ReservedActive,
               IdentityExclusive, ContextUnchanged, ContextVersion
  <2> QED BY <2>1, SessionInvStep DEF Next, vars, sessionVars
<1> QED BY <1>1, <1>2, PTL DEF Spec

\* For any number of launching processes and stops, no two hold one numbered
\* identity: append_session_fact_if_context compares the version under the lock.
THEOREM IdentityExclusiveHolds == Spec => []IdentityExclusive
<1>1. SessionInv => IdentityExclusive
  BY DEF SessionInv
<1> QED BY <1>1, SessionInvHolds, PTL

\* HandoffInv holds in every reachable state.
THEOREM HandoffInvHolds == Spec => []HandoffInv
<1>1. Init => HandoffInv
  BY DEF Init, HandoffInv, HandoffTypes, RowsSound, DraftsSound, RepliesBound
<1>2. HandoffInv /\ [Next]_vars => HandoffInv'
  <2>1. ASSUME HandoffInv, UNCHANGED handoffVars PROVE HandoffInv'
    <3>1. RowsSound' /\ RepliesBound' /\ Ids' = Ids
      BY <2>1, RowsUnchanged DEF handoffVars, HandoffInv
    <3>2. DraftsSound'
      BY <2>1 DEF handoffVars, HandoffInv, DraftsSound
    <3> QED BY <2>1, <3>1, <3>2 DEF handoffVars, HandoffInv, HandoffTypes
  <2> QED BY <2>1, HandoffInvStep DEF Next, vars, handoffVars
<1> QED BY <1>1, <1>2, PTL DEF Spec

\* For any number of parties, every typed reply to a handoff is of one session:
\* the first reply binds it for good, and MayReply is asked under the lock.
THEOREM OneReceiverHolds == Spec => []OneReceiver
<1>1. HandoffInv => OneReceiver
  <2> SUFFICES ASSUME HandoffInv, NEW j \in Ids, NEW k \in Ids,
                      facts[j].kind = "reply", facts[k].kind = "reply",
                      facts[j].ref = facts[k].ref
               PROVE  facts[j].by = facts[k].by
    BY DEF OneReceiver
  <2>1. facts \in Seq(Rows) /\ Ids = 1 .. Len(facts) /\ Len(facts) \in Nat
    BY DEF HandoffInv, HandoffTypes, Ids
  <2>2. facts[j] \in Rows /\ Sound(facts[j], j)
    BY <2>1 DEF HandoffInv, RowsSound
  <2>3. facts[j].ref \in 1 .. Len(facts)
    BY <2>1, <2>2 DEF Sound, Rows
  <2> QED BY <2>1, <2>3 DEF HandoffInv, RepliesBound
<1> QED BY <1>1, HandoffInvHolds, PTL

\* For any number of parties, an obligation leaves the inbox only by a row of
\* its addressee or a retraction that names it.
THEOREM ObligationKeptHolds == Spec => ObligationKept
<1>1. HandoffInv /\ [Next]_vars =>
        [\A i \in open_obligations \ open_obligations' :
          LET c == Last(facts') IN
          /\ c.ref = i
          /\ \/ c.kind = "retract"
             \/ /\ RowTool(c) = facts[i].target
                /\ facts[i].to # NoAgent => c.by = facts[i].to]_facts
  <2> SUFFICES ASSUME HandoffInv, [Next]_vars, facts' # facts,
                      NEW i \in open_obligations, i \notin open_obligations'
               PROVE  /\ Last(facts').ref = i
                      /\ \/ Last(facts').kind = "retract"
                         \/ /\ RowTool(Last(facts')) = facts[i].target
                            /\ facts[i].to # NoAgent => Last(facts').by = facts[i].to
    OBVIOUS
  <2>1. PICK r \in Rows : facts' = Append(facts, r)
    BY FactsGrow
  <2>2. Last(facts') = r
    BY <2>1, AppendFacts DEF HandoffInv, HandoffTypes, Last
  <2> QED BY <2>1, <2>2, ObligationCloser
<1> QED BY <1>1, HandoffInvHolds, PTL DEF Spec, ObligationKept
=============================================================================
