------------------------------ MODULE Handoffs ------------------------------
(***************************************************************************)
(* Handoffs and the obligations they create.  A directive names a tool (or *)
(* nobody); a referenced handoff binds one exact session; a typed reply is *)
(* prepared from rows read earlier and checked again under the lock of the *)
(* room; resolves, receipts and artifacts answer; the reaper expires what  *)
(* stays open; a retraction withdraws a row.  The inbox of a tool shows    *)
(* the obligations addressed to it that it has not answered.               *)
(*                                                                         *)
(* An event id is the position of the row.  Replies carry no state here:   *)
(* acked, accepted and rejected are treated alike by every rule modelled.  *)
(***************************************************************************)
EXTENDS Sessions, SequencesExt

CONSTANTS Agents,     \* sessions of people and tools that are not managed
          Tools,      \* tool names
          Senders,    \* bound: who posts directives and artifacts
          MaxRows,    \* bound: rows of the room
          MaxRoots,   \* bound: directives and artifacts, rows that cite nothing
          MaxDrafts,  \* bound: prepared handoffs at a time
          NoTool, NoAgent, Reaper

\* An unmanaged session belongs to one tool; managed sessions share a tool
\* name when it is requested with --tool.
CONSTANTS AgentTool, ManagedTool

ASSUME HandoffBounds ==
    /\ Senders \subseteq Agents
    /\ MaxRows \in Nat /\ MaxRoots \in Nat /\ MaxDrafts \in Nat
    /\ AgentTool \in [Agents -> Tools]
    /\ ManagedTool \in Tools
    /\ NoTool \notin Tools
    /\ NoAgent \notin Agents \cup Numbers \cup {Reaper}
    /\ Reaper \notin Agents \cup Numbers

VARIABLES facts,    \* the rows that are not session rows, in order
          draft,    \* the handoff each session has prepared and not appended
          reaping   \* the open handoffs the reaper has read

handoffVars == <<facts, draft, reaping>>
vars == <<sessions, launch, stops, facts, draft, reaping>>

\* A managed session's protocol identity is its number.
Parties == Agents \cup Numbers

ToolOf(a) == IF a \in Agents THEN AgentTool[a] ELSE ManagedTool

\* A managed agent writes once its number was reserved.
Running(a) == a \in Agents \/ \E i \in DOMAIN sessions : sessions[i].num = a

NoDraft == [kind |-> "none", by |-> NoAgent, signed |-> TRUE,
            target |-> NoTool, to |-> NoAgent, ref |-> 0]

Row(kind, by, signed, target, to, ref) ==
    [kind |-> kind, by |-> by, signed |-> signed,
     target |-> target, to |-> to, ref |-> ref]

Ids == DOMAIN facts
RoomFor == Len(facts) + Len(sessions) < MaxRows
RootFor == RoomFor /\ Cardinality({i \in Ids : facts[i].ref = 0}) < MaxRoots
RowTool(f) == IF f.by = Reaper THEN NoTool ELSE ToolOf(f.by)

-----------------------------------------------------------------------------
(* Projections. *)

\* Rows named by a retraction, itself withdrawn or not.
retracted_ids == {facts[i].ref : i \in {j \in Ids : facts[j].kind = "retract"}}
Resolved == Ids \ retracted_ids

\* A reply is no request; a handoff without ref is one.
handoff_is_protocol_request(f) == f.kind = "request"

fact_is_addressed_obligation(f) ==
    f.target # NoTool /\ f.kind \in {"request", "artifact"}

\* resolve, receipt and artifact rows with a ref; a retraction is an artifact.
Closes(f) == f.kind \in {"answer", "expiry", "retract"}

\* The rule of open_handoffs: the reaper's expiry, else the bound session of a
\* strict handoff, else any row of an old binary that carries no session, else
\* the target (anybody when there is none).
handoff_closer_matches_target(h, c) ==
    \/ c.kind = "expiry"
    \/ h.to # NoAgent /\ c.signed /\ c.by = h.to
    \/ h.to = NoAgent /\ (~c.signed \/ h.target \in {NoTool, RowTool(c)})

fact_closes_handoff(i, j) ==
    /\ j > i /\ facts[j].ref = i /\ Closes(facts[j])
    /\ handoff_closer_matches_target(facts[i], facts[j])

open_handoffs ==
    {i \in Resolved : /\ handoff_is_protocol_request(facts[i])
                      /\ ~ \E j \in Resolved : fact_closes_handoff(i, j)}

\* Mistake: the inbox cleared by the rule of open_handoffs.
AckByHandoffRule(i, j) ==
    \/ fact_closes_handoff(i, j)
    \/ j > i /\ facts[j].ref = i /\ facts[j].kind = "reply"

\* The rule of the inbox: written by the addressed tool, never by the reaper,
\* and by the bound session of a strict handoff.  A typed reply counts.
receiver_ack_closes_obligation(i, j) ==
    LET o == facts[i]  c == facts[j] IN
    /\ j > i /\ c.ref = i
    /\ Closes(c) \/ c.kind = "reply"
    /\ RowTool(c) = o.target
    /\ c.by # Reaper
    /\ o.kind = "request" /\ o.to # NoAgent => c.signed /\ c.by = o.to

open_obligations ==
    {i \in Resolved : /\ fact_is_addressed_obligation(facts[i])
                      /\ ~ \E j \in Resolved : receiver_ack_closes_obligation(i, j)}

-----------------------------------------------------------------------------
(* Who may reply to a handoff. *)

FirstReply(rows, i) ==
    LET replies == {j \in rows : facts[j].kind = "reply" /\ facts[j].ref = i} IN
    IF replies = {} THEN 0 ELSE CHOOSE j \in replies : \A k \in replies : j <= k

\* Mistake: binding from the rows that are not withdrawn.
ReceiverOfResolved(i) ==
    IF facts[i].target # NoTool /\ facts[i].to # NoAgent THEN facts[i].to
    ELSE IF FirstReply(Resolved, i) = 0 THEN NoAgent
    ELSE facts[FirstReply(Resolved, i)].by

\* The exact session of a strict handoff or of a reply, else the author of the
\* first reply, withdrawn or not; NoAgent while the directive is open.
unbound_directive_receiver(i) ==
    IF facts[i].target # NoTool /\ facts[i].to # NoAgent THEN facts[i].to
    ELSE IF FirstReply(Ids, i) = 0 THEN NoAgent
    ELSE facts[FirstReply(Ids, i)].by

\* Applied by the command to the rows it read and by the store under the lock.
MayReply(a, i) ==
    IF unbound_directive_receiver(i) = NoAgent
    THEN /\ facts[i].by # a
         /\ facts[i].target \in {NoTool, ToolOf(a)}
    ELSE /\ unbound_directive_receiver(i) = a
         /\ facts[i].by = a => facts[i].to # NoAgent

\* The append gate.  A reply is judged again; a referenced handoff binds the
\* author of the row it cites, or one active managed session.
validate_referenced_handoff(f) ==
    \/ f.kind = "reply" /\ MayReply(f.by, f.ref)
    \/ f.kind = "request" /\ f.to = facts[f.ref].by
    \/ f.kind = "request" /\ f.to \in active_session_records

-----------------------------------------------------------------------------
(* Commands. *)

\* `rally say handoff` without --ref: appended at once, bound to nobody.
Direct(a) ==
    /\ a \in Senders /\ RootFor
    /\ \E t \in Tools \cup {NoTool} :
          facts' = Append(facts, Row("request", a, TRUE, t, NoAgent, 0))
    /\ UNCHANGED <<draft, reaping>>

\* `rally say artifact` with an addressee and requires_ack.
Publish(a) ==
    /\ a \in Senders /\ RootFor
    /\ \E t \in Tools :
          facts' = Append(facts, Row("artifact", a, TRUE, t, NoAgent, 0))
    /\ UNCHANGED <<draft, reaping>>

\* resolve_referenced_handoff_binding, all of it before the append: a reply to
\* a handoff, or a handoff that cites an artifact and binds its author
\* (ref-author, probed if managed) or one live managed session (third-party).
Prepare(a) ==
    /\ draft[a] = NoDraft
    /\ Cardinality({b \in Parties : draft[b] # NoDraft}) < MaxDrafts
    /\ \E i \in Ids :
         \/ /\ facts[i].kind \in {"request", "reply"}
            /\ MayReply(a, i)
            /\ draft' = [draft EXCEPT ![a] =
                  Row("reply", a, TRUE, RowTool(facts[i]), facts[i].by, i)]
         \/ /\ facts[i].kind = "artifact"
            /\ \E s \in {facts[i].by} \cup Numbers :
                  /\ s \in Numbers => s \in active_session_records
                  /\ draft' = [draft EXCEPT ![a] =
                        Row("request", a, TRUE, ToolOf(s), s, i)]
    /\ UNCHANGED <<facts, reaping>>

\* The append of the prepared row: it passes the gate or nothing is written.
Submit(a) ==
    /\ draft[a] # NoDraft
    /\ draft' = [draft EXCEPT ![a] = NoDraft]
    /\ \/ /\ RoomFor
          /\ validate_referenced_handoff(draft[a])
          /\ facts' = Append(facts, draft[a])
       \/ /\ ~validate_referenced_handoff(draft[a])
          /\ UNCHANGED facts
    /\ UNCHANGED reaping

\* `rally say resolve|receipt|artifact --ref`: any session, or a binary from
\* before session ids.  No rule of the store asks who answers.
Answer(a) ==
    /\ RoomFor
    /\ \E i \in Ids, signed \in BOOLEAN :
          /\ fact_is_addressed_obligation(facts[i]) \/ facts[i].kind = "request"
          /\ facts' = Append(facts, Row("answer", a, signed, NoTool, NoAgent, i))
    /\ UNCHANGED <<draft, reaping>>

\* `rally retract`: an obligation only by its author or its addressee, never a
\* retraction, and a withdrawn row not again.
retract_in_room(a) ==
    /\ RoomFor
    /\ \E i \in Resolved :
          /\ facts[i].kind # "retract"
          /\ fact_is_addressed_obligation(facts[i])
                => ToolOf(a) \in {RowTool(facts[i]), facts[i].target}
          /\ facts' = Append(facts, Row("retract", a, TRUE, NoTool, NoAgent, i))
    /\ UNCHANGED <<draft, reaping>>

\* `rally say artifact` with the subject of a retraction reaches none of these
\* guards; the store gates it only for claims, renewals and the lead seat.
SayRetraction(a) ==
    /\ RoomFor
    /\ \E i \in Ids :
          facts' = Append(facts, Row("retract", a, TRUE, NoTool, NoAgent, i))
    /\ UNCHANGED <<draft, reaping>>

\* The reaper reads a snapshot; every open handoff in it may be past its ttl.
ReapRead ==
    /\ reaping = {}
    /\ reaping' \in SUBSET open_handoffs \ {{}}
    /\ UNCHANGED <<facts, draft>>

\* Its expiry has a stable event id: a second one is the same row.
ReapAppend ==
    /\ \E i \in reaping :
          /\ reaping' = reaping \ {i}
          /\ LET row == Row("expiry", Reaper, TRUE, NoTool, NoAgent, i) IN
             \/ row \in Range(facts) /\ UNCHANGED facts
             \/ row \notin Range(facts) /\ RoomFor /\ facts' = Append(facts, row)
    /\ UNCHANGED draft

Init ==
    /\ SessionInit
    /\ facts = <<>>
    /\ draft = [a \in Parties |-> NoDraft]
    /\ reaping = {}

HandoffNext ==
    \/ \E a \in {b \in Parties : Running(b)} :
          \/ Direct(a) \/ Publish(a) \/ Prepare(a) \/ Submit(a)
          \/ Answer(a) \/ retract_in_room(a) \/ SayRetraction(a)
    \/ ReapRead \/ ReapAppend

Next ==
    \/ SessionNext /\ Len(facts) + Len(sessions') <= MaxRows /\ UNCHANGED handoffVars
    \/ HandoffNext /\ UNCHANGED sessionVars

Spec == Init /\ [][Next]_vars

-----------------------------------------------------------------------------
(* Properties. *)

\* One receiver: every typed reply to a handoff comes from one session.  Two
\* sessions that both read an open directive, or that race a retraction of the
\* first reply, never both answer for it.
OneReceiver ==
    \A j, k \in Ids :
        /\ facts[j].kind = "reply" /\ facts[k].kind = "reply"
        /\ facts[j].ref = facts[k].ref
        => facts[j].by = facts[k].by

\* An obligation leaves the inbox of its addressee only by a row of the
\* addressed tool, of the exact session where one is bound, or by a retraction
\* that names it: no reaper, no bystander, no sender's resolve and no row of
\* an old binary clears it.
ObligationKept ==
    [][\A i \in open_obligations \ open_obligations' :
          LET c == Last(facts') IN
          /\ c.ref = i
          /\ \/ c.kind = "retract"
             \/ /\ RowTool(c) = facts[i].target
                /\ facts[i].to # NoAgent => c.by = facts[i].to]_facts
=============================================================================
