------------------------------ MODULE LeadSeat ------------------------------
(***************************************************************************)
(* The lead seat of a room and the room freeze that hangs off it           *)
(* (claim_authority.rs, write_authority.rs, the snapshot fold of store.rs, *)
(* liveness.rs, ensure_presence and set_lead in lib.rs, reaper.rs).        *)
(*                                                                         *)
(* The room is an append-only sequence of facts.  Who holds the seat, who  *)
(* is visible and which blocker freezes the room are projections of it.    *)
(* append_fact judges a fact that moves the seat under the mutation lock.  *)
(* An agent that joins and the reaper decide on the seat from a projection *)
(* they read WITHOUT the lock; anything may happen before they append.     *)
(*                                                                         *)
(* A fact's id and seq are its position.  "work" stands for the facts that *)
(* leave the three further signs of life of an agent (deliveries, code     *)
(* progress, declared work).  Time is in units of half the large reclaim   *)
(* timeout; a command outlives at most one tick.                           *)
(***************************************************************************)
EXTENDS Integers, Sequences, FiniteSets, FiniteSetsExt

CONSTANTS
    Tools,              \* agents, by the tool name they run under
    Large,              \* reclaim_large_minutes, and the reaper's bar
    Window,             \* the adaptive liveness window
    MaxFacts, MaxTime,  \* bounds
    MaxDrafts,          \* bound: commands between their snapshot and their append
    None

ASSUME LeadAssumption ==
    /\ {Large, Window, MaxFacts, MaxTime, MaxDrafts} \subseteq Nat
    /\ None \notin Tools

VARIABLES
    facts,   \* the canonical rows, in seq order
    now,     \* the clock
    draft    \* the seat decision an agent has prepared and not yet appended

vars == <<facts, now, draft>>

-----------------------------------------------------------------------------
(* Projections *)

Ids == 1 .. Len(facts)
retracted_ids == {facts[i].ref : i \in {j \in Ids : facts[j].kind = "retract"}}
Resolved == Ids \ retracted_ids

is_lead_decision(f) == f.kind \in {"lead", "relinquish"}
LeadDecisions(S) == {i \in S : is_lead_decision(facts[i])}

\* The latest decision names the lead, or reopens the seat.
lead_of(S) ==
    LET D == LeadDecisions(S) IN
    IF D = {} \/ facts[Max(D)].kind = "relinquish" THEN None ELSE facts[Max(D)].to
lead_and_epoch_of == [lead |-> lead_of(Resolved), epoch |-> Max(LeadDecisions(Resolved) \cup {0})]
projected_lead == lead_of(Resolved)
projected_lead_with_retraction(i) == lead_of(Resolved \ {i})
lead_as_of(i) == lead_of({j \in Resolved : j <= i})

\* What an agent does on its own account: a reaper's decision is the system's.
is_system_authored(f) == f.of # 0
Authored(t) == {i \in Resolved : facts[i].tool = t /\ ~is_system_authored(facts[i])}
LastSeen(t) == facts[Max(Authored(t))].at

\* Every sign of life is there and all are older than the window.
ProvablyStale(t) ==
    /\ \E i \in Authored(t) : facts[i].kind = "work"
    /\ now - LastSeen(t) > Window
squads == {t \in Tools : Authored(t) # {} /\ ~ProvablyStale(t)}

\* Unscoped blockers that nothing has closed.
Closes(f, i) == f.kind = "resolve" /\ f.ref = i
active_blockers ==
    {i \in Resolved : facts[i].kind = "blocker" /\ ~\E j \in Resolved : Closes(facts[j], i)}

\* Mutant: the author is compared with the lead of today.
FreezesByCurrentLead(i) == i \in active_blockers /\ facts[i].tool = projected_lead

\* The blockers that freeze the room: by the lead of their moment.
Freezes(i) == i \in active_blockers /\ facts[i].tool = lead_as_of(i)

-----------------------------------------------------------------------------
(* The gate of append_fact *)

\* Mutant: the reaper's word is taken for the silence of the incumbent.
SeatChangeAllowedOnSnapshot(f, incumbent) ==
    \/ f.tool = incumbent \/ f.force \/ f.of # 0
    \/ incumbent \in squads /\ now - LastSeen(incumbent) > Large

lead_is_stale(t) == t \in squads /\ now - LastSeen(t) > Large
lead_seat_change_allowed(f, incumbent) ==
    \/ f.tool = incumbent
    \/ lead_is_stale(incumbent)
    \/ f.force

assert_lead_transfer_authorized(f) ==
    \/ ~is_lead_decision(f)
    \/ projected_lead = None
    \/ lead_seat_change_allowed(f, projected_lead)

assert_lead_retraction_authorized(f) ==
    \/ f.kind # "retract"
    \/ projected_lead = None
    \/ projected_lead_with_retraction(f.ref) = projected_lead
    \/ lead_seat_change_allowed(f, projected_lead)

NewFact(kind, t) ==
    [kind |-> kind, tool |-> t, to |-> None, ref |-> 0, at |-> now, force |-> FALSE, of |-> 0]

append_fact(f) ==
    /\ Len(facts) < MaxFacts
    /\ assert_lead_transfer_authorized(f)
    /\ assert_lead_retraction_authorized(f)
    /\ facts' = Append(facts, f)

-----------------------------------------------------------------------------
(* Commands *)

Busy == {t \in Tools : draft[t] # None}
Present(t) == \E i \in Ids : facts[i].kind = "presence" /\ facts[i].tool = t
Idle(t) == draft[t] = None /\ Present(t)

Init == facts = <<>> /\ now = 0 /\ draft = [t \in Tools |-> None]

\* The first command of an agent records its presence.  If the seat was open
\* when it looked, and it may lead, it will take it.
ensure_presence(t) ==
    /\ ~Present(t) /\ draft[t] = None
    /\ append_fact(NewFact("presence", t))
    /\ \/ draft' = draft
       \/ /\ projected_lead = None /\ Cardinality(Busy) < MaxDrafts
          /\ draft' = [draft EXCEPT ![t] = [NewFact("lead", t) EXCEPT !.to = t]]
    /\ UNCHANGED now

\* lead assign or handoff, with or without --force.
set_lead(t, to, force) ==
    /\ Idle(t)
    /\ append_fact([NewFact("lead", t) EXCEPT !.to = to, !.force = force])
    /\ UNCHANGED <<now, draft>>

Relinquish(t) ==
    /\ Idle(t)
    /\ append_fact(NewFact("relinquish", t))
    /\ UNCHANGED <<now, draft>>

\* Other facts of an agent.
Say(t, kind) ==
    /\ Idle(t)
    /\ append_fact(NewFact(kind, t))
    /\ UNCHANGED <<now, draft>>

\* resolve, or another closing fact (release, receipt, claim.expired), with the
\* blocker as its ref: no gate asks whose blocker it is.
Resolve(t, i) ==
    /\ Idle(t)
    /\ facts[i].kind = "blocker"
    /\ append_fact([NewFact("resolve", t) EXCEPT !.ref = i])
    /\ UNCHANGED <<now, draft>>

\* Anything but a withdrawal may be withdrawn.
retract_in_room(t, i) ==
    /\ Idle(t)
    /\ i \in Resolved /\ facts[i].kind # "retract"
    /\ append_fact([NewFact("retract", t) EXCEPT !.ref = i])
    /\ UNCHANGED <<now, draft>>

\* The reaper, run by an agent, finds that the lead has been silent for long.
\* Its decision is named after the seat it vacates.
reap_stale_lead(t) ==
    /\ Idle(t) /\ Cardinality(Busy) < MaxDrafts
    /\ LET seat == lead_and_epoch_of IN
         /\ seat.lead \in squads /\ now - LastSeen(seat.lead) > Large
         /\ draft' = [draft EXCEPT ![t] = [NewFact("relinquish", t) EXCEPT !.of = seat.epoch]]
    /\ UNCHANGED <<facts, now>>

\* A prepared decision reaches append_fact.  One that has the name of an
\* earlier one, or that the gate refuses, is given up.
SameName(f) == f.of # 0 /\ \E i \in Ids : facts[i].of = f.of
AppendDraft(t) ==
    /\ draft[t] # None
    /\ ~SameName(draft[t])
    /\ append_fact(draft[t])
    /\ draft' = [draft EXCEPT ![t] = None]
    /\ UNCHANGED now

GiveUp(t) ==
    /\ draft[t] # None
    /\ draft' = [draft EXCEPT ![t] = None]
    /\ UNCHANGED <<facts, now>>

Tick ==
    /\ now < MaxTime
    /\ \A t \in Busy : draft[t].at = now
    /\ now' = now + 1
    /\ UNCHANGED <<facts, draft>>

Next ==
    \/ \E t \in Tools :
         \/ ensure_presence(t) \/ Relinquish(t) \/ reap_stale_lead(t)
         \/ AppendDraft(t) \/ GiveUp(t)
         \/ \E to \in Tools, force \in BOOLEAN : set_lead(t, to, force)
         \/ \E kind \in {"work", "blocker"} : Say(t, kind)
         \/ \E i \in Ids : Resolve(t, i) \/ retract_in_room(t, i)
    \/ Tick

Spec == Init /\ [][Next]_vars

-----------------------------------------------------------------------------
(* Properties *)

\* An agent that holds the seat and was heard from within the large reclaim
\* timeout loses it only by a fact of its own or by a recorded seizure: not
\* to an agent that found the seat open when it joined, not to a reaper that
\* took it for dead before it came back, and not by the retraction of a fact.
SeatKept ==
    [][\A t \in Tools :
         /\ projected_lead = t /\ (projected_lead)' # t
         /\ Authored(t) # {} /\ now - LastSeen(t) <= Large
         => facts'[Len(facts')].tool = t \/ facts'[Len(facts')].force]_vars

\* What a fact appended to the room may settle anew about the blocker i.
Reopens(f, i) ==
    \/ Closes(f, i)
    \/ /\ f.kind = "retract"
       /\ \/ f.ref = i
          \/ Closes(facts[f.ref], i)
          \/ f.ref < i /\ is_lead_decision(facts[f.ref])

\* Whether a blocker freezes the room was settled when it was written.  Until
\* it is closed or withdrawn, or its closing or an EARLIER decision on the seat
\* is withdrawn, nothing arms or disarms it: not who takes the seat later, not
\* who gives it up, not the withdrawal of a later appointment.
FreezeSettled ==
    [][\A i \in Ids :
         (Freezes(i) <=> (Freezes(i))') \/ Reopens(facts'[Len(facts')], i)]_vars

\* A lead that has been silent past the large reclaim timeout can be replaced
\* without force: a crash does not keep the seat.
SeatRecoverable ==
    projected_lead # None /\ Authored(projected_lead) # {}
    /\ now - LastSeen(projected_lead) > Large => lead_is_stale(projected_lead)
=============================================================================
