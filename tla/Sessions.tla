------------------------------ MODULE Sessions ------------------------------
(***************************************************************************)
(* Managed sessions: how `rally run` and `rally adopt` reserve a numbered  *)
(* identity and how it is given back.  A launch reads the session rows,    *)
(* picks the lowest free number and appends its reservation only if no     *)
(* session row was added in between (append_session_fact_if_context).      *)
(* Later refreshes and stops are plain appends.                            *)
(*                                                                         *)
(* The reservation lock around read and append is left out: it only removes*)
(* behaviours, and the build for systems other than unix has none          *)
(* (lib.rs, second session_reservation_lock).                              *)
(*                                                                         *)
(* The rows of the room are kept as two sequences, session rows here and   *)
(* the others in Handoffs: no reader depends on their relative order.      *)
(***************************************************************************)
EXTENDS Integers, Sequences, FiniteSets

CONSTANTS Procs,       \* processes that run `rally run` or `rally adopt`
          MaxStops     \* bound: `rally stop` and `sessions --reap` in flight

ASSUME SessionBounds == MaxStops \in Nat

Numbers == 1 .. Cardinality(Procs)

VARIABLES sessions,  \* the session rows: number and status
          launch,    \* the state of each launching process
          stops      \* session rows a stop has read and not yet tombstoned

sessionVars == <<sessions, launch, stops>>

Idle == [pc |-> "idle", seen |-> 0, num |-> 0, at |-> 0]

-----------------------------------------------------------------------------
(* Projections of the session rows. *)

\* The last row of a number decides: a "stopped" row removes the record.
active_session_records ==
    {n \in Numbers : \E i \in DOMAIN sessions :
        /\ sessions[i].num = n /\ sessions[i].status = "active"
        /\ \A j \in i + 1 .. Len(sessions) : sessions[j].num # n}

\* The highest seq of a session row.
ContextVersion == Len(sessions)

\* The lowest number that no active record uses.
next_identity_number ==
    CHOOSE n \in Numbers \ active_session_records :
        \A m \in Numbers \ active_session_records : n <= m

SessionRow(n, status) == [num |-> n, status |-> status]

-----------------------------------------------------------------------------
(* A launch. *)

\* session_facts_with_context_version and numbered_session_identity.
ReadContext(p) ==
    /\ launch[p].pc = "idle"
    /\ Numbers \ active_session_records # {}
    /\ launch' = [launch EXCEPT ![p] =
          [pc |-> "chosen", seen |-> ContextVersion,
           num |-> next_identity_number, at |-> 0]]
    /\ UNCHANGED <<sessions, stops>>

\* Mistake: only a shorter history is taken for a change.
ContextNotOlder(p) == launch[p].seen <= ContextVersion

\* The version read earlier is compared under the lock of the room.
ContextUnchanged(p) == launch[p].seen = ContextVersion

\* append_session_fact_if_context: a reservation, or NotApplied and another
\* attempt (run) or an error (adopt).
Reserve(p) ==
    /\ launch[p].pc = "chosen"
    /\ IF ContextUnchanged(p)
       THEN /\ sessions' = Append(sessions, SessionRow(launch[p].num, "active"))
            /\ launch' = [launch EXCEPT ![p].pc = "reserved",
                                        ![p].at = Len(sessions) + 1]
       ELSE /\ launch' = [launch EXCEPT ![p] = Idle]
            /\ UNCHANGED sessions
    /\ UNCHANGED stops

\* The rows that follow the reservation (admission, worktree, pane, target):
\* plain appends, whatever happened to the record meanwhile.
Refresh(p) ==
    /\ launch[p].pc = "reserved"
    /\ sessions' = Append(sessions, SessionRow(launch[p].num, "active"))
    /\ launch' = [launch EXCEPT ![p].pc = "launched"]
    /\ UNCHANGED stops

\* Admission, provisioning or the start of the backend failed.
LaunchFails(p) ==
    /\ launch[p].pc = "reserved"
    /\ sessions' = Append(sessions, SessionRow(launch[p].num, "stopped"))
    /\ launch' = [launch EXCEPT ![p] = Idle]
    /\ UNCHANGED stops

\* `rally stop` and `rally sessions --reap` find an active record ...
StopRead ==
    /\ Cardinality(stops) < MaxStops
    /\ \E n \in active_session_records \ stops : stops' = stops \cup {n}
    /\ UNCHANGED <<sessions, launch>>

\* ... and append its tombstone.
StopAppend ==
    /\ \E n \in stops :
          /\ sessions' = Append(sessions, SessionRow(n, "stopped"))
          /\ stops' = stops \ {n}
    /\ UNCHANGED launch

SessionInit ==
    /\ sessions = <<>>
    /\ launch = [p \in Procs |-> Idle]
    /\ stops = {}

SessionNext ==
    \/ \E p \in Procs : ReadContext(p) \/ Reserve(p) \/ Refresh(p) \/ LaunchFails(p)
    \/ StopRead \/ StopAppend

-----------------------------------------------------------------------------
\* A reservation that no tombstone has given back since.
Standing(p) ==
    /\ launch[p].pc \in {"reserved", "launched"}
    /\ \A i \in launch[p].at .. Len(sessions) :
          sessions[i] # SessionRow(launch[p].num, "stopped")

\* Two launches never hold one numbered identity: a number chosen from rows
\* read earlier is not taken twice, whatever launches, refreshes, failures and
\* stops run between the read and the conditional append.
IdentityExclusive ==
    \A p, q \in Procs :
        p # q /\ Standing(p) /\ Standing(q) => launch[p].num # launch[q].num

=============================================================================
