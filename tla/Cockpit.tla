------------------------------ MODULE Cockpit -------------------------------
(***************************************************************************)
(* The cockpit daemon (crates/cockpitd): it supervises agent sessions,     *)
(* stores their events, streams them to WebSocket clients and holds back   *)
(* tool calls until a client decides, or the sweep denies, the approval.   *)
(*                                                                         *)
(* Tasks: one pump per session (run_pump), one task per connection         *)
(* (handle_socket), one sweep task.  They share the supervisor's store     *)
(* under one mutex, the gates map under another, and a broadcast channel.  *)
(* An action is what a task does between two points where another task may *)
(* run.                                                                    *)
(*                                                                         *)
(* Abstractions.                                                           *)
(*  - An event is [ses, seq, kind, stored]; an approval is named by the    *)
(*    session and the seq of the event that first asked for it.            *)
(*  - The adapter's channel is what the pump may receive next; after a     *)
(*    kill the events still buffered in it are received as before.         *)
(*  - "message" is every event that passes as it is, tool calls that the   *)
(*    authorization policy permits included; "tool_call" needs approval.   *)
(*  - A TTL passes at a time nobody knows.  A row the sweep cannot update  *)
(*    stays pending and is listed again, which is no step here.            *)
(*  - The display status of a live entry and the audit log are left out,   *)
(*    and the update of the status column does not fail.                   *)
(*  - Clients keep their client_id, so a client is a principal.            *)
(***************************************************************************)
EXTENDS Integers, Sequences, FiniteSets, SequencesExt

CONSTANTS
    Sessions,     \* session ids
    Clients,      \* principals, one connection each
    MaxSeq,       \* bound on the events of a session
    MaxDecisions, \* bound on the approve commands
    Capacity,     \* of the broadcast channel (512 in the code)
    MaxErrors,    \* bound on the reads and writes of the store that fail
    None

ASSUME CockpitAssumption ==
    /\ {MaxSeq, MaxDecisions, MaxErrors} \subseteq Nat /\ Capacity \in Nat \ {0}
    /\ None \notin {"pending", "allow", "deny", "auto_denied"}

VARIABLES
    status,       \* the status column of each session, None without a row
    owner,        \* the principal that launched it
    live,         \* sessions in the supervisor's live map
    log,          \* the stored events of each session: the kind at each seq
    behind,       \* sessions whose last_seq is behind the stored events
    approvals,    \* resolution of each approval; None without a row
    gates,        \* approvals with a registered Notify
    permits,      \* those whose Notify holds a permit
    pump,         \* where each session's pump is
    sent,         \* stored events broadcast so far (history)
    allowed,      \* approvals an owner has allowed (history)
    decisions,    \* approve commands so far
    errors,       \* failed reads and writes so far
    conn,         \* each connection: its task and the stored events it was sent
    sweep         \* the sweep task

storeVars == <<status, owner, live, log, behind, approvals>>
gateVars == <<gates, permits>>
historyVars == <<sent, allowed, decisions, errors>>
vars == <<status, owner, live, log, behind, approvals, gates, permits, pump,
          sent, allowed, decisions, errors, conn, sweep>>

-----------------------------------------------------------------------------
Approval == Sessions \X (1..MaxSeq)

NoPump == [at |-> "none", seq |-> 0, ask |-> 0, native |-> FALSE]
Idle == [at |-> "recv", seq |-> 0, ask |-> 0, native |-> FALSE]
NoConn == [on |-> FALSE, queue |-> <<>>, lagged |-> FALSE, missed |-> {},
           from |-> [s \in Sessions |-> None], got |-> {}, doing |-> None]

StoredEvent(s, n) == [ses |-> s, seq |-> n, kind |-> log[s][n], stored |-> TRUE]
EventsOf(s) == {StoredEvent(s, n) : n \in DOMAIN log[s]}
Room(s) == Len(log[s]) < MaxSeq
Subscribed(c) == {s \in Sessions : conn[c].from[s] # None}

Init ==
    /\ status = [s \in Sessions |-> None] /\ owner = [s \in Sessions |-> None]
    /\ live = {} /\ log = [s \in Sessions |-> <<>>] /\ behind = {}
    /\ approvals = [a \in Approval |-> None]
    /\ gates = {} /\ permits = {}
    /\ pump = [s \in Sessions |-> NoPump]
    /\ sent = {} /\ allowed = {} /\ decisions = 0 /\ errors = 0
    /\ conn = [c \in Clients |-> NoConn]
    /\ sweep = [at |-> "tick", ids |-> {}]

\* Every connection has a receiver of the broadcast channel; one that is full
\* loses its oldest event.
broadcast(e) ==
    /\ sent' = sent \cup ({e} \cap EventsOf(e.ses))
    /\ conn' = [c \in Clients |->
         IF ~conn[c].on THEN conn[c]
         ELSE IF Len(conn[c].queue) = Capacity
              THEN [conn[c] EXCEPT !.queue = Append(Tail(@), e), !.lagged = TRUE]
              ELSE [conn[c] EXCEPT !.queue = Append(@, e)]]

StoreFails == errors < MaxErrors /\ errors' = errors + 1

\* append_event takes last_seq + 1, inserts the row and then bumps last_seq, in
\* two transactions.
InsertEvent(s, kind) == s \notin behind /\ log' = [log EXCEPT ![s] = Append(@, kind)]
append_event(s, kind) == InsertEvent(s, kind) /\ UNCHANGED <<behind, errors>>

\* It fails before the row, or after it; from then on every row of the session
\* would take a seq that is taken.
BumpFails(s, kind) == StoreFails /\ InsertEvent(s, kind) /\ behind' = behind \cup {s}
append_fails(s, kind) ==
    \/ s \in behind /\ UNCHANGED <<log, behind, errors>>
    \/ StoreFails /\ UNCHANGED <<log, behind>>
    \/ BumpFails(s, kind)

-----------------------------------------------------------------------------
(* Sessions *)

\* launch_session: the row, the child process, the live entry and the pump.
LaunchSession(c, s) ==
    /\ conn[c].on /\ conn[c].doing = None
    /\ status[s] = None
    /\ status' = [status EXCEPT ![s] = "active"]
    /\ owner' = [owner EXCEPT ![s] = c]
    /\ \/ live' = live \cup {s} /\ pump' = [pump EXCEPT ![s] = Idle]
       \/ UNCHANGED <<live, pump>>      \* the child does not start: the row stays
    /\ UNCHANGED <<log, behind, approvals, gateVars, historyVars, conn, sweep>>

\* close_session by the owner: the child is killed and the entry dropped.
kill_session(c, s) ==
    /\ conn[c].on /\ conn[c].doing = None
    /\ owner[s] = c /\ s \in live
    /\ status' = [status EXCEPT ![s] = "killed"]
    /\ live' = live \ {s}
    /\ UNCHANGED <<owner, log, behind, approvals, gateVars, pump, historyVars, conn, sweep>>

-----------------------------------------------------------------------------
(* The pump of a session *)

At(s, where) == pump[s].at = where
Goto(s, where) == pump' = [pump EXCEPT ![s].at = where]
Gate(s) == <<s, pump[s].ask>>

\* The child names its own requests, and may repeat a name.
AskedBefore(s) ==
    {n \in DOMAIN log[s] : log[s][n] = "approval_request" /\ approvals[<<s, n>>] # None}
Names(s, kind) ==
    {Len(log[s]) + 1} \cup (IF kind = "approval_request" THEN AskedBefore(s) ELSE {})

\* The adapter's next event is stored.  When append_event fails the event is
\* skipped: no step at all, or one that leaves its row behind.
PumpReceive(s, kind) ==
    /\ At(s, "recv") /\ Room(s)
    /\ \/ /\ append_event(s, kind)
          /\ \E ask \in Names(s, kind) :
               pump' = [pump EXCEPT ![s] =
                 [at |-> IF kind = "message" THEN "plain" ELSE "insert",
                  seq |-> Len(log[s]) + 1, ask |-> ask, native |-> kind = "approval_request"]]
       \/ BumpFails(s, kind) /\ pump' = pump
    /\ UNCHANGED <<status, owner, live, approvals, gateVars, sent, allowed, decisions, conn, sweep>>

\* A plain event is broadcast as stored.
PumpBroadcast(s) ==
    /\ At(s, "plain")
    /\ broadcast(StoredEvent(s, pump[s].seq))
    /\ pump' = [pump EXCEPT ![s] = Idle]
    /\ UNCHANGED <<storeVars, gateVars, allowed, decisions, errors, sweep>>

\* The approval row.  When it cannot be written (for a request whose name was
\* used before it is there already) a tool call is dropped, while the adapter's
\* own request still waits at its gate.
insert_approval(s) ==
    /\ At(s, "insert")
    /\ \/ /\ approvals[Gate(s)] = None
          /\ approvals' = [approvals EXCEPT ![Gate(s)] = "pending"]
          /\ Goto(s, "register")
          /\ errors' = errors
       \/ /\ IF approvals[Gate(s)] = None THEN StoreFails ELSE errors' = errors
          /\ approvals' = approvals
          /\ pump' = [pump EXCEPT ![s] = IF @.native THEN [@ EXCEPT !.at = "register"] ELSE Idle]
    /\ UNCHANGED <<status, owner, live, log, behind, gateVars, sent, allowed, decisions, conn, sweep>>

\* A fresh Notify under the approval's name.
RegisterGate(s) ==
    /\ At(s, "register")
    /\ gates' = gates \cup {Gate(s)} /\ permits' = permits \ {Gate(s)}
    /\ Goto(s, IF pump[s].native THEN "announce" ELSE "request")
    /\ UNCHANGED <<storeVars, historyVars, conn, sweep>>

\* For a tool call the request is an event of its own, stored (or, when that
\* fails, numbered as if it had been) and then broadcast.
StoreRequest(s) ==
    /\ At(s, "request") /\ Room(s)
    /\ \/ append_event(s, "approval_request") /\ Goto(s, "announce")
       \/ append_fails(s, "approval_request") /\ Goto(s, "pretend")
    /\ UNCHANGED <<status, owner, live, approvals, gateVars, sent, allowed, decisions, conn, sweep>>

Announce(s) ==
    /\ pump[s].at \in {"announce", "pretend"}
    /\ broadcast([ses |-> s, seq |-> pump[s].seq + (IF pump[s].native THEN 0 ELSE 1),
                  kind |-> "approval_request", stored |-> At(s, "announce")])
    /\ Goto(s, "parked")
    /\ UNCHANGED <<storeVars, gateVars, allowed, decisions, errors, sweep>>

\* notified().await returns; the gate is removed.
Wake(s) ==
    /\ At(s, "parked")
    /\ Gate(s) \in permits
    /\ permits' = permits \ {Gate(s)} /\ gates' = gates \ {Gate(s)}
    /\ Goto(s, "woken")
    /\ UNCHANGED <<storeVars, historyVars, conn, sweep>>

\* Mutant: whatever is not a client's denial lets the call through.
MayForwardUnlessDenied(a) == approvals[a] # "deny"

\* The decision is read from the store after the wake-up.
MayForward(a) == approvals[a] = "allow"

ReadResolution(s) ==
    /\ At(s, "woken")
    /\ Goto(s, IF ~MayForward(Gate(s)) THEN "deny"
               ELSE IF pump[s].native THEN "settled" ELSE "plain")
    /\ UNCHANGED <<storeVars, gateVars, historyVars, conn, sweep>>

\* The adapter's request was allowed: nothing more to send.
Settle(s) ==
    /\ At(s, "settled")
    /\ pump' = [pump EXCEPT ![s] = Idle]
    /\ UNCHANGED <<storeVars, gateVars, historyVars, conn, sweep>>

\* Denied: a tool_blocked event instead of the call, numbered after the
\* call itself when it cannot be stored.
StoreBlocked(s) ==
    /\ At(s, "deny") /\ Room(s)
    /\ \/ /\ append_event(s, "tool_blocked")
          /\ pump' = [pump EXCEPT ![s].at = "plain", ![s].seq = Len(log[s]) + 1]
       \/ append_fails(s, "tool_blocked") /\ Goto(s, "unstored")
    /\ UNCHANGED <<status, owner, live, approvals, gateVars, sent, allowed, decisions, conn, sweep>>

BroadcastBlocked(s) ==
    /\ At(s, "unstored")
    /\ broadcast([ses |-> s, seq |-> pump[s].seq + 1, kind |-> "tool_blocked", stored |-> FALSE])
    /\ pump' = [pump EXCEPT ![s] = Idle]
    /\ UNCHANGED <<storeVars, gateVars, allowed, decisions, errors, sweep>>

\* The child has closed its output: the row is marked completed or failed,
\* here "finished", whatever it said.  When the channel closes without either
\* word, row and live entry stay as they are.
PumpEnds(s) ==
    /\ At(s, "recv")
    /\ \/ status' = [status EXCEPT ![s] = "finished"] /\ live' = live \ {s}
       \/ UNCHANGED <<status, live>>
    /\ pump' = [pump EXCEPT ![s] = NoPump]
    /\ UNCHANGED <<owner, log, behind, approvals, gateVars, historyVars, conn, sweep>>

PumpStep(s) ==
    PumpBroadcast(s) \/ insert_approval(s) \/ RegisterGate(s) \/ StoreRequest(s)
    \/ Announce(s) \/ Wake(s) \/ ReadResolution(s) \/ Settle(s)
    \/ StoreBlocked(s) \/ BroadcastBlocked(s)

-----------------------------------------------------------------------------
(* Connections *)

Connect(c) ==
    /\ ~conn[c].on
    /\ conn' = [conn EXCEPT ![c] = [NoConn EXCEPT !.on = TRUE]]
    /\ UNCHANGED <<storeVars, gateVars, pump, historyVars, sweep>>

Disconnect(c) ==
    /\ conn[c].on /\ conn[c].doing = None
    /\ conn' = [conn EXCEPT ![c] = NoConn]
    /\ UNCHANGED <<storeVars, gateVars, pump, historyVars, sweep>>

\* A broadcast event goes out, with the next flush of the 50 ms window, when the
\* client follows its session.
ReceiveEvent(c) ==
    /\ conn[c].on /\ conn[c].doing = None
    /\ conn[c].queue # <<>>
    /\ LET e == Head(conn[c].queue) IN
         conn' = [conn EXCEPT ![c].queue = Tail(@),
                              ![c].got = IF e.ses \in Subscribed(c) THEN @ \cup ({e} \cap EventsOf(e.ses)) ELSE @]
    /\ UNCHANGED <<storeVars, gateVars, pump, historyVars, sweep>>

\* open_session: what is stored above from_seq is read under the lock.  A read
\* that fails gives an empty snapshot and no error.
OpenReplay(c, s, n, read) ==
    /\ conn[c].on /\ conn[c].doing = None
    /\ status[s] # None
    /\ IF read THEN errors' = errors ELSE StoreFails
    /\ conn' = [conn EXCEPT ![c].doing =
         [cmd |-> "open", ses |-> s, from |-> n, upto |-> Len(log[s]), read |-> read]]
    /\ UNCHANGED <<storeVars, gateVars, pump, sent, allowed, decisions, sweep>>

Replayed(o) == {e \in EventsOf(o.ses) : o.from < e.seq /\ e.seq <= o.upto}
InSnapshot(o) == IF o.read THEN Replayed(o) ELSE {}

\* Mutant: the receiver starts with the subscription, not with the connection.
OpenSubscribeFresh(c) ==
    /\ conn[c].doing # None /\ conn[c].doing.cmd = "open"
    /\ LET o == conn[c].doing IN
         conn' = [conn EXCEPT ![c].got = @ \cup InSnapshot(o), ![c].doing = None,
                              ![c].queue = <<>>,
                              ![c].missed = @ \cup (Replayed(o) \ InSnapshot(o)),
                              ![c].from[o.ses] = IF @ = None THEN o.from ELSE @]
    /\ UNCHANGED <<storeVars, gateVars, pump, historyVars, sweep>>

\* The snapshot is sent and the client follows the session.
OpenSubscribe(c) ==
    /\ conn[c].doing # None /\ conn[c].doing.cmd = "open"
    /\ LET k == conn[c]
           o == k.doing
           from == [k.from EXCEPT ![o.ses] = IF @ = None THEN o.from ELSE @]
           missed == k.missed \cup (Replayed(o) \ InSnapshot(o))
       IN  conn' = [conn EXCEPT ![c] = [k EXCEPT !.got = k.got \cup InSnapshot(o), !.missed = missed,
                                                 !.doing = None, !.from = from]]
    /\ UNCHANGED <<storeVars, gateVars, pump, historyVars, sweep>>

\* approve by the session's owner: the row is overwritten whatever it says ...
Approve(c, a, decision) ==
    /\ conn[c].on /\ conn[c].doing = None
    /\ approvals[a] # None /\ owner[a[1]] = c
    /\ decisions < MaxDecisions /\ decisions' = decisions + 1
    /\ approvals' = [approvals EXCEPT ![a] = decision]
    /\ allowed' = IF decision = "allow" THEN allowed \cup {a} ELSE allowed
    /\ conn' = [conn EXCEPT ![c].doing = [cmd |-> "approve", gate |-> a]]
    /\ UNCHANGED <<status, owner, live, log, behind, gateVars, pump, sent, errors, sweep>>

\* ... and the gate, if it is registered, gets a permit.
ApproveWake(c) ==
    /\ conn[c].doing # None /\ conn[c].doing.cmd = "approve"
    /\ permits' = permits \cup ({conn[c].doing.gate} \cap gates)
    /\ conn' = [conn EXCEPT ![c].doing = None]
    /\ UNCHANGED <<storeVars, gates, pump, historyVars, sweep>>

ClientStep(c) ==
    ReceiveEvent(c) \/ OpenSubscribe(c) \/ ApproveWake(c)

-----------------------------------------------------------------------------
(* The TTL sweep *)

\* The pending rows whose created_at + ttl_secs has passed are listed.  The
\* TTL counts from the adapter's time of the event, which may have waited in the
\* channel: a row may be due as soon as it is written.
SweepList(due) ==
    /\ sweep.at = "tick"
    /\ due # {} /\ \A a \in due : approvals[a] = "pending"
    /\ sweep' = [at |-> "resolve", ids |-> due]
    /\ UNCHANGED <<storeVars, gateVars, pump, historyVars, conn>>

\* The rows listed before are overwritten.
SweepResolve ==
    /\ sweep.at = "resolve"
    /\ approvals' = [a \in Approval |-> IF a \in sweep.ids THEN "auto_denied" ELSE approvals[a]]
    /\ sweep' = [sweep EXCEPT !.at = "wake"]
    /\ UNCHANGED <<status, owner, live, log, behind, gateVars, pump, historyVars, conn>>

\* Mutant: the parked pumps are not woken.
SweepWithoutWake ==
    /\ sweep.at = "wake"
    /\ permits' = permits
    /\ sweep' = [at |-> "tick", ids |-> {}]
    /\ UNCHANGED <<storeVars, gates, pump, historyVars, conn>>

SweepWake ==
    /\ sweep.at = "wake"
    /\ permits' = permits \cup (sweep.ids \cap gates)
    /\ sweep' = [at |-> "tick", ids |-> {}]
    /\ UNCHANGED <<storeVars, gates, pump, historyVars, conn>>

sweep_once ==
    (\E due \in SUBSET Approval : SweepList(due)) \/ SweepResolve \/ SweepWake

-----------------------------------------------------------------------------
(* The specification *)

\* The daemon stops and starts again: only the store survives.
Restart ==
    /\ live' = {} /\ gates' = {} /\ permits' = {}
    /\ pump' = [s \in Sessions |-> NoPump]
    /\ conn' = [c \in Clients |-> NoConn]
    /\ sweep' = [at |-> "tick", ids |-> {}]
    /\ UNCHANGED <<status, owner, log, behind, approvals, historyVars>>

Next ==
    \/ \E s \in Sessions :
        \/ \E kind \in {"message", "tool_call", "approval_request"} : PumpReceive(s, kind)
        \/ PumpStep(s)
        \/ PumpEnds(s)
    \/ \E c \in Clients :
        \/ Connect(c) \/ Disconnect(c) \/ ClientStep(c)
        \/ \E s \in Sessions :
            \/ LaunchSession(c, s) \/ kill_session(c, s)
            \/ \E n \in {0, Len(log[s])}, read \in BOOLEAN :
                 s \notin Subscribed(c) /\ OpenReplay(c, s, n, read)
        \/ \E a \in Approval, d \in {"allow", "deny"} : Approve(c, a, d)
    \/ sweep_once
    \/ Restart

Spec == Init /\ [][Next]_vars

\* The runtime polls every ready task and the clock advances.
FairSpec ==
    /\ Spec
    /\ \A s \in Sessions : WF_vars(PumpStep(s))
    /\ \A c \in Clients : WF_vars(ClientStep(c))
    /\ WF_vars(SweepResolve \/ SweepWake)
    /\ \A a \in Approval : WF_vars(\E due \in SUBSET Approval : a \in due /\ SweepList(due))

-----------------------------------------------------------------------------
(* Properties *)

\* A tool call that needs approval is broadcast only after the session's owner
\* allowed it: neither the sweep, a racing denial nor a stray permit lets one
\* through (run_pump reads the store after the wake-up).
ForwardedIsAllowed ==
    \A e \in sent : e.kind = "tool_call" => <<e.ses, e.seq>> \in allowed

\* open_session leaves no gap of its own: once a client follows a session, every
\* stored event above its from_seq that was broadcast has been sent to it or is
\* on the way, unless its receiver lagged or the event is one that a failed read
\* left out of a snapshot (ws.rs header: "no gaps").
NoGap ==
    \A c \in Clients : \A s \in Subscribed(c) : \A e \in EventsOf(s) \cap sent :
        \/ e.seq <= conn[c].from[s]
        \/ e \in conn[c].got \cup ToSet(conn[c].queue)
        \/ conn[c].lagged \/ e \in conn[c].missed

\* A pump that waits for a pending approval is released: by a decision, or by
\* the sweep once the TTL has passed.
PendingReleased ==
    \A s \in Sessions :
        At(s, "parked") /\ approvals[Gate(s)] = "pending" ~> ~At(s, "parked")
=============================================================================
