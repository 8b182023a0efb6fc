--------------------------- MODULE Cockpit_proofs ---------------------------
(***************************************************************************)
(* Proofs about Cockpit: for any number of sessions, clients, events and   *)
(* decisions, and any capacity of the broadcast channel, a tool call that  *)
(* needs approval is broadcast only after it was allowed, and open_session *)
(* leaves no gap but what a failed read left out.                          *)
(***************************************************************************)
EXTENDS Cockpit, TLAPS

-----------------------------------------------------------------------------
(* Approvals: the inductive invariant *)

Kinds == {"message", "tool_call", "approval_request", "tool_blocked"}
Places ==
    {"none", "recv", "plain", "insert", "register", "request", "announce", "pretend", "parked",
     "woken", "settled", "deny", "unstored"}
PumpStates == [at : Places, seq : Nat, ask : Nat, native : BOOLEAN]
Resolutions == {None, "pending", "allow", "deny", "auto_denied"}

GateTypes ==
    /\ log \in [Sessions -> Seq(Kinds)]
    /\ pump \in [Sessions -> PumpStates]
    /\ approvals \in [Approval -> Resolutions]

\* A pump that works on an event works on a stored one, and asks for a tool
\* call under its own name.
AtEvent(p, rows) ==
    /\ p.seq \in 1 .. Len(rows) /\ p.ask \in 1 .. Len(rows)
    /\ rows[p.seq] = "tool_call" => p.ask = p.seq
PumpAtEvent ==
    \A s \in Sessions :
        /\ Len(log[s]) <= MaxSeq
        /\ pump[s].at \notin {"none", "recv"} => AtEvent(pump[s], log[s])

\* The row says "allow" only if the owner said so.
AllowRecorded == \A a \in Approval : approvals[a] = "allow" => a \in allowed

\* A pump about to broadcast a stored tool call has an allowed one.
PlainAllowed ==
    \A s \in Sessions :
        At(s, "plain") /\ log[s][pump[s].seq] = "tool_call" => Gate(s) \in allowed

GateInv ==
    /\ GateTypes
    /\ PumpAtEvent
    /\ AllowRecorded
    /\ PlainAllowed
    /\ ForwardedIsAllowed

\* What the row of append_event does to the log of one session.
LEMMA AppendEvent ==
    ASSUME log \in [Sessions -> Seq(Kinds)], NEW s \in Sessions, NEW kind \in Kinds,
           InsertEvent(s, kind)
    PROVE  /\ log' \in [Sessions -> Seq(Kinds)]
           /\ Len(log[s]) \in Nat /\ Len(log'[s]) = Len(log[s]) + 1
           /\ \A n \in 1 .. Len(log[s]) : log'[s][n] = log[s][n]
           /\ log'[s][Len(log[s]) + 1] = kind
           /\ \A t \in Sessions \ {s} : log'[t] = log[t]
  BY DEF InsertEvent

\* A pump is set to a state.
LEMMA PumpSet ==
    ASSUME pump \in [Sessions -> PumpStates], NEW s \in Sessions, NEW r \in PumpStates,
           pump' = [pump EXCEPT ![s] = r]
    PROVE  /\ pump' \in [Sessions -> PumpStates]
           /\ pump'[s] = r
           /\ \A t \in Sessions \ {s} : pump'[t] = pump[t]
  OBVIOUS

\* A pump goes on with the same event.
LEMMA PumpGoes ==
    ASSUME pump \in [Sessions -> PumpStates], NEW s \in Sessions, NEW where \in Places,
           Goto(s, where)
    PROVE  /\ pump' \in [Sessions -> PumpStates]
           /\ pump'[s].at = where /\ pump'[s].seq = pump[s].seq /\ pump'[s].ask = pump[s].ask
           /\ \A t \in Sessions \ {s} : pump'[t] = pump[t]
  BY DEF Goto, PumpStates

\* A pump turns to the event numbered n.
LEMMA PumpTurns ==
    ASSUME pump \in [Sessions -> PumpStates], NEW s \in Sessions, NEW n \in Nat,
           pump' = [pump EXCEPT ![s].at = "plain", ![s].seq = n]
    PROVE  /\ pump' \in [Sessions -> PumpStates]
           /\ pump'[s].seq = n /\ pump'[s].ask = pump[s].ask
           /\ \A t \in Sessions \ {s} : pump'[t] = pump[t]
  BY DEF PumpStates, Places

\* A pump without a session and one that waits for an event.
LEMMA PumpRests ==
    NoPump \in PumpStates /\ Idle \in PumpStates /\ NoPump.at = "none" /\ Idle.at = "recv"
  BY DEF NoPump, Idle, PumpStates, Places

\* A step of the pump of s that leaves the log alone and forwards nothing.
LEMMA PumpMoves ==
    ASSUME GateInv, NEW s \in Sessions,
           log' = log, approvals' = approvals, sent' = sent, allowed' = allowed,
           pump' \in [Sessions -> PumpStates],
           \A t \in Sessions \ {s} : pump'[t] = pump[t],
           \/ pump'[s].at \in {"none", "recv"}
           \/ /\ pump[s].at \notin {"none", "recv"}
              /\ pump'[s].seq = pump[s].seq /\ pump'[s].ask = pump[s].ask,
           pump'[s].at = "plain" => Gate(s) \in allowed
    PROVE  GateInv'
<1> USE DEF GateInv, At
<1>1. PumpAtEvent'
  BY DEF PumpAtEvent, AtEvent
<1>2. PlainAllowed'
  BY DEF PlainAllowed, Gate
<1> QED BY <1>1, <1>2 DEF GateTypes, AllowRecorded, ForwardedIsAllowed

\* A step of the pump of s that leaves a new row.
LEMMA PumpStores ==
    ASSUME GateInv, NEW s \in Sessions, NEW kind \in Kinds, Room(s), InsertEvent(s, kind),
           approvals' = approvals, sent' = sent, allowed' = allowed,
           pump' \in [Sessions -> PumpStates],
           \A t \in Sessions \ {s} : pump'[t] = pump[t],
           \/ pump'[s].at \in {"none", "recv"}
           \/ /\ pump'[s].seq = Len(log[s]) + 1 /\ pump'[s].ask \in 1 .. Len(log[s]) + 1
              /\ kind = "tool_call" => pump'[s].ask = Len(log[s]) + 1
           \/ /\ pump[s].at \notin {"none", "recv"}
              /\ pump'[s].seq = pump[s].seq /\ pump'[s].ask = pump[s].ask,
           pump'[s].at = "plain" => kind # "tool_call" /\ pump'[s].seq = Len(log[s]) + 1
    PROVE  GateInv'
<1> USE DEF GateInv, At
<1>1. /\ log' \in [Sessions -> Seq(Kinds)]
      /\ Len(log[s]) \in Nat /\ Len(log'[s]) = Len(log[s]) + 1
      /\ \A n \in 1 .. Len(log[s]) : log'[s][n] = log[s][n]
      /\ log'[s][Len(log[s]) + 1] = kind
      /\ \A t \in Sessions \ {s} : log'[t] = log[t]
  BY AppendEvent DEF GateTypes
<1>2. PumpAtEvent'
  <2> SUFFICES ASSUME NEW t \in Sessions
               PROVE  /\ Len(log'[t]) <= MaxSeq
                      /\ pump'[t].at \notin {"none", "recv"} => AtEvent(pump'[t], log'[t])
    BY DEF PumpAtEvent, AtEvent
  <2>1. CASE t = s
    <3>1. Len(log'[s]) <= MaxSeq
      BY <1>1, CockpitAssumption DEF Room
    <3>2. ASSUME pump'[s].at \notin {"none", "recv"} PROVE AtEvent(pump'[s], log'[s])
      <4>1. CASE pump[s].at \notin {"none", "recv"}
                 /\ pump'[s].seq = pump[s].seq /\ pump'[s].ask = pump[s].ask
        <5>1. AtEvent(pump[s], log[s])
          BY <4>1 DEF PumpAtEvent
        <5> QED BY <1>1, <4>1, <5>1 DEF AtEvent
      <4>2. CASE /\ pump'[s].seq = Len(log[s]) + 1 /\ pump'[s].ask \in 1 .. Len(log[s]) + 1
                 /\ kind = "tool_call" => pump'[s].ask = Len(log[s]) + 1
        BY <1>1, <4>2 DEF AtEvent
      <4> QED BY <3>2, <4>1, <4>2
    <3> QED BY <2>1, <3>1, <3>2
  <2>2. CASE t # s
    BY <1>1, <2>2 DEF PumpAtEvent
  <2> QED BY <2>1, <2>2
<1>3. PlainAllowed'
  BY <1>1 DEF PlainAllowed, Gate
<1> QED BY <1>1, <1>2, <1>3 DEF GateTypes, AllowRecorded, ForwardedIsAllowed

\* A step that leaves pumps, log and approvals alone, or stops pumps.
LEMMA GateUntouched ==
    ASSUME GateInv, log' = log, approvals' = approvals, sent' = sent, allowed' = allowed,
           pump' \in [Sessions -> PumpStates],
           \A s \in Sessions : pump'[s] = pump[s] \/ pump'[s].at \in {"none", "recv"}
    PROVE  GateInv'
<1> USE DEF GateInv, At
<1>1. PumpAtEvent'
  BY DEF PumpAtEvent, AtEvent
<1>2. PlainAllowed'
  BY DEF PlainAllowed, Gate
<1> QED BY <1>1, <1>2 DEF GateTypes, AllowRecorded, ForwardedIsAllowed

\* A broadcast of what is no tool call, or of an allowed one.
LEMMA PumpSends ==
    ASSUME GateInv, NEW s \in Sessions, NEW e, broadcast(e),
           e.kind = "tool_call" => <<e.ses, e.seq>> \in allowed,
           log' = log, approvals' = approvals, allowed' = allowed,
           pump' \in [Sessions -> PumpStates],
           \A t \in Sessions \ {s} : pump'[t] = pump[t],
           \/ pump'[s].at \in {"none", "recv"}
           \/ /\ pump[s].at \notin {"none", "recv"} /\ pump'[s].at # "plain"
              /\ pump'[s].seq = pump[s].seq /\ pump'[s].ask = pump[s].ask
    PROVE  GateInv'
<1> USE DEF GateInv, At
<1>1. ForwardedIsAllowed'
  BY DEF broadcast, ForwardedIsAllowed
<1>2. PumpAtEvent'
  BY DEF PumpAtEvent, AtEvent
<1>3. PlainAllowed'
  BY DEF PlainAllowed, Gate
<1> QED BY <1>1, <1>2, <1>3 DEF GateTypes, AllowRecorded

\* The approval of the event a pump works on is one of Approval.
LEMMA GateIsApproval ==
    ASSUME GateInv, NEW s \in Sessions, pump[s].at \notin {"none", "recv"}
    PROVE  Gate(s) \in Approval
<1>1. pump[s].ask \in 1 .. MaxSeq
  <2>1. Len(log[s]) \in Nat
    BY DEF GateInv, GateTypes
  <2> QED BY <2>1, CockpitAssumption DEF GateInv, PumpAtEvent, AtEvent
<1> QED BY <1>1 DEF Gate, Approval

\* Every step preserves GateInv.
LEMMA GateInvStep ==
    ASSUME GateInv, [Next]_vars
    PROVE  GateInv'
<1> USE DEF storeVars, gateVars, historyVars, At
<1>t. GateTypes
  BY DEF GateInv
<1>0. CASE UNCHANGED vars
  BY <1>0, <1>t, GateUntouched DEF vars, GateTypes
<1>1. ASSUME NEW s \in Sessions, NEW kind \in {"message", "tool_call", "approval_request"},
             PumpReceive(s, kind)
      PROVE  GateInv'
  <2>1. Len(log[s]) \in Nat /\ DOMAIN log[s] = 1 .. Len(log[s]) /\ kind \in Kinds
    BY <1>t DEF GateTypes, Kinds
  <2>2. UNCHANGED <<approvals, sent, allowed>> /\ Room(s)
    BY <1>1 DEF PumpReceive
  <2>3. ASSUME InsertEvent(s, kind), NEW ask \in Names(s, kind),
               pump' = [pump EXCEPT ![s] =
                 [at |-> IF kind = "message" THEN "plain" ELSE "insert",
                  seq |-> Len(log[s]) + 1, ask |-> ask, native |-> kind = "approval_request"]]
        PROVE  GateInv'
    <3>1. ask \in 1 .. Len(log[s]) + 1 /\ (kind = "tool_call" => ask = Len(log[s]) + 1)
      BY <2>1 DEF Names, AskedBefore
    <3> DEFINE p == [at |-> IF kind = "message" THEN "plain" ELSE "insert",
                     seq |-> Len(log[s]) + 1, ask |-> ask, native |-> kind = "approval_request"]
    <3>2. p \in PumpStates /\ p.seq = Len(log[s]) + 1 /\ p.ask = ask
          /\ (p.at = "plain" => kind # "tool_call")
      BY <2>1, <3>1 DEF PumpStates, Places
    <3>3. pump' = [pump EXCEPT ![s] = p]
      BY <2>3
    <3> HIDE DEF p
    <3>4. /\ pump' \in [Sessions -> PumpStates]
          /\ \A t \in Sessions \ {s} : pump'[t] = pump[t]
          /\ pump'[s] = p
      BY <1>t, <3>2, <3>3, PumpSet DEF GateTypes
    <3> QED BY <2>1, <2>2, <2>3, <3>1, <3>2, <3>4, PumpStores
  <2>4. ASSUME InsertEvent(s, kind), pump' = pump PROVE GateInv'
    <3>1. pump[s].at = "recv" /\ pump' \in [Sessions -> PumpStates]
      BY <1>1, <1>t, <2>4 DEF PumpReceive, GateTypes
    <3> QED BY <2>1, <2>2, <2>4, <3>1, PumpStores
  <2> QED BY <1>1, <2>3, <2>4 DEF PumpReceive, append_event, BumpFails
<1>2. ASSUME NEW s \in Sessions, PumpBroadcast(s) PROVE GateInv'
  <2> DEFINE e == StoredEvent(s, pump[s].seq)
  <2>1. e.kind = "tool_call" => <<e.ses, e.seq>> \in allowed
    BY <1>2 DEF StoredEvent, PumpBroadcast, GateInv, PlainAllowed, Gate, PumpAtEvent, AtEvent
  <2>2. broadcast(e)
    BY <1>2 DEF PumpBroadcast
  <2>3. /\ pump' \in [Sessions -> PumpStates]
        /\ \A t \in Sessions \ {s} : pump'[t] = pump[t]
        /\ pump'[s].at = "recv"
    BY <1>2, <1>t, PumpSet, PumpRests DEF PumpBroadcast, GateTypes
  <2> HIDE DEF e
  <2> QED BY <1>2, <2>1, <2>2, <2>3, PumpSends DEF PumpBroadcast
<1>3. ASSUME NEW s \in Sessions, insert_approval(s) PROVE GateInv'
  <2>1. Gate(s) \in Approval
    BY <1>3, GateIsApproval DEF insert_approval
  <2>2. /\ pump' \in [Sessions -> PumpStates]
        /\ \A t \in Sessions \ {s} : pump'[t] = pump[t]
        /\ pump'[s].at \in {"recv", "register"}
        /\ pump'[s].at = "register" => pump'[s].seq = pump[s].seq /\ pump'[s].ask = pump[s].ask
    <3>1. CASE Goto(s, "register")
      BY <1>t, <3>1, PumpGoes DEF GateTypes, Places
    <3>2. CASE pump' = [pump EXCEPT ![s] = IF @.native THEN [@ EXCEPT !.at = "register"] ELSE Idle]
      <4>1. CASE pump[s].native
        <5>1. pump' = [pump EXCEPT ![s] = [pump[s] EXCEPT !.at = "register"]]
          BY <3>2, <4>1
        <5>2. Goto(s, "register")
          BY <5>1 DEF Goto
        <5> QED BY <3>1, <5>2
      <4>2. CASE ~pump[s].native
        BY <1>t, <3>2, <4>2, PumpSet, PumpRests DEF GateTypes
      <4> QED BY <4>1, <4>2
    <3> QED BY <1>3, <3>1, <3>2 DEF insert_approval
  <2>3. approvals' \in [Approval -> Resolutions]
        /\ \A a \in Approval : approvals'[a] = "allow" => approvals[a] = "allow"
    BY <1>3, <1>t, <2>1 DEF insert_approval, GateTypes, Resolutions
  <2>4. log' = log /\ sent' = sent /\ allowed' = allowed
    BY <1>3 DEF insert_approval
  <2>5. PumpAtEvent' /\ PlainAllowed'
    BY <1>3, <2>2, <2>4 DEF insert_approval, GateInv, PumpAtEvent, AtEvent, PlainAllowed, Gate
  <2> QED BY <1>t, <2>2, <2>3, <2>4, <2>5 DEF GateInv, GateTypes, AllowRecorded, ForwardedIsAllowed
<1>4. ASSUME NEW s \in Sessions, RegisterGate(s) \/ Wake(s) PROVE GateInv'
  <2>1. /\ pump' \in [Sessions -> PumpStates]
        /\ \A t \in Sessions \ {s} : pump'[t] = pump[t]
        /\ pump'[s].seq = pump[s].seq /\ pump'[s].ask = pump[s].ask
        /\ pump'[s].at \in {"announce", "request", "woken"}
        /\ pump[s].at \notin {"none", "recv"}
    BY <1>4, <1>t, PumpGoes DEF RegisterGate, Wake, GateTypes, Places
  <2> QED BY <1>4, <2>1, PumpMoves DEF RegisterGate, Wake
<1>5. ASSUME NEW s \in Sessions, StoreRequest(s) PROVE GateInv'
  <2>1. /\ pump' \in [Sessions -> PumpStates]
        /\ \A t \in Sessions \ {s} : pump'[t] = pump[t]
        /\ pump'[s].seq = pump[s].seq /\ pump'[s].ask = pump[s].ask
        /\ pump'[s].at \in {"announce", "pretend"}
        /\ pump[s].at \notin {"none", "recv"}
    BY <1>5, <1>t, PumpGoes DEF StoreRequest, GateTypes, Places
  <2>2. CASE InsertEvent(s, "approval_request")
    BY <1>5, <2>1, <2>2, PumpStores DEF StoreRequest, Kinds
  <2>3. CASE log' = log
    BY <1>5, <2>1, <2>3, PumpMoves DEF StoreRequest
  <2> QED BY <1>5, <2>2, <2>3 DEF StoreRequest, append_event, append_fails, BumpFails
<1>6. ASSUME NEW s \in Sessions, Announce(s) PROVE GateInv'
  <2> DEFINE e == [ses |-> s, seq |-> pump[s].seq + (IF pump[s].native THEN 0 ELSE 1),
                   kind |-> "approval_request", stored |-> At(s, "announce")]
  <2>1. e.kind # "tool_call" /\ broadcast(e)
    BY <1>6 DEF Announce
  <2>2. /\ pump' \in [Sessions -> PumpStates]
        /\ \A t \in Sessions \ {s} : pump'[t] = pump[t]
        /\ pump'[s].seq = pump[s].seq /\ pump'[s].ask = pump[s].ask /\ pump'[s].at = "parked"
        /\ pump[s].at \notin {"none", "recv"}
    BY <1>6, <1>t, PumpGoes DEF Announce, GateTypes, Places
  <2> HIDE DEF e
  <2> QED BY <1>6, <2>1, <2>2, PumpSends DEF Announce
<1>7. ASSUME NEW s \in Sessions, ReadResolution(s) PROVE GateInv'
  <2>1. /\ pump' \in [Sessions -> PumpStates]
        /\ \A t \in Sessions \ {s} : pump'[t] = pump[t]
        /\ pump'[s].seq = pump[s].seq /\ pump'[s].ask = pump[s].ask
        /\ pump'[s].at = "plain" => approvals[Gate(s)] = "allow"
        /\ pump[s].at \notin {"none", "recv"}
    BY <1>7, <1>t, PumpGoes DEF ReadResolution, GateTypes, Places, MayForward
  <2>2. pump'[s].at = "plain" => Gate(s) \in allowed
    BY <2>1, GateIsApproval DEF GateInv, AllowRecorded
  <2> QED BY <1>7, <2>1, <2>2, PumpMoves DEF ReadResolution
<1>8. ASSUME NEW s \in Sessions, Settle(s) \/ PumpEnds(s) PROVE GateInv'
  <2>1. /\ pump' \in [Sessions -> PumpStates]
        /\ \A t \in Sessions : pump'[t] = pump[t] \/ pump'[t].at \in {"none", "recv"}
    BY <1>8, <1>t, PumpSet, PumpRests DEF Settle, PumpEnds, GateTypes
  <2> QED BY <1>8, <2>1, GateUntouched DEF Settle, PumpEnds
<1>9. ASSUME NEW s \in Sessions, StoreBlocked(s) PROVE GateInv'
  <2>0. Len(log[s]) \in Nat
    BY <1>t DEF GateTypes
  <2>1. pump[s] \in PumpStates /\ pump[s].at = "deny" /\ "plain" \in Places /\ AtEvent(pump[s], log[s])
    BY <1>9, <1>t DEF StoreBlocked, GateTypes, Places, GateInv, PumpAtEvent
  <2>2. CASE InsertEvent(s, "tool_blocked")
             /\ pump' = [pump EXCEPT ![s].at = "plain", ![s].seq = Len(log[s]) + 1]
    <3>1. Len(log[s]) + 1 \in Nat
      BY <2>0
    <3>2. /\ pump' \in [Sessions -> PumpStates]
          /\ pump'[s].seq = Len(log[s]) + 1 /\ pump'[s].ask = pump[s].ask
          /\ \A t \in Sessions \ {s} : pump'[t] = pump[t]
      BY <1>t, <2>2, <3>1, PumpTurns DEF GateTypes
    <3>3. pump[s].ask \in 1 .. Len(log[s]) + 1
      BY <2>0, <2>1 DEF AtEvent
    <3> QED BY <1>9, <2>0, <2>2, <3>2, <3>3, PumpStores DEF StoreBlocked, Kinds
  <2>3. CASE Goto(s, "unstored")
    <3>1. /\ pump' \in [Sessions -> PumpStates]
          /\ \A t \in Sessions \ {s} : pump'[t] = pump[t]
          /\ pump'[s].seq = pump[s].seq /\ pump'[s].ask = pump[s].ask /\ pump'[s].at = "unstored"
      BY <1>t, <2>3, PumpGoes DEF GateTypes, Places
    <3>2. CASE log' = log
      BY <1>9, <2>1, <3>1, <3>2, PumpMoves DEF StoreBlocked
    <3>3. CASE InsertEvent(s, "tool_blocked")
      BY <1>9, <2>1, <3>1, <3>3, PumpStores DEF StoreBlocked, Kinds
    <3> QED BY <1>9, <2>3, <3>2, <3>3 DEF StoreBlocked, append_event, append_fails, BumpFails
  <2> QED BY <1>9, <2>2, <2>3 DEF StoreBlocked, append_event
<1>10. ASSUME NEW s \in Sessions, BroadcastBlocked(s) PROVE GateInv'
  <2> DEFINE e == [ses |-> s, seq |-> pump[s].seq + 1, kind |-> "tool_blocked", stored |-> FALSE]
  <2>1. e.kind # "tool_call" /\ broadcast(e)
    BY <1>10 DEF BroadcastBlocked
  <2>2. /\ pump' \in [Sessions -> PumpStates]
        /\ \A t \in Sessions \ {s} : pump'[t] = pump[t]
        /\ pump'[s].at = "recv"
    BY <1>10, <1>t, PumpSet, PumpRests DEF BroadcastBlocked, GateTypes
  <2> HIDE DEF e
  <2> QED BY <1>10, <2>1, <2>2, PumpSends DEF BroadcastBlocked
<1>11. ASSUME NEW c \in Clients, ClientStep(c) \/ Connect(c) \/ Disconnect(c) PROVE GateInv'
  <2>1. UNCHANGED <<log, approvals, sent, allowed, pump>>
    BY <1>11 DEF ClientStep, ReceiveEvent, OpenSubscribe, ApproveWake, Connect, Disconnect
  <2> QED BY <1>t, <2>1, GateUntouched DEF GateTypes
<1>12. ASSUME NEW c \in Clients, NEW s \in Sessions, LaunchSession(c, s) PROVE GateInv'
  <2>1. /\ pump' \in [Sessions -> PumpStates]
        /\ \A t \in Sessions : pump'[t] = pump[t] \/ pump'[t].at \in {"none", "recv"}
    BY <1>12, <1>t, PumpSet, PumpRests DEF LaunchSession, GateTypes
  <2> QED BY <1>12, <2>1, GateUntouched DEF LaunchSession
<1>13. ASSUME NEW c \in Clients, NEW s \in Sessions, NEW n, NEW read,
             kill_session(c, s) \/ OpenReplay(c, s, n, read)
       PROVE  GateInv'
  <2>1. UNCHANGED <<log, approvals, sent, allowed, pump>>
    BY <1>13 DEF kill_session, OpenReplay
  <2> QED BY <1>t, <2>1, GateUntouched DEF GateTypes
<1>14. ASSUME NEW c \in Clients, NEW a \in Approval, NEW d \in {"allow", "deny"}, Approve(c, a, d)
       PROVE  GateInv'
  <2>1. UNCHANGED <<log, sent, pump>> /\ allowed \subseteq allowed'
    BY <1>14 DEF Approve
  <2>2. approvals' \in [Approval -> Resolutions] /\ AllowRecorded'
    BY <1>14, <1>t DEF Approve, GateInv, GateTypes, AllowRecorded, Resolutions
  <2> QED BY <1>t, <2>1, <2>2 DEF GateInv, GateTypes, PumpAtEvent, PlainAllowed, Gate, ForwardedIsAllowed
<1>15. ASSUME sweep_once PROVE GateInv'
  <2>1. UNCHANGED <<log, sent, allowed, pump>>
    BY <1>15 DEF sweep_once, SweepList, SweepResolve, SweepWake
  <2>2. approvals' \in [Approval -> Resolutions] /\ AllowRecorded'
    BY <1>15, <1>t DEF sweep_once, SweepList, SweepResolve, SweepWake, GateInv, GateTypes,
       AllowRecorded, Resolutions
  <2> QED BY <1>t, <2>1, <2>2 DEF GateInv, GateTypes, PumpAtEvent, PlainAllowed, Gate, ForwardedIsAllowed
<1>16. ASSUME Restart PROVE GateInv'
  <2>1. /\ pump' \in [Sessions -> PumpStates]
        /\ \A t \in Sessions : pump'[t].at = "none"
    BY <1>16, PumpRests DEF Restart
  <2> QED BY <1>16, <2>1, GateUntouched DEF Restart
<1> QED
  BY <1>0, <1>1, <1>2, <1>3, <1>4, <1>5, <1>6, <1>7, <1>8, <1>9, <1>10, <1>11, <1>12, <1>13, <1>14,
     <1>15, <1>16 DEF Next, PumpStep

\* GateInv holds in every reachable state.
THEOREM GateInvHolds == Spec => []GateInv
<1>1. Init => GateInv
  <2> SUFFICES ASSUME Init PROVE GateInv
    OBVIOUS
  <2>1. GateTypes
    BY PumpRests DEF Init, GateTypes, Resolutions
  <2>2. \A s \in Sessions : pump[s].at = "none" /\ Len(log[s]) = 0
    BY PumpRests DEF Init
  <2> QED BY <2>1, <2>2, CockpitAssumption
          DEF Init, GateInv, PumpAtEvent, AllowRecorded, PlainAllowed, ForwardedIsAllowed, At
<1> QED BY <1>1, GateInvStep, PTL DEF Spec

\* For any number of sessions, clients and decisions, run_pump broadcasts a tool
\* call that needs approval only after the owner of its session allowed it.
THEOREM ForwardedIsAllowedHolds == Spec => []ForwardedIsAllowed
<1>1. GateInv => ForwardedIsAllowed
  BY DEF GateInv
<1> QED BY <1>1, GateInvHolds, PTL

-----------------------------------------------------------------------------
(* Replay: the inductive invariant *)

Events == [ses : Sessions, seq : Nat, kind : Kinds, stored : BOOLEAN]
Opening == [cmd : {"open"}, ses : Sessions, from : Nat, upto : Nat, read : BOOLEAN]
Approving == [cmd : {"approve"}, gate : Approval]
Connection ==
    [on : BOOLEAN, queue : Seq(Events), lagged : BOOLEAN, from : [Sessions -> Nat \cup {None}],
     got : SUBSET Events, missed : SUBSET Events, doing : {None} \cup Opening \cup Approving]

\* What was broadcast is stored.
SentStored == sent \subseteq Events /\ \A e \in sent : e \in EventsOf(e.ses)

\* A connection has, or will be handed, what was broadcast of a session it
\* follows above its from_seq, unless a failed read left it out ...
Follows(k, s) ==
    \A e \in sent : e.ses = s =>
        e.seq <= k.from[s] \/ e \in k.got \/ e \in ToSet(k.queue) \/ k.lagged \/ e \in k.missed

\* ... and while it opens one, what was broadcast is in the replay or behind it.
Replays(k, o) ==
    \A e \in sent : e.ses = o.ses => e.seq <= o.upto \/ e \in ToSet(k.queue) \/ k.lagged

\* A connection that is down follows and does nothing.
ConnKept(k) ==
    /\ \A s \in Sessions : k.from[s] # None => k.on /\ Follows(k, s)
    /\ k.doing # None => k.on /\ (k.doing.cmd = "open" => Replays(k, k.doing))

GapInv ==
    /\ conn \in [Clients -> Connection]
    /\ SentStored
    /\ \A c \in Clients : ConnKept(conn[c])

\* The queue of a connection gains an event at its end and loses its first.
LEMMA QueueSets ==
    ASSUME NEW q \in Seq(Events)
    PROVE  /\ \A e \in Events : Append(q, e) \in Seq(Events) /\ ToSet(Append(q, e)) = ToSet(q) \cup {e}
           /\ q # <<>> => /\ Tail(q) \in Seq(Events) /\ Head(q) \in Events
                          /\ ToSet(q) = {Head(q)} \cup ToSet(Tail(q))
<1>1. ASSUME NEW e \in Events
      PROVE  Append(q, e) \in Seq(Events) /\ ToSet(Append(q, e)) = ToSet(q) \cup {e}
  <2> DEFINE r == Append(q, e)
  <2>1. /\ r \in Seq(Events) /\ Len(q) \in Nat /\ DOMAIN q = 1 .. Len(q)
        /\ DOMAIN r = 1 .. Len(q) + 1
        /\ \A i \in 1 .. Len(q) : r[i] = q[i]
        /\ r[Len(q) + 1] = e
    OBVIOUS
  <2> HIDE DEF r
  <2>2. ToSet(r) \subseteq ToSet(q) \cup {e}
    <3> SUFFICES ASSUME NEW i \in 1 .. Len(q) + 1 PROVE r[i] \in ToSet(q) \cup {e}
      BY <2>1 DEF ToSet
    <3>1. CASE i \in 1 .. Len(q)
      BY <2>1, <3>1 DEF ToSet
    <3>2. CASE i = Len(q) + 1
      BY <2>1, <3>2
    <3> QED BY <2>1, <3>1, <3>2
  <2>3. ToSet(q) \cup {e} \subseteq ToSet(r)
    <3>1. ASSUME NEW i \in 1 .. Len(q) PROVE q[i] \in ToSet(r)
      <4>1. i \in DOMAIN r /\ r[i] = q[i]
        BY <2>1
      <4> QED BY <4>1 DEF ToSet
    <3>2. e \in ToSet(r)
      <4>1. Len(q) + 1 \in DOMAIN r
        BY <2>1
      <4> QED BY <2>1, <4>1 DEF ToSet
    <3> QED BY <2>1, <3>1, <3>2 DEF ToSet
  <2>4. r \in Seq(Events) /\ ToSet(r) = ToSet(q) \cup {e}
    BY <2>1, <2>2, <2>3
  <2> QED BY <2>4 DEF r
<1>2. ASSUME q # <<>>
      PROVE  /\ Tail(q) \in Seq(Events) /\ Head(q) \in Events
             /\ ToSet(q) = {Head(q)} \cup ToSet(Tail(q))
  <2>1. /\ Tail(q) \in Seq(Events) /\ Head(q) = q[1] /\ Len(q) \in Nat /\ Len(q) >= 1
        /\ Len(Tail(q)) = Len(q) - 1 /\ \A i \in 1 .. Len(q) - 1 : Tail(q)[i] = q[i + 1]
        /\ DOMAIN q = 1 .. Len(q) /\ DOMAIN Tail(q) = 1 .. Len(q) - 1
    BY <1>2
  <2>2. ToSet(q) \subseteq {Head(q)} \cup ToSet(Tail(q))
    <3> SUFFICES ASSUME NEW i \in 1 .. Len(q) PROVE q[i] \in {Head(q)} \cup ToSet(Tail(q))
      BY <2>1 DEF ToSet
    <3>1. CASE i = 1
      BY <2>1, <3>1
    <3>2. CASE i # 1
      <4>1. i - 1 \in 1 .. Len(q) - 1 /\ (i - 1) + 1 = i
        BY <2>1, <3>2
      <4>2. Tail(q)[i - 1] = q[i]
        BY <2>1, <4>1
      <4> QED BY <2>1, <4>1, <4>2 DEF ToSet
    <3> QED BY <3>1, <3>2
  <2>3. {Head(q)} \cup ToSet(Tail(q)) \subseteq ToSet(q)
    <3>1. Head(q) \in ToSet(q)
      BY <2>1 DEF ToSet
    <3>2. ASSUME NEW i \in 1 .. Len(q) - 1 PROVE Tail(q)[i] \in ToSet(q)
      <4>1. i + 1 \in 1 .. Len(q)
        BY <2>1
      <4> QED BY <2>1, <4>1 DEF ToSet
    <3> QED BY <2>1, <3>1, <3>2 DEF ToSet
  <2> QED BY <1>2, <2>1, <2>2, <2>3
<1> QED BY <1>1, <1>2

\* A stored event is an event of its session, numbered within its log.
LEMMA StoredTyped ==
    ASSUME GateTypes, NEW s \in Sessions
    PROVE  /\ EventsOf(s) \subseteq Events
           /\ Len(log[s]) \in Nat
           /\ \A e \in EventsOf(s) : e.seq <= Len(log[s]) /\ e.ses = s
<1>1. Len(log[s]) \in Nat /\ DOMAIN log[s] = 1 .. Len(log[s]) /\ \A n \in 1 .. Len(log[s]) : log[s][n] \in Kinds
  BY DEF GateTypes
<1>2. \A n \in 1 .. Len(log[s]) : StoredEvent(s, n) \in Events
  BY <1>1 DEF StoredEvent, Events
<1>3. \A n \in 1 .. Len(log[s]) : StoredEvent(s, n).seq = n /\ StoredEvent(s, n).ses = s
  BY DEF StoredEvent
<1> QED BY <1>1, <1>2, <1>3 DEF EventsOf

\* A step that sends nothing keeps the connections; the log may grow.
LEMMA GapQuiet ==
    ASSUME GapInv, UNCHANGED <<conn, sent>>,
           \A s \in Sessions : EventsOf(s) \subseteq EventsOf(s)'
    PROVE  GapInv'
<1>1. SentStored'
  <2> SUFFICES ASSUME NEW e \in sent PROVE e \in EventsOf(e.ses)'
    BY DEF GapInv, SentStored
  <2>1. e.ses \in Sessions /\ e \in EventsOf(e.ses)
    BY DEF GapInv, SentStored, Events
  <2> QED BY <2>1
<1>2. \A c \in Clients : ConnKept(conn[c])'
  BY DEF GapInv, ConnKept, Follows, Replays
<1> QED BY <1>1, <1>2 DEF GapInv

\* append_event takes no stored event away.
LEMMA EventsGrow ==
    ASSUME GateTypes, NEW s \in Sessions, NEW kind \in Kinds, InsertEvent(s, kind)
    PROVE  \A t \in Sessions : EventsOf(t) \subseteq EventsOf(t)'
<1>1. /\ log' \in [Sessions -> Seq(Kinds)]
      /\ Len(log[s]) \in Nat /\ Len(log'[s]) = Len(log[s]) + 1
      /\ \A n \in 1 .. Len(log[s]) : log'[s][n] = log[s][n]
      /\ \A t \in Sessions \ {s} : log'[t] = log[t]
  BY AppendEvent DEF GateTypes
<1> SUFFICES ASSUME NEW t \in Sessions, NEW n \in DOMAIN log[t]
             PROVE  n \in DOMAIN log'[t] /\ log'[t][n] = log[t][n]
  BY DEF EventsOf, StoredEvent
<1>2. DOMAIN log[t] = 1 .. Len(log[t]) /\ DOMAIN log'[t] = 1 .. Len(log'[t])
  BY <1>1 DEF GateTypes
<1>3. CASE t = s
  <2>1. n \in 1 .. Len(log[s])
    BY <1>2, <1>3
  <2>2. Len(log[s]) \in Nat /\ Len(log'[s]) = Len(log[s]) + 1 /\ log'[s][n] = log[s][n]
    BY <1>1, <2>1
  <2>3. n \in 1 .. Len(log'[s])
    BY <2>1, <2>2
  <2> QED BY <1>2, <1>3, <2>2, <2>3
<1>4. CASE t # s
  <2>1. log'[t] = log[t]
    BY <1>1, <1>4
  <2> QED BY <2>1
<1> QED BY <1>3, <1>4

\* One connection changes, to a state that has what it follows.
LEMMA GapConn ==
    ASSUME GapInv, NEW c \in Clients, NEW k \in Connection, ConnKept(k),
           conn' = [conn EXCEPT ![c] = k], UNCHANGED <<sent, log>>
    PROVE  GapInv'
<1>1. conn' \in [Clients -> Connection] /\ \A b \in Clients : conn'[b] = k \/ conn'[b] = conn[b]
  BY DEF GapInv
<1>2. ASSUME NEW b \in Clients PROVE ConnKept(conn[b])'
  <2>1. ConnKept(conn'[b])
    BY <1>1 DEF GapInv
  <2> QED BY <2>1 DEF ConnKept, Follows, Replays
<1>3. SentStored'
  BY DEF GapInv, SentStored, EventsOf, StoredEvent
<1> QED BY <1>1, <1>2, <1>3 DEF GapInv

\* A broadcast reaches the queue of every connection, or marks it as lagged.
LEMMA GapBroadcast ==
    ASSUME GapInv, NEW e \in Events, broadcast(e), log' = log
    PROVE  GapInv'
<1>1. SentStored'
  <2>1. sent' \subseteq sent \cup {e} /\ (e \in sent' => e \in sent \/ e \in EventsOf(e.ses))
    BY DEF broadcast
  <2>2. \A s : EventsOf(s)' = EventsOf(s)
    BY DEF EventsOf, StoredEvent
  <2> QED BY <2>1, <2>2 DEF GapInv, SentStored
<1>2. ASSUME NEW c \in Clients
      PROVE  conn'[c] \in Connection /\ ConnKept(conn[c])'
  <2> DEFINE k == conn[c]
             q == IF Len(k.queue) = Capacity THEN Append(Tail(k.queue), e) ELSE Append(k.queue, e)
  <2>1. k \in Connection /\ ConnKept(k)
    BY DEF GapInv
  <2>2. CASE ~k.on
    <3>1. conn'[c] = k
      BY <2>2 DEF broadcast
    <3>2. k.doing = None /\ \A s \in Sessions : k.from[s] = None
      BY <2>1, <2>2 DEF ConnKept
    <3> QED BY <2>1, <3>1, <3>2 DEF ConnKept
  <2>3. CASE k.on
    <3>1. k.queue \in Seq(Events)
      BY <2>1 DEF Connection
    <3>2. /\ conn'[c] = IF Len(k.queue) = Capacity
                        THEN [k EXCEPT !.queue = Append(Tail(@), e), !.lagged = TRUE]
                        ELSE [k EXCEPT !.queue = Append(@, e)]
      BY <2>3 DEF broadcast
    <3>3. Len(k.queue) = Capacity => k.queue # <<>>
      BY CockpitAssumption
    <3>4. /\ q \in Seq(Events) /\ e \in ToSet(q)
          /\ Len(k.queue) # Capacity => ToSet(q) = ToSet(k.queue) \cup {e}
      <4>1. CASE Len(k.queue) = Capacity
        <5>1. Tail(k.queue) \in Seq(Events)
          BY <3>1, <3>3, <4>1, QueueSets
        <5> DEFINE r == Tail(k.queue)
        <5> HIDE DEF r
        <5>2. Append(r, e) \in Seq(Events) /\ ToSet(Append(r, e)) = ToSet(r) \cup {e}
          <6>1. r \in Seq(Events)
            BY <5>1 DEF r
          <6> QED BY <6>1, QueueSets
        <5> USE DEF r
        <5> QED BY <4>1, <5>2
      <4>2. CASE Len(k.queue) # Capacity
        <5>1. Append(k.queue, e) \in Seq(Events) /\ ToSet(Append(k.queue, e)) = ToSet(k.queue) \cup {e}
          BY <3>1, QueueSets
        <5> QED BY <4>2, <5>1
      <4> QED BY <4>1, <4>2
    <3>5. /\ conn'[c] \in Connection
          /\ conn'[c].on /\ conn'[c].from = k.from /\ conn'[c].got = k.got /\ conn'[c].missed = k.missed
          /\ conn'[c].doing = k.doing /\ conn'[c].queue = q
          /\ Len(k.queue) = Capacity => conn'[c].lagged
          /\ k.lagged => conn'[c].lagged
      <4>1. CASE Len(k.queue) = Capacity
        BY <2>1, <2>3, <3>2, <3>4, <4>1 DEF Connection
      <4>2. CASE Len(k.queue) # Capacity
        BY <2>1, <2>3, <3>2, <3>4, <4>2 DEF Connection
      <4> QED BY <4>1, <4>2
    <3>6. \A d \in sent' : d \in sent \/ d = e
      BY DEF broadcast
    <3> HIDE DEF k, q
    <3>7. \A s \in Sessions : k.from[s] # None => Follows(conn[c], s)'
      BY <2>1, <3>4, <3>5, <3>6 DEF ConnKept, Follows
    <3>8. k.doing # None /\ k.doing.cmd = "open" => Replays(conn[c], conn[c].doing)'
      BY <2>1, <3>4, <3>5, <3>6 DEF ConnKept, Replays
    <3> QED BY <3>5, <3>7, <3>8 DEF ConnKept
  <2> QED BY <2>2, <2>3
<1>3. conn' \in [Clients -> Connection]
  BY <1>2 DEF broadcast
<1> QED BY <1>1, <1>2, <1>3 DEF GapInv

\* A connection that starts, or has been closed, follows nothing.
LEMMA FreshConn ==
    /\ NoConn \in Connection /\ ConnKept(NoConn)
    /\ [NoConn EXCEPT !.on = TRUE] \in Connection /\ ConnKept([NoConn EXCEPT !.on = TRUE])
<1> DEFINE n == [NoConn EXCEPT !.on = TRUE]
           from == [s \in Sessions |-> None]
<1>1. <<>> \in Seq(Events) /\ from \in [Sessions -> Nat \cup {None}] /\ {} \in SUBSET Events
  OBVIOUS
<1>2. \A s \in Sessions : from[s] = None
  OBVIOUS
<1>3. NoConn = [on |-> FALSE, queue |-> <<>>, lagged |-> FALSE, missed |-> {}, from |-> from, got |-> {},
               doing |-> None]
  BY DEF NoConn
<1> HIDE DEF from
<1>4. NoConn \in Connection /\ NoConn.from = from /\ NoConn.doing = None
  BY <1>1, <1>3 DEF Connection
<1>5. n \in Connection /\ n.from = NoConn.from /\ n.doing = NoConn.doing
  BY <1>4 DEF Connection
<1> HIDE DEF n
<1>6. ConnKept(n) /\ ConnKept(NoConn)
  BY <1>2, <1>4, <1>5 DEF ConnKept
<1> QED BY <1>4, <1>5, <1>6 DEF n

\* Every step of the pumps and of the connections preserves GapInv.
LEMMA GapInvStep ==
    ASSUME GateInv, GapInv, [Next]_vars
    PROVE  GapInv'
<1> USE DEF storeVars, gateVars, historyVars
<1> GateTypes /\ PumpAtEvent
  BY DEF GateInv
<1>q. ASSUME UNCHANGED <<conn, sent, log>> PROVE GapInv'
  <2>1. \A s \in Sessions : EventsOf(s) \subseteq EventsOf(s)'
    BY <1>q DEF EventsOf, StoredEvent
  <2> QED BY <1>q, <2>1, GapQuiet
<1>a. ASSUME NEW s \in Sessions, NEW kind \in Kinds, InsertEvent(s, kind), UNCHANGED <<conn, sent>>
      PROVE  GapInv'
  BY <1>a, EventsGrow, GapQuiet
<1>1. ASSUME NEW s \in Sessions, NEW kind \in {"message", "tool_call", "approval_request"},
             PumpReceive(s, kind)
      PROVE  GapInv'
  BY <1>1, <1>a DEF PumpReceive, append_event, BumpFails, Kinds
<1>2. ASSUME NEW s \in Sessions, PumpBroadcast(s) PROVE GapInv'
  <2>1. pump[s].seq \in 1 .. Len(log[s]) /\ DOMAIN log[s] = 1 .. Len(log[s])
    BY <1>2 DEF PumpBroadcast, At, PumpAtEvent, AtEvent, GateTypes
  <2>2. StoredEvent(s, pump[s].seq) \in Events
    BY <2>1, StoredTyped DEF EventsOf
  <2> QED BY <1>2, <2>2, GapBroadcast DEF PumpBroadcast
<1>3. ASSUME NEW s \in Sessions,
             insert_approval(s) \/ RegisterGate(s) \/ Wake(s) \/ ReadResolution(s) \/ Settle(s) \/ PumpEnds(s)
      PROVE  GapInv'
  BY <1>3, <1>q DEF insert_approval, RegisterGate, Wake, ReadResolution, Settle, PumpEnds
<1>4. ASSUME NEW s \in Sessions, StoreRequest(s) \/ StoreBlocked(s) PROVE GapInv'
  BY <1>4, <1>a, <1>q DEF StoreRequest, StoreBlocked, append_event, append_fails, BumpFails, Kinds
<1>5. ASSUME NEW s \in Sessions, Announce(s) PROVE GapInv'
  <2> DEFINE e(b) == [ses |-> s, seq |-> pump[s].seq + (IF pump[s].native THEN 0 ELSE 1),
                      kind |-> "approval_request", stored |-> b]
  <2>1. pump[s].seq + (IF pump[s].native THEN 0 ELSE 1) \in Nat
    BY DEF GateTypes, PumpStates
  <2>2. e(TRUE) \in Events /\ e(FALSE) \in Events
    BY <2>1 DEF Events, Kinds
  <2>3. CASE At(s, "announce")
    <3>1. broadcast(e(TRUE)) /\ log' = log
      BY <1>5, <2>3 DEF Announce
    <3> HIDE DEF e
    <3> QED BY <2>2, <3>1, GapBroadcast
  <2>4. CASE ~At(s, "announce")
    <3>1. broadcast([ses |-> s, seq |-> pump[s].seq + (IF pump[s].native THEN 0 ELSE 1),
                     kind |-> "approval_request", stored |-> At(s, "announce")]) /\ log' = log
      BY <1>5 DEF Announce
    <3>2. At(s, "announce") = FALSE
      BY <2>4 DEF At
    <3>3. broadcast(e(FALSE)) /\ log' = log
      BY <3>1, <3>2
    <3> HIDE DEF e
    <3> QED BY <2>2, <3>3, GapBroadcast
  <2> QED BY <2>3, <2>4
<1>6. ASSUME NEW s \in Sessions, BroadcastBlocked(s) PROVE GapInv'
  <2> DEFINE e == [ses |-> s, seq |-> pump[s].seq + 1, kind |-> "tool_blocked", stored |-> FALSE]
  <2>1. pump[s].seq + 1 \in Nat
    BY DEF GateTypes, PumpStates
  <2>2. e \in Events
    BY <2>1 DEF Events, Kinds
  <2>3. broadcast(e) /\ log' = log
    BY <1>6 DEF BroadcastBlocked
  <2> HIDE DEF e
  <2> QED BY <2>2, <2>3, GapBroadcast
<1>7. ASSUME NEW c \in Clients, Connect(c) \/ Disconnect(c) PROVE GapInv'
  BY <1>7, FreshConn, GapConn DEF Connect, Disconnect
<1>c. ASSUME NEW c \in Clients PROVE conn[c] \in Connection /\ ConnKept(conn[c])
  BY DEF GapInv
<1>8. ASSUME NEW c \in Clients, ReceiveEvent(c) PROVE GapInv'
  <2> DEFINE k == conn[c]
             e == Head(k.queue)
             got == IF e.ses \in Subscribed(c) THEN k.got \cup ({e} \cap EventsOf(e.ses)) ELSE k.got
             n == [k EXCEPT !.queue = Tail(k.queue), !.got = got]
  <2>1. k \in Connection /\ ConnKept(k)
    BY <1>c
  <2>2. k.queue \in Seq(Events) /\ k.queue # <<>> /\ k.doing = None
    BY <1>8, <2>1 DEF ReceiveEvent, Connection
  <2>3. Tail(k.queue) \in Seq(Events) /\ e \in Events /\ ToSet(k.queue) = {e} \cup ToSet(Tail(k.queue))
    BY <2>2, QueueSets
  <2>4. got \in SUBSET Events /\ k.got \subseteq got
    BY <2>1, <2>3 DEF Connection
  <2>5. conn' = [conn EXCEPT ![c] = n] /\ UNCHANGED <<sent, log>>
    BY <1>8 DEF ReceiveEvent, GapInv
  <2>6. /\ n \in Connection /\ n.queue = Tail(k.queue) /\ n.got = got /\ n.from = k.from
        /\ n.doing = None /\ n.on = k.on /\ n.lagged = k.lagged /\ n.missed = k.missed
    BY <2>1, <2>2, <2>3, <2>4 DEF Connection
  <2>7. ASSUME NEW s \in Sessions, k.from[s] # None PROVE Follows(n, s)
    <3>1. s \in Subscribed(c) /\ Follows(k, s)
      BY <2>1, <2>7 DEF Subscribed, ConnKept
    <3> SUFFICES ASSUME NEW d \in sent, d.ses = s
                 PROVE  d.seq <= n.from[s] \/ d \in n.got \/ d \in ToSet(n.queue) \/ n.lagged \/ d \in n.missed
      BY DEF Follows
    <3>2. d \in EventsOf(s)
      BY DEF GapInv, SentStored
    <3>3. d.seq <= k.from[s] \/ d \in k.got \/ d \in ToSet(k.queue) \/ k.lagged \/ d \in k.missed
      BY <3>1 DEF Follows
    <3>4. d = e => d \in got
      BY <3>1, <3>2
    <3> HIDE DEF k, e, got, n
    <3> QED BY <2>3, <2>4, <2>6, <3>3, <3>4
  <2> HIDE DEF n
  <2>8. ConnKept(n)
    BY <2>1, <2>6, <2>7 DEF ConnKept
  <2> QED BY <2>5, <2>6, <2>8, GapConn
<1>9. ASSUME NEW c \in Clients, NEW s \in Sessions, NEW m \in {0, Len(log[s])}, NEW read \in BOOLEAN,
             OpenReplay(c, s, m, read)
      PROVE  GapInv'
  <2> DEFINE k == conn[c]
             o == [cmd |-> "open", ses |-> s, from |-> m, upto |-> Len(log[s]), read |-> read]
             n == [k EXCEPT !.doing = o]
  <2>1. k \in Connection /\ ConnKept(k) /\ k.on
    BY <1>c, <1>9 DEF OpenReplay
  <2>2. conn' = [conn EXCEPT ![c] = n] /\ UNCHANGED <<sent, log>>
    BY <1>9 DEF OpenReplay, GapInv
  <2>3. Len(log[s]) \in Nat /\ m \in Nat
    BY StoredTyped
  <2>4. o \in Opening /\ o.upto = Len(log[s]) /\ o.ses = s
    BY <2>3 DEF Opening
  <2>5. Replays(k, o)
    BY <2>4, StoredTyped DEF Replays, GapInv, SentStored
  <2> HIDE DEF o
  <2>6. /\ n \in Connection /\ n.queue = k.queue /\ n.got = k.got /\ n.from = k.from
        /\ n.doing = o /\ n.on = k.on /\ n.lagged = k.lagged /\ n.missed = k.missed
    BY <2>1, <2>4 DEF Connection
  <2> HIDE DEF n, k
  <2>7. ConnKept(n)
    BY <2>1, <2>5, <2>6 DEF ConnKept, Follows, Replays
  <2> QED BY <2>2, <2>6, <2>7, GapConn
<1>10. ASSUME NEW c \in Clients, OpenSubscribe(c) PROVE GapInv'
  <2> DEFINE k == conn[c]
             o == k.doing
             got == k.got \cup InSnapshot(o)
             missed == k.missed \cup (Replayed(o) \ InSnapshot(o))
             from == [k.from EXCEPT ![o.ses] = IF k.from[o.ses] = None THEN o.from ELSE k.from[o.ses]]
             n == [k EXCEPT !.got = got, !.missed = missed, !.doing = None, !.from = from]
  <2>1. k \in Connection /\ ConnKept(k)
    BY <1>c
  <2>2. o # None /\ o.cmd = "open" /\ o \in Opening
    BY <1>10, <2>1 DEF OpenSubscribe, Connection, Approving
  <2>3. k.on /\ Replays(k, o) /\ o.ses \in Sessions /\ o.from \in Nat /\ o.upto \in Nat
    BY <2>1, <2>2 DEF ConnKept, Opening
  <2>4. /\ got \in SUBSET Events /\ k.got \subseteq got
        /\ missed \in SUBSET Events /\ k.missed \subseteq missed
        /\ Replayed(o) \subseteq got \cup missed
    BY <2>1, <2>3, StoredTyped DEF Connection, Replayed, InSnapshot
  <2>5. k.from \in [Sessions -> Nat \cup {None}]
    BY <2>1 DEF Connection
  <2>6. /\ from \in [Sessions -> Nat \cup {None}]
        /\ \A s \in Sessions : from[s] = k.from[s] \/ (s = o.ses /\ from[s] = o.from)
    <3>1. ASSUME NEW f \in [Sessions -> Nat \cup {None}], NEW t \in Sessions, NEW m \in Nat \cup {None}
          PROVE  /\ [f EXCEPT ![t] = m] \in [Sessions -> Nat \cup {None}]
                 /\ \A s \in Sessions : [f EXCEPT ![t] = m][s] = IF s = t THEN m ELSE f[s]
      OBVIOUS
    <3>2. (IF k.from[o.ses] = None THEN o.from ELSE k.from[o.ses]) \in Nat \cup {None}
      BY <2>3, <2>5
    <3> HIDE DEF k, o
    <3> QED BY <2>3, <2>5, <3>1, <3>2
  <2>7. conn' = [conn EXCEPT ![c] = n] /\ UNCHANGED <<sent, log>>
    <3>1. UNCHANGED <<sent, log>>
      BY <1>10 DEF OpenSubscribe
    <3>2. conn' = [conn EXCEPT ![c] = n]
      BY <1>10 DEF OpenSubscribe
    <3> QED BY <3>1, <3>2
  <2>8. /\ n \in Connection /\ n.queue = k.queue /\ n.got = got /\ n.from = from
        /\ n.doing = None /\ n.on = k.on /\ n.lagged = k.lagged /\ n.missed = missed
    BY <2>1, <2>4, <2>6 DEF Connection
  <2>9. ASSUME NEW s \in Sessions, from[s] # None PROVE Follows(n, s)
    <3> SUFFICES ASSUME NEW d \in sent, d.ses = s
                 PROVE  d.seq <= n.from[s] \/ d \in n.got \/ d \in ToSet(n.queue) \/ n.lagged \/ d \in n.missed
      BY DEF Follows
    <3>1. d \in EventsOf(s) /\ d \in Events /\ d.seq \in Nat
      BY DEF GapInv, SentStored, Events
    <3>2. CASE from[s] = k.from[s]
      <4>1. d.seq <= k.from[s] \/ d \in k.got \/ d \in ToSet(k.queue) \/ k.lagged \/ d \in k.missed
        BY <2>1, <2>9, <3>2 DEF ConnKept, Follows
      <4> HIDE DEF k, o, got, missed, from, n
      <4> QED BY <2>4, <2>8, <3>2, <4>1
    <3>3. CASE s = o.ses /\ from[s] = o.from
      <4>1. d.seq <= o.upto \/ d \in ToSet(k.queue) \/ k.lagged
        BY <2>3, <3>3 DEF Replays
      <4>2. d.seq <= o.upto => d.seq <= o.from \/ d \in Replayed(o)
        BY <2>3, <3>1, <3>3 DEF Replayed
      <4> HIDE DEF k, o, got, missed, from, n
      <4> QED BY <2>4, <2>8, <3>3, <4>1, <4>2
    <3> QED BY <2>6, <3>2, <3>3
  <2> HIDE DEF k, o, got, missed, from, n
  <2>10. ConnKept(n)
    BY <2>3, <2>8, <2>9 DEF ConnKept
  <2> QED BY <2>7, <2>8, <2>10, GapConn
<1>11. ASSUME NEW c \in Clients, NEW a \in Approval, NEW d \in {"allow", "deny"}, Approve(c, a, d)
       PROVE  GapInv'
  <2> DEFINE k == conn[c]
             o == [cmd |-> "approve", gate |-> a]
             n == [k EXCEPT !.doing = o]
  <2>1. k \in Connection /\ ConnKept(k) /\ k.on
    BY <1>c, <1>11 DEF Approve
  <2>2. conn' = [conn EXCEPT ![c] = n] /\ UNCHANGED <<sent, log>>
    BY <1>11 DEF Approve, GapInv
  <2>3. o \in Approving /\ o.cmd # "open"
    BY DEF Approving
  <2> HIDE DEF o
  <2>4. /\ n \in Connection /\ n.queue = k.queue /\ n.got = k.got /\ n.from = k.from
        /\ n.doing = o /\ n.on = k.on /\ n.lagged = k.lagged /\ n.missed = k.missed
    BY <2>1, <2>3 DEF Connection
  <2> HIDE DEF n, k
  <2>5. ConnKept(n)
    BY <2>1, <2>3, <2>4 DEF ConnKept, Follows
  <2> QED BY <2>2, <2>4, <2>5, GapConn
<1>12. ASSUME NEW c \in Clients, ApproveWake(c) PROVE GapInv'
  <2> DEFINE k == conn[c]
             n == [k EXCEPT !.doing = None]
  <2>1. k \in Connection /\ ConnKept(k)
    BY <1>c
  <2>2. conn' = [conn EXCEPT ![c] = n] /\ UNCHANGED <<sent, log>>
    BY <1>12 DEF ApproveWake, GapInv
  <2>3. /\ n \in Connection /\ n.queue = k.queue /\ n.got = k.got /\ n.from = k.from
        /\ n.doing = None /\ n.on = k.on /\ n.lagged = k.lagged /\ n.missed = k.missed
    BY <2>1 DEF Connection
  <2> HIDE DEF n, k
  <2>4. ConnKept(n)
    BY <2>1, <2>3 DEF ConnKept, Follows
  <2> QED BY <2>2, <2>3, <2>4, GapConn
<1>13. ASSUME NEW c \in Clients, NEW s \in Sessions, LaunchSession(c, s) \/ kill_session(c, s)
       PROVE  GapInv'
  BY <1>13, <1>q DEF LaunchSession, kill_session
<1>14. ASSUME sweep_once PROVE GapInv'
  BY <1>14, <1>q DEF sweep_once, SweepList, SweepResolve, SweepWake
<1>15. ASSUME Restart PROVE GapInv'
  <2>1. conn' \in [Clients -> Connection] /\ \A c \in Clients : conn'[c] = NoConn
    BY <1>15, FreshConn DEF Restart
  <2>2. SentStored'
    BY <1>15 DEF Restart, GapInv, SentStored, EventsOf, StoredEvent
  <2>3. \A c \in Clients : ConnKept(conn[c])'
    BY <2>1 DEF ConnKept, NoConn
  <2> QED BY <2>1, <2>2, <2>3 DEF GapInv
<1>16. CASE UNCHANGED vars
  BY <1>16, <1>q DEF vars
<1> QED
  BY <1>1, <1>2, <1>3, <1>4, <1>5, <1>6, <1>7, <1>8, <1>9, <1>10, <1>11, <1>12, <1>13, <1>14, <1>15,
     <1>16 DEF Next, PumpStep, ClientStep

\* For any number of sessions and clients and any capacity of the broadcast
\* channel, open_session leaves no gap between its replay and what follows, but
\* what a failed read left out of the replay.
THEOREM NoGapHolds == Spec => []NoGap
<1>1. Init => GapInv
  BY FreshConn DEF Init, GapInv, SentStored
<1>2. GateInv /\ GapInv /\ [Next]_vars => GapInv'
  BY GapInvStep
<1>3. GapInv => NoGap
  <2> SUFFICES ASSUME GapInv, NEW c \in Clients, NEW s \in Subscribed(c), NEW e \in EventsOf(s) \cap sent
               PROVE  \/ e.seq <= conn[c].from[s]
                      \/ e \in conn[c].got \cup ToSet(conn[c].queue)
                      \/ conn[c].lagged \/ e \in conn[c].missed
    BY DEF NoGap
  <2>1. Follows(conn[c], s) /\ s \in Sessions
    BY DEF GapInv, ConnKept, Subscribed
  <2>2. e.ses = s
    BY DEF EventsOf, StoredEvent
  <2> QED BY <2>1, <2>2 DEF Follows
<1> QED BY <1>1, <1>2, <1>3, GateInvHolds, PTL DEF Spec
=============================================================================
