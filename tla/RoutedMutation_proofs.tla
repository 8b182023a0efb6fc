----------------------- MODULE RoutedMutation_proofs -----------------------
(***************************************************************************)
(* Proofs about RoutedMutation: what a command reports is true for any     *)
(* number of clients, whichever of them own the room and however the       *)
(* daemon is drained, killed and restarted.                                *)
(***************************************************************************)
EXTENDS RoutedMutation, TLAPS

\* Where a request is before its durable part starts.
Waiting == inbox \cup queue

\* A request is in one place at a time, and only routed ones are in the daemon.
Places ==
    /\ Waiting \subseteq Routed
    /\ inbox \cap queue = {}
    /\ current # Nobody => current \in Routed /\ current \notin Waiting
    /\ current = Nobody <=> phase = "none"
    /\ \A c \in Waiting : worker[c] # "start"
    /\ current # Nobody => worker[current] # "start"

\* Before its durable part starts a command has no row.
RowsStarted ==
    /\ \A c \in Waiting : c \notin rows
    /\ phase \in {"open", "started"} => current \notin rows
    /\ \A c \in Clients : worker[c] \in {"start", "started", "marked"} => c \notin rows

\* While a request is in the daemon its connection carries no typed reply.
Unanswered ==
    /\ \A c \in Clients : worker[c] = "start" => reply[c] = "none" /\ result[c] = "none"
    /\ \A c \in Waiting : reply[c] \in {"none", "transport"}
    /\ current # Nobody => reply[current] \in {"none", "transport"}
    /\ \A c \in Clients : worker[c] # "done" => result[c] = "none"
    /\ \A c \in Direct : reply[c] = "none" /\ worker[c] # "sent"
    /\ \A c \in Routed : worker[c] \in {"start", "sent", "after", "done"}

\* Once "nothing started" is said anywhere, nothing is left that could start.
Denied == {"not_started", "refused"}
Over(c) == c \notin rows /\ c \notin Waiting /\ c # current
DenialFinal ==
    \A c \in Clients :
        /\ reply[c] \in Denied => Over(c)
        /\ result[c] \in Denied \/ report[c] \in Denied => Over(c) /\ worker[c] = "done"

\* Once "committed" is said anywhere, the row is there.
CommitTrue ==
    /\ phase = "written" => current \in rows
    /\ \A c \in Clients :
         reply[c] = "committed" \/ result[c] = "committed" \/ signal[c] = "Committed"
         \/ seen[c] = "Committed" \/ report[c] \in {"committed", "timed_out_committed"}
         \/ worker[c] \in {"written", "after"} => c \in rows

Inv ==
    /\ TypeOK
    /\ Places
    /\ RowsStarted
    /\ Unanswered
    /\ DenialFinal
    /\ CommitTrue

\* Every step preserves Inv.
LEMMA InvStep ==
    ASSUME Inv, Next
    PROVE  Inv'
<1> USE DirectAssumption, NobodyAssumption
    DEF Inv, TypeOK, Places, RowsStarted, Unanswered, DenialFinal, CommitTrue, Waiting, Over,
        Denied, Routed, Running, clientVars, daemonVars, Outcomes, WatchdogMutationState, Reports,
        Replies
<1>1. ASSUME NEW c \in Clients, MutationDeadline(c) PROVE Inv'
  BY <1>1 DEF MutationDeadline
<1>2. ASSUME NEW c \in Clients, Completed(c) PROVE Inv'
  BY <1>2 DEF Completed
<1>3. ASSUME NEW c \in Clients, WatchdogFires(c) PROVE Inv'
  BY <1>3 DEF WatchdogFires
<1>4. ASSUME NEW c \in Clients, WatchdogExits(c) PROVE Inv'
  BY <1>4 DEF WatchdogExits, TimedOut
<1>5. ASSUME NEW c \in Clients, DirectNotStarted(c) PROVE Inv'
  BY <1>5 DEF DirectNotStarted, Finish
<1>6. ASSUME NEW c \in Clients, DirectStart(c) PROVE Inv'
  BY <1>6 DEF DirectStart
<1>7. ASSUME NEW c \in Clients, DirectMark(c) PROVE Inv'
  BY <1>7 DEF DirectMark
<1>8. ASSUME NEW c \in Clients, DirectWrite(c) PROVE Inv'
  BY <1>8 DEF DirectWrite, Finish
<1>9. ASSUME NEW c \in Clients, DirectCommitted(c) PROVE Inv'
  BY <1>9 DEF DirectCommitted
<1>10. ASSUME NEW c \in Clients, PostCommitWork(c) PROVE Inv'
  BY <1>10 DEF PostCommitWork, Finish
<1>11. ASSUME NEW c \in Clients, dispatch(c) PROVE Inv'
  BY <1>11 DEF dispatch
<1>12. ASSUME NEW c \in Clients, transport_error(c) PROVE Inv'
  BY <1>12 DEF transport_error, Finish
<1>13. ASSUME NEW c \in Clients, ReceiveReply(c) PROVE Inv'
  BY <1>13 DEF ReceiveReply, Finish
<1>14. ASSUME NEW c \in Clients, handle_conn(c) PROVE Inv'
  BY <1>14 DEF handle_conn, Answer
<1>15. ASSUME NEW c \in Clients, ReaderTimeout(c) PROVE Inv'
  BY <1>15 DEF ReaderTimeout, Answer
<1>16. ASSUME NEW c \in Clients, dispatch_one(c) PROVE Inv'
  BY <1>16 DEF dispatch_one, Answer
<1>17. ASSUME RunNotStarted PROVE Inv'
  BY <1>17 DEF RunNotStarted, Respond, Answer
<1>18. ASSUME RunStart PROVE Inv'
  BY <1>18 DEF RunStart
<1>19. ASSUME RunWrite PROVE Inv'
  BY <1>19 DEF RunWrite, Respond, Answer
<1>20. ASSUME RunCommitted PROVE Inv'
  BY <1>20 DEF RunCommitted, Respond, Answer
<1>21. ASSUME Drain PROVE Inv'
  BY <1>21 DEF Drain
<1>22. ASSUME DaemonDies PROVE Inv'
  BY <1>22 DEF DaemonDies
<1>23. ASSUME DaemonStarts PROVE Inv'
  BY <1>23 DEF DaemonStarts
<1> QED
  BY <1>1, <1>2, <1>3, <1>4, <1>5, <1>6, <1>7, <1>8, <1>9, <1>10, <1>11, <1>12, <1>13, <1>14, <1>15, <1>16, <1>17, <1>18, <1>19, <1>20, <1>21, <1>22, <1>23 DEF Next, Main, Worker, Daemon

\* Inv holds in every reachable state.
THEOREM InvHolds == Spec => []Inv
<1> USE DEF Inv, TypeOK, Places, RowsStarted, Unanswered, DenialFinal, CommitTrue, Waiting, Over,
        Denied, Routed, Outcomes, WatchdogMutationState, Reports, Replies
<1>1. Init => Inv
  BY DirectAssumption, NobodyAssumption DEF Init
<1>2. Inv /\ [Next]_vars => Inv'
  <2>1. ASSUME Inv, UNCHANGED vars PROVE Inv'
    BY <2>1 DEF vars
  <2> QED BY <2>1, InvStep
<1> QED BY <1>1, <1>2, PTL DEF Spec

\* Every step keeps the types of the client and daemon variables.
THEOREM TypeCorrect == Spec => []TypeOK
<1>1. Inv => TypeOK
  BY DEF Inv
<1> QED BY <1>1, InvHolds, PTL

\* A command told that nothing started can be repeated, for any number of
\* commands and any mix of direct and routed ones.
THEOREM RetrySafeHolds == Spec => []RetryIsSafe
<1>1. Inv => RetryIsSafe
  BY DEF Inv, DenialFinal, Denied, Over, RetryIsSafe
<1> QED BY <1>1, InvHolds, PTL

\* A command told that its fact is committed has it in the ledger.
THEOREM CommitReportedHolds == Spec => []CommitReported
<1>1. Inv => CommitReported
  BY DEF Inv, CommitTrue, CommitReported
<1> QED BY <1>1, InvHolds, PTL
=============================================================================
