--------------------------- MODULE RoutedMutation ---------------------------
(***************************************************************************)
(* One mutating command, from the CLI's watchdog to the durable append and *)
(* back (lib.rs, store_client.rs, rallyd_core.rs).  Each client process    *)
(* has a main thread, which waits with a deadline, and a worker thread,    *)
(* which either owns the room directly or sends one request to the daemon. *)
(* In the daemon a reader thread per connection feeds one dispatcher.      *)
(*                                                                         *)
(* What is at stake is what a command tells its caller: that the fact is   *)
(* committed, that nothing was started and a retry is safe, or that the    *)
(* outcome is unknown and the ledger must be asked.                        *)
(*                                                                         *)
(* Abstractions.                                                           *)
(*  - Every client appends one fact of its own, so a row is its client.    *)
(*  - A timer has two marks: the mutation deadline (the watchdog or        *)
(*    connection budget less a reserve) and, later, the watchdog.  A read  *)
(*    timeout of the socket, or of the reader waiting for the dispatcher,  *)
(*    lies behind the mutation deadline as well.  Clocks are not set back  *)
(*    between the client's sample and the daemon's receipt.                *)
(*  - The dispatcher takes any job of its queue next.                      *)
(*  - The reply to an append carries one bounded fact, so it is never too  *)
(*    large to be framed; the worker thread is always spawned.             *)
(***************************************************************************)
EXTENDS FiniteSets

CONSTANTS
    Clients,    \* mutating commands
    Direct,     \* those of them that own the room themselves
    Nobody      \* the dispatcher is not working on a job

ASSUME DirectAssumption == Direct \subseteq Clients
ASSUME NobodyAssumption == Nobody \notin Clients

VARIABLES
    timer,      \* which mark of its timer a client has passed
    worker,     \* where the worker thread is
    result,     \* what the worker is going to report
    signal,     \* WatchdogMutationState, shared by both threads
    seen,       \* the signal the main thread read when the watchdog fired
    report,     \* what the command told its caller
    daemon,     \* "up", "draining" or "down"
    inbox,      \* requests in the socket that no reader has read
    queue,      \* jobs sent to the dispatcher
    current,    \* the job being dispatched
    phase,      \* how far the dispatcher is with it
    reply,      \* what comes back on the client's connection
    rows        \* clients whose fact is in the ledger

clientVars == <<timer, worker, result, signal, seen, report>>
daemonVars == <<daemon, inbox, queue, current, phase>>
vars == <<timer, worker, result, signal, seen, report,
          daemon, inbox, queue, current, phase, reply, rows>>

Outcomes == {"committed", "not_started", "unknown", "refused"}
WatchdogMutationState == {"NotStarted", "OutcomeUnknown", "Committed"}
TimedOut(s) ==
    CASE s = "NotStarted" -> "uncommitted"
      [] s = "OutcomeUnknown" -> "timed_out_unknown"
      [] s = "Committed" -> "timed_out_committed"
Reports == Outcomes \cup {"uncommitted", "timed_out_unknown", "timed_out_committed"}
Replies == {"committed", "not_started", "unknown", "refused", "transport"}

Running(c) == report[c] = "none"
Routed == Clients \ Direct

Init ==
    /\ timer = [c \in Clients |-> "running"]
    /\ worker = [c \in Clients |-> "start"]
    /\ result = [c \in Clients |-> "none"]
    /\ signal = [c \in Clients |-> "NotStarted"]
    /\ seen = [c \in Clients |-> "none"]
    /\ report = [c \in Clients |-> "none"]
    /\ daemon = "up" /\ inbox = {} /\ queue = {}
    /\ current = Nobody /\ phase = "none"
    /\ reply = [c \in Clients |-> "none"]
    /\ rows = {}

-----------------------------------------------------------------------------
(* The main thread and its watchdog *)

\* The mutation deadline of this command passes.
MutationDeadline(c) ==
    /\ timer[c] = "running"
    /\ timer' = [timer EXCEPT ![c] = "elapsed"]
    /\ UNCHANGED <<worker, result, signal, seen, report, daemonVars, reply, rows>>

\* The worker finished in time: its result is printed.
Completed(c) ==
    /\ Running(c) /\ seen[c] = "none"
    /\ worker[c] = "done"
    /\ report' = [report EXCEPT ![c] = result[c]]
    /\ UNCHANGED <<timer, worker, result, signal, seen, daemonVars, reply, rows>>

\* Mutant: an unknown outcome is left to the worker.
WatchdogFiresOnCertainty(c) ==
    /\ Running(c) /\ seen[c] = "none"
    /\ timer[c] = "elapsed"
    /\ signal[c] # "OutcomeUnknown"
    /\ seen' = [seen EXCEPT ![c] = signal[c]]
    /\ UNCHANGED <<timer, worker, result, signal, report, daemonVars, reply, rows>>

\* The watchdog fires: the main thread reads what the worker recorded ...
WatchdogFires(c) ==
    /\ Running(c) /\ seen[c] = "none"
    /\ timer[c] = "elapsed"
    /\ seen' = [seen EXCEPT ![c] = signal[c]]
    /\ UNCHANGED <<timer, worker, result, signal, report, daemonVars, reply, rows>>

\* ... tells the caller, and the process exits with its worker.
WatchdogExits(c) ==
    /\ Running(c) /\ seen[c] # "none"
    /\ report' = [report EXCEPT ![c] = TimedOut(seen[c])]
    /\ UNCHANGED <<timer, worker, result, signal, seen, daemonVars, reply, rows>>

-----------------------------------------------------------------------------
(* A worker that owns the room *)

Finish(c, outcome) ==
    /\ worker' = [worker EXCEPT ![c] = "done"]
    /\ result' = [result EXCEPT ![c] = outcome]

\* The lock or the start deadline is missed, or a gate refuses the fact.
DirectNotStarted(c) ==
    /\ Running(c) /\ c \in Direct /\ worker[c] = "start"
    /\ \/ timer[c] = "elapsed" /\ Finish(c, "not_started")
       \/ Finish(c, "refused")
    /\ UNCHANGED <<timer, signal, seen, report, daemonVars, reply, rows>>

\* ensure_new_mutation_can_start passes ...
DirectStart(c) ==
    /\ Running(c) /\ c \in Direct /\ worker[c] = "start"
    /\ timer[c] = "running"
    /\ worker' = [worker EXCEPT ![c] = "started"]
    /\ UNCHANGED <<timer, result, signal, seen, report, daemonVars, reply, rows>>

\* ... and the worker records that the outcome is unknown from here on.
DirectMark(c) ==
    /\ Running(c) /\ c \in Direct /\ worker[c] = "started"
    /\ signal' = [signal EXCEPT ![c] = "OutcomeUnknown"]
    /\ worker' = [worker EXCEPT ![c] = "marked"]
    /\ UNCHANGED <<timer, result, seen, report, daemonVars, reply, rows>>

\* Mutant: success is recorded before the append.
DirectWriteMarksEarly(c) ==
    /\ Running(c) /\ c \in Direct /\ worker[c] = "marked"
    /\ signal' = [signal EXCEPT ![c] = "Committed"]
    /\ \/ rows' = rows \cup {c} /\ worker' = [worker EXCEPT ![c] = "written"] /\ result' = result
       \/ rows' \in {rows, rows \cup {c}} /\ Finish(c, "unknown")
    /\ UNCHANGED <<timer, seen, report, daemonVars, reply>>

\* The append is written, or fails with or without its bytes on disk.
DirectWrite(c) ==
    /\ Running(c) /\ c \in Direct /\ worker[c] = "marked"
    /\ \/ rows' = rows \cup {c} /\ worker' = [worker EXCEPT ![c] = "written"] /\ result' = result
       \/ rows' \in {rows, rows \cup {c}} /\ Finish(c, "unknown")
    /\ UNCHANGED <<timer, signal, seen, report, daemonVars, reply>>

DirectCommitted(c) ==
    /\ Running(c) /\ c \in Direct /\ worker[c] = "written"
    /\ signal' = [signal EXCEPT ![c] = "Committed"]
    /\ worker' = [worker EXCEPT ![c] = "after"]
    /\ UNCHANGED <<timer, result, seen, report, daemonVars, reply, rows>>

\* Snapshots, renewals and rendering after the commit.
PostCommitWork(c) ==
    /\ Running(c) /\ worker[c] = "after"
    /\ Finish(c, "committed")
    /\ UNCHANGED <<timer, signal, seen, report, daemonVars, reply, rows>>

-----------------------------------------------------------------------------
(* A worker that asks the daemon *)

\* The request line is written to the daemon's socket.
dispatch(c) ==
    /\ Running(c) /\ c \in Routed /\ worker[c] = "start"
    /\ daemon = "up"
    /\ inbox' = inbox \cup {c}
    /\ worker' = [worker EXCEPT ![c] = "sent"]
    /\ UNCHANGED <<timer, result, signal, seen, report, daemon, queue, current, phase, reply, rows>>

\* A transport failure is an unknown outcome, even of the connect: every
\* attempt is refused, the reply times out, or the connection is cut.
transport_error(c) ==
    /\ Running(c) /\ c \in Routed
    /\ \/ worker[c] = "start"
       \/ worker[c] = "sent" /\ (timer[c] = "elapsed" \/ reply[c] = "transport")
    /\ Finish(c, "unknown")
    /\ UNCHANGED <<timer, signal, seen, report, daemonVars, reply, rows>>

\* Mutant: a transport error the daemon sent is passed on like any reply.
ReceiveReplyRaw(c) ==
    /\ Running(c) /\ c \in Routed /\ worker[c] = "sent"
    /\ reply[c] # "none"
    /\ Finish(c, reply[c])
    /\ UNCHANGED <<timer, signal, seen, report, daemonVars, reply, rows>>

\* A typed reply arrives.  A committed one is followed by more work.
ReceiveReply(c) ==
    /\ Running(c) /\ c \in Routed /\ worker[c] = "sent"
    /\ reply[c] \in Outcomes
    /\ \/ reply[c] = "committed" /\ worker' = [worker EXCEPT ![c] = "after"] /\ result' = result
       \/ reply[c] # "committed" /\ Finish(c, reply[c])
    /\ UNCHANGED <<timer, signal, seen, report, daemonVars, reply, rows>>

-----------------------------------------------------------------------------
(* The daemon *)

Answer(c, r) == reply' = [reply EXCEPT ![c] = IF @ = "none" THEN r ELSE @]

\* A reader takes the request and queues a job.  Before any dispatch, with every
\* reader busy the connection is shed, a malformed request is refused, and one
\* that cannot be read is answered with a transport error.
handle_conn(c) ==
    /\ daemon # "down" /\ c \in inbox
    /\ inbox' = inbox \ {c}
    /\ \/ queue' = queue \cup {c} /\ reply' = reply
       \/ queue' = queue /\ \E r \in {"not_started", "refused", "transport"} : Answer(c, r)
    /\ UNCHANGED <<clientVars, daemon, current, phase, rows>>

\* Mutant: the reader's timeout claims that nothing started.
ReaderTimeoutNotStarted(c) ==
    /\ daemon # "down"
    /\ c \in queue \cup {current} /\ timer[c] = "elapsed" /\ reply[c] = "none"
    /\ Answer(c, "not_started")
    /\ UNCHANGED <<clientVars, daemonVars, rows>>

\* The dispatcher did not answer in time: the reader gives up, the job stays.
ReaderTimeout(c) ==
    /\ daemon # "down"
    /\ c \in queue \cup {current} /\ timer[c] = "elapsed" /\ reply[c] = "none"
    /\ Answer(c, "transport")
    /\ UNCHANGED <<clientVars, daemonVars, rows>>

\* The dispatcher takes a job; one past its deadline is answered at once.
dispatch_one(c) ==
    /\ daemon # "down" /\ current = Nobody
    /\ c \in queue
    /\ queue' = queue \ {c}
    /\ \/ /\ timer[c] = "running"
          /\ current' = c /\ phase' = "open" /\ reply' = reply
       \/ /\ timer[c] = "elapsed"
          /\ current' = Nobody /\ phase' = "none" /\ Answer(c, "not_started")
    /\ UNCHANGED <<clientVars, daemon, inbox, rows>>

Respond(r) ==
    /\ Answer(current, r)
    /\ current' = Nobody /\ phase' = "none"

\* Under the lock: the store operation refuses, misses the deadline, or
\* starts.
RunNotStarted ==
    /\ phase = "open"
    /\ \/ timer[current] = "elapsed" /\ Respond("not_started")
       \/ Respond("refused")
    /\ UNCHANGED <<clientVars, daemon, inbox, queue, rows>>

RunStart ==
    /\ phase = "open" /\ timer[current] = "running"
    /\ phase' = "started"
    /\ UNCHANGED <<clientVars, daemon, inbox, queue, current, reply, rows>>

RunWrite ==
    /\ phase = "started"
    /\ \/ rows' = rows \cup {current} /\ phase' = "written" /\ UNCHANGED <<current, reply>>
       \/ rows' \in {rows, rows \cup {current}} /\ Respond("unknown")
    /\ UNCHANGED <<clientVars, daemon, inbox, queue>>

RunCommitted ==
    /\ phase = "written"
    /\ Respond("committed")
    /\ UNCHANGED <<clientVars, daemon, inbox, queue, rows>>

\* A stop signal: no more connections; readers and dispatcher finish.
Drain ==
    /\ daemon = "up"
    /\ daemon' = "draining"
    /\ UNCHANGED <<clientVars, inbox, queue, current, phase, reply, rows>>

\* The daemon process ends, drained or killed: open connections are cut.
DaemonDies ==
    /\ daemon # "down"
    /\ daemon' = "down"
    /\ inbox' = {} /\ queue' = {} /\ current' = Nobody /\ phase' = "none"
    /\ reply' = [c \in Clients |->
                   IF reply[c] = "none" /\ c \in inbox \cup queue \cup {current}
                   THEN "transport" ELSE reply[c]]
    /\ UNCHANGED <<clientVars, rows>>

\* Another one is started.
DaemonStarts ==
    /\ daemon = "down"
    /\ daemon' = "up"
    /\ UNCHANGED <<clientVars, inbox, queue, current, phase, reply, rows>>

-----------------------------------------------------------------------------
Main(c) == MutationDeadline(c) \/ Completed(c) \/ WatchdogFires(c) \/ WatchdogExits(c)

Worker(c) ==
    \/ DirectNotStarted(c) \/ DirectStart(c) \/ DirectMark(c) \/ DirectWrite(c)
    \/ DirectCommitted(c) \/ PostCommitWork(c)
    \/ dispatch(c) \/ transport_error(c) \/ ReceiveReply(c)

Daemon ==
    \/ \E c \in Clients : handle_conn(c) \/ ReaderTimeout(c) \/ dispatch_one(c)
    \/ RunNotStarted \/ RunStart \/ RunWrite \/ RunCommitted
    \/ Drain \/ DaemonDies \/ DaemonStarts

Next == Daemon \/ \E c \in Clients : Main(c) \/ Worker(c)

Spec == Init /\ [][Next]_vars

\* Time passes and the main thread is scheduled; nothing is assumed of the
\* worker, the daemon, the disk or the socket.
FairSpec == Spec /\ \A c \in Clients : WF_vars(Main(c))

-----------------------------------------------------------------------------
(* Properties *)

TypeOK ==
    /\ timer \in [Clients -> {"running", "elapsed"}]
    /\ worker \in [Clients -> {"start", "started", "marked", "written", "after", "sent", "done"}]
    /\ result \in [Clients -> Outcomes \cup {"none"}]
    /\ signal \in [Clients -> WatchdogMutationState]
    /\ seen \in [Clients -> WatchdogMutationState \cup {"none"}]
    /\ report \in [Clients -> Reports \cup {"none"}]
    /\ daemon \in {"up", "draining", "down"}
    /\ inbox \subseteq Clients /\ queue \subseteq Clients
    /\ current \in Clients \cup {Nobody}
    /\ phase \in {"none", "open", "started", "written"}
    /\ reply \in [Clients -> Replies \cup {"none"}]
    /\ rows \subseteq Clients

\* "No durable mutation started and retry is safe": the fact of a command that
\* was told so is not in the ledger and never gets there, although its job may
\* still be queued, running or shed when the answer is given.
RetryIsSafe == \A c \in Clients : report[c] \in {"not_started", "refused"} => c \notin rows

\* A command that reports its fact committed has it in the ledger, also when
\* the watchdog fired after the commit.
CommitReported ==
    \A c \in Clients : report[c] \in {"committed", "timed_out_committed"} => c \in rows

\* Every mutating command tells its caller something, whatever blocks.
CommandEnds == \A c \in Clients : <>(report[c] # "none")
=============================================================================
