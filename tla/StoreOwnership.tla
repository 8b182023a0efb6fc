--------------------------- MODULE StoreOwnership ---------------------------
(***************************************************************************)
(* Who may open facts.db: one command in direct mode, or one daemon        *)
(* (store.rs, store_client.rs, rallyd_core.rs).  Two advisory locks decide:*)
(* direct.owner.lock, taken EX by a direct command, and rallyd.owner.lock, *)
(* taken SH by the same command afterwards and EX by a daemon for its      *)
(* whole life.  A daemon publishes a socket, an address file and a pid     *)
(* file; a command that finds a live daemon behind them sends it its       *)
(* operations instead of opening the database.                             *)
(*                                                                         *)
(* The kernel drops the locks of a process that dies; the files stay.  The *)
(* three files are published and removed together here, and the socket     *)
(* path is the same for every daemon of a room, so the files are the name  *)
(* of the daemon that published them.  Deadlines may strike at any wait.   *)
(***************************************************************************)
EXTENDS FiniteSets

CONSTANTS
    Commands,   \* rally commands
    Daemons,    \* rally daemon serve processes
    None

ASSUME ProcessAssumption == Commands \cap Daemons = {} /\ None \notin Commands \cup Daemons

VARIABLES
    directEX,   \* holder of direct.owner.lock
    ownerEX,    \* daemon that holds rallyd.owner.lock exclusively
    ownerSH,    \* commands that hold it shared
    published,  \* daemon whose socket, address and pid files are on disk
    cmd,        \* where each command is
    offline,    \* commands that migrate offline (rally doctor)
    daemon      \* where each daemon is

vars == <<directEX, ownerEX, ownerSH, published, cmd, offline, daemon>>
lockVars == <<directEX, ownerEX, ownerSH>>

\* States in which a process may have facts.db open.  A store worker that
\* missed its deadline still runs until its process exits.
CommandHasDb == {"direct", "offline"}
DaemonHasDb == {"opening", "open_timeout", "serving", "closing", "close_timeout", "retained"}

Init ==
    /\ directEX = None /\ ownerEX = None /\ ownerSH = {} /\ published = None
    /\ cmd = [p \in Commands |-> "down"]
    /\ offline = {}
    /\ daemon = [d \in Daemons |-> "down"]

SetCmd(p, where) == cmd' = [cmd EXCEPT ![p] = where]
SetDaemon(d, where) == daemon' = [daemon EXCEPT ![d] = where]

-----------------------------------------------------------------------------
(* Commands *)

\* An ordinary command starts by looking for a daemon, the offline migration
\* goes straight for the locks.
CommandStarts(p) ==
    /\ cmd[p] = "down"
    /\ \/ SetCmd(p, "probe") /\ offline' = offline
       \/ SetCmd(p, "lock") /\ offline' = offline \cup {p}
    /\ UNCHANGED <<lockVars, published, daemon>>

\* A ping answered by the daemon behind the address file: the command routes.
\* Only a daemon with its dispatcher running answers; a refused or silent
\* socket counts as no daemon.
probe_live(p) ==
    /\ cmd[p] = "probe"
    /\ \/ /\ published # None /\ daemon[published] \in {"serving", "closing"}
          /\ SetCmd(p, "routed")
       \/ SetCmd(p, "lock")
    /\ UNCHANGED <<lockVars, published, offline, daemon>>

\* direct.owner.lock, without waiting.
acquire_direct_owner_exclusive_nb(p) ==
    /\ cmd[p] = "lock"
    /\ \/ directEX = None /\ directEX' = p /\ SetCmd(p, "lock_shared")
       \/ directEX # None /\ directEX' = directEX /\ SetCmd(p, "retry")
    /\ UNCHANGED <<ownerEX, ownerSH, published, offline, daemon>>

\* Mutant: the command believes its probe and does not ask the lock.
SharedWithoutLock(p) ==
    /\ cmd[p] = "lock_shared"
    /\ ownerSH' = ownerSH \cup {p} /\ directEX' = directEX
    /\ SetCmd(p, IF p \in offline THEN "offline" ELSE "direct")
    /\ UNCHANGED <<ownerEX, published, offline, daemon>>

\* Then rallyd.owner.lock shared; refused by a daemon, the first lock goes back.
acquire_owner_shared_nb(p) ==
    /\ cmd[p] = "lock_shared"
    /\ \/ /\ ownerEX = None
          /\ ownerSH' = ownerSH \cup {p} /\ directEX' = directEX
          /\ SetCmd(p, IF p \in offline THEN "offline" ELSE "direct")
       \/ /\ ownerEX # None
          /\ ownerSH' = ownerSH /\ directEX' = None
          /\ SetCmd(p, "retry")
    /\ UNCHANGED <<ownerEX, published, offline, daemon>>

\* An ordinary command probes again until its wait expires; the offline
\* migration gives up at once.
RetryRoute(p) ==
    /\ cmd[p] = "retry"
    /\ \/ p \notin offline /\ SetCmd(p, "probe") /\ offline' = offline
       \/ SetCmd(p, "down") /\ offline' = offline \ {p}
    /\ UNCHANGED <<lockVars, published, daemon>>

\* Before it waits for a daemon it has just started, or polls for an
\* acknowledgement, a direct command closes its store and gives up both
\* locks; later accesses route again.
release_direct_ownership(p) ==
    /\ cmd[p] = "direct"
    /\ directEX' = None /\ ownerSH' = ownerSH \ {p}
    /\ SetCmd(p, "probe")
    /\ UNCHANGED <<ownerEX, published, offline, daemon>>

\* A command ends, or is killed: the kernel drops its locks.
CommandExits(p) ==
    /\ cmd[p] # "down"
    /\ directEX' = IF directEX = p THEN None ELSE directEX
    /\ ownerSH' = ownerSH \ {p}
    /\ offline' = offline \ {p}
    /\ SetCmd(p, "down")
    /\ UNCHANGED <<ownerEX, published, daemon>>

-----------------------------------------------------------------------------
(* Daemons *)

DaemonStarts(d) ==
    /\ daemon[d] = "down"
    /\ SetDaemon(d, "locking")
    /\ UNCHANGED <<lockVars, published, cmd, offline>>

\* rallyd.owner.lock exclusively, once the direct commands are gone, or not
\* within the budget.
acquire_owner_exclusive_bounded(d) ==
    /\ daemon[d] = "locking"
    /\ \/ ownerEX = None /\ ownerSH = {} /\ ownerEX' = d /\ SetDaemon(d, "locked")
       \/ ownerEX' = ownerEX /\ SetDaemon(d, "down")
    /\ UNCHANGED <<directEX, ownerSH, published, cmd, offline>>

\* A stale socket is unlinked, the own one bound and the files written.
bind_socket(d) ==
    /\ daemon[d] = "locked"
    /\ published' = d
    /\ SetDaemon(d, "opening")
    /\ UNCHANGED <<lockVars, cmd, offline>>

\* The store opens on a worker: it succeeds, fails (or the readers before it
\* could not start), or is still at it when the deadline passes; then the lock
\* is kept until the process exits.
open_direct_store_bounded(d) ==
    /\ daemon[d] = "opening"
    /\ \E next \in {"serving", "open_failed", "open_timeout"} : SetDaemon(d, next)
    /\ UNCHANGED <<lockVars, published, cmd, offline>>

\* A stop signal or the idle limit: the dispatcher drains and closes.
Shutdown(d) ==
    /\ daemon[d] = "serving"
    /\ SetDaemon(d, "closing")
    /\ UNCHANGED <<lockVars, published, cmd, offline>>

await_dispatcher_close(d) ==
    /\ daemon[d] = "closing"
    /\ \E next \in {"closed", "close_timeout"} : SetDaemon(d, next)
    /\ UNCHANGED <<lockVars, published, cmd, offline>>

\* Mutant: the lock of a closed store is dropped before the files go.
CleanupAfterRelease(d) ==
    /\ daemon[d] \in {"open_failed", "open_timeout", "closed", "close_timeout"}
    /\ IF ownerEX = d /\ daemon[d] \notin DaemonHasDb
         THEN ownerEX' = None /\ UNCHANGED <<published, daemon>>
         ELSE /\ published' = None /\ ownerEX' = ownerEX
              /\ SetDaemon(d, IF daemon[d] \in DaemonHasDb THEN "retained" ELSE "released")
    /\ UNCHANGED <<directEX, ownerSH, cmd, offline>>

\* The files are removed first ...
cleanup(d) ==
    /\ daemon[d] \in {"open_failed", "open_timeout", "closed", "close_timeout"}
    /\ published' = None
    /\ SetDaemon(d, IF daemon[d] \in DaemonHasDb THEN "retained" ELSE "released")
    /\ UNCHANGED <<lockVars, cmd, offline>>

\* ... and the lock goes with the guard, or with the process if the guard is
\* kept.  A daemon may also be killed anywhere, or fail to bind.
DaemonExits(d) ==
    /\ daemon[d] # "down"
    /\ ownerEX' = IF ownerEX = d THEN None ELSE ownerEX
    /\ SetDaemon(d, "down")
    /\ UNCHANGED <<directEX, ownerSH, published, cmd, offline>>

-----------------------------------------------------------------------------
Command(p) ==
    \/ CommandStarts(p) \/ probe_live(p) \/ acquire_direct_owner_exclusive_nb(p)
    \/ acquire_owner_shared_nb(p) \/ RetryRoute(p) \/ release_direct_ownership(p)
    \/ CommandExits(p)

Daemon(d) ==
    \/ DaemonStarts(d) \/ acquire_owner_exclusive_bounded(d) \/ bind_socket(d)
    \/ open_direct_store_bounded(d) \/ Shutdown(d) \/ await_dispatcher_close(d)
    \/ cleanup(d) \/ DaemonExits(d)

Next == (\E p \in Commands : Command(p)) \/ (\E d \in Daemons : Daemon(d))

Spec == Init /\ [][Next]_vars

-----------------------------------------------------------------------------
(* Properties *)

CommandStates ==
    {"down", "probe", "routed", "lock", "lock_shared", "retry", "direct", "offline"}
DaemonStates ==
    {"down", "locking", "locked", "opening", "open_failed", "open_timeout", "serving",
     "closing", "closed", "close_timeout", "retained", "released"}

TypeOK ==
    /\ directEX \in Commands \cup {None}
    /\ ownerEX \in Daemons \cup {None}
    /\ ownerSH \subseteq Commands
    /\ published \in Daemons \cup {None}
    /\ cmd \in [Commands -> CommandStates]
    /\ offline \subseteq Commands
    /\ daemon \in [Daemons -> DaemonStates]

\* At most one process has facts.db open, whatever the order in which commands
\* and daemons start, wait, hand over, time out and die.
Owners == {p \in Commands : cmd[p] \in CommandHasDb} \cup {d \in Daemons : daemon[d] \in DaemonHasDb}
SingleOwner == \A a, b \in Owners : a = b

\* A serving daemon can be found: its files are the ones on disk, no other
\* daemon, late or dying, replaces or removes them.
ServingIsPublished == \A d \in Daemons : daemon[d] \in {"serving", "closing"} => published = d
=============================================================================
