----------------------- MODULE StoreOwnership_proofs -----------------------
(***************************************************************************)
(* Proof that facts.db has one owner and that a serving daemon is the      *)
(* published one, for any number of commands and daemons.                  *)
(*                                                                         *)
(* SingleOwner is not inductive: it needs what each process holds at each  *)
(* of its steps (CommandLocks, DaemonLocks) and that the two modes of      *)
(* rallyd.owner.lock exclude each other.                                   *)
(***************************************************************************)
EXTENDS StoreOwnership, TLAPS

\* A command past the first lock holds it, and holds the second one exactly
\* while it has the database.
CommandLocks ==
    \A p \in Commands :
        /\ cmd[p] \in {"lock_shared", "direct", "offline"} => directEX = p
        /\ cmd[p] \in CommandHasDb <=> p \in ownerSH

\* A daemon holds the owner lock from the moment it got it until it ends.
DaemonLocks ==
    \A d \in Daemons : daemon[d] \notin {"down", "locking"} => ownerEX = d

\* flock: shared or exclusive.
LockModes == ownerEX = None \/ ownerSH = {}

\* What a daemon published stays until it cleans up.
Published ==
    \A d \in Daemons :
        daemon[d] \in {"opening", "open_failed", "open_timeout", "serving", "closing",
                       "closed", "close_timeout"} => published = d

Inv == TypeOK /\ CommandLocks /\ DaemonLocks /\ LockModes /\ Published

-----------------------------------------------------------------------------
LEMMA InvInit == Init => Inv
BY ProcessAssumption DEF Init, Inv, TypeOK, CommandLocks, DaemonLocks, LockModes, Published,
    CommandStates, DaemonStates, CommandHasDb

\* Command steps.
LEMMA CommandKeepsInv == ASSUME Inv, NEW p \in Commands, Command(p) PROVE Inv'
<1> USE ProcessAssumption DEF Inv, TypeOK, CommandLocks, DaemonLocks, LockModes, Published,
        CommandStates, CommandHasDb, SetCmd, lockVars
<1>1. CASE CommandStarts(p)
  BY <1>1 DEF CommandStarts
<1>2. CASE probe_live(p)
  BY <1>2 DEF probe_live
<1>3. CASE acquire_direct_owner_exclusive_nb(p)
  BY <1>3 DEF acquire_direct_owner_exclusive_nb
<1>4. CASE acquire_owner_shared_nb(p)
  BY <1>4 DEF acquire_owner_shared_nb
<1>5. CASE RetryRoute(p)
  BY <1>5 DEF RetryRoute
<1>6. CASE release_direct_ownership(p)
  BY <1>6 DEF release_direct_ownership
<1>7. CASE CommandExits(p)
  BY <1>7 DEF CommandExits
<1> QED
  BY <1>1, <1>2, <1>3, <1>4, <1>5, <1>6, <1>7 DEF Command

\* Daemon steps.
LEMMA DaemonKeepsInv == ASSUME Inv, NEW d \in Daemons, Daemon(d) PROVE Inv'
<1> USE ProcessAssumption DEF Inv, TypeOK, CommandLocks, DaemonLocks, LockModes, Published,
        DaemonStates, SetDaemon, lockVars
<1>1. CASE DaemonStarts(d)
  BY <1>1 DEF DaemonStarts
<1>2. CASE acquire_owner_exclusive_bounded(d)
  BY <1>2 DEF acquire_owner_exclusive_bounded
<1>3. CASE bind_socket(d)
  BY <1>3 DEF bind_socket
<1>4. CASE open_direct_store_bounded(d)
  BY <1>4 DEF open_direct_store_bounded
<1>5. CASE Shutdown(d)
  BY <1>5 DEF Shutdown
<1>6. CASE await_dispatcher_close(d)
  BY <1>6 DEF await_dispatcher_close
<1>7. CASE cleanup(d)
  BY <1>7 DEF cleanup, DaemonHasDb
<1>8. CASE DaemonExits(d)
  BY <1>8 DEF DaemonExits
<1> QED
  BY <1>1, <1>2, <1>3, <1>4, <1>5, <1>6, <1>7, <1>8 DEF Daemon

\* The locks, the files and the places the processes are in agree, always.
THEOREM InvHolds == Spec => []Inv
<1>1. Inv /\ [Next]_vars => Inv'
  <2> SUFFICES ASSUME Inv, [Next]_vars PROVE Inv'
    OBVIOUS
  <2>1. CASE \E p \in Commands : Command(p)
    BY <2>1, CommandKeepsInv
  <2>2. CASE \E d \in Daemons : Daemon(d)
    BY <2>2, DaemonKeepsInv
  <2>3. CASE UNCHANGED vars
    BY <2>3 DEF vars, Inv, TypeOK, CommandLocks, DaemonLocks, LockModes, Published
  <2> QED
    BY <2>1, <2>2, <2>3 DEF Next
<1> QED
  BY InvInit, <1>1, PTL DEF Spec

\* At most one process, command or daemon, ever has facts.db open: two
\* commands would both hold direct.owner.lock, two daemons rallyd.owner.lock,
\* and a command and a daemon would hold that lock in both modes.
THEOREM SingleOwnerHolds == Spec => []SingleOwner
<1>1. Inv => SingleOwner
  <2> SUFFICES ASSUME Inv, NEW a \in Owners, NEW b \in Owners PROVE a = b
    BY DEF SingleOwner
  <2>1. CASE a \in Commands /\ b \in Commands
    BY <2>1, ProcessAssumption DEF Inv, CommandLocks, Owners, CommandHasDb
  <2>2. CASE a \in Daemons /\ b \in Daemons
    BY <2>2, ProcessAssumption DEF Inv, DaemonLocks, Owners, DaemonHasDb
  <2>3. ASSUME NEW p \in Commands, NEW d \in Daemons, p \in Owners, d \in Owners PROVE FALSE
    BY <2>3, ProcessAssumption
       DEF Inv, CommandLocks, DaemonLocks, LockModes, Owners, CommandHasDb, DaemonHasDb
  <2> QED
    BY <2>1, <2>2, <2>3 DEF Owners
<1> QED
  BY <1>1, InvHolds, PTL

\* The address file names the daemon that serves, so a probe finds it.
THEOREM ServingIsPublishedHolds == Spec => []ServingIsPublished
<1>1. Inv => ServingIsPublished
  BY DEF Inv, Published, ServingIsPublished
<1> QED
  BY <1>1, InvHolds, PTL
=============================================================================
