# Verification of the Rally room

TLA+ models of the part of `rally` that other agents rely on: the room's ledger and
its archive, the protocol that appends to it, who may own it, and the rules that hang
off it (claims, the lead seat, session identities, handoffs), and of the cockpit daemon
that gates and streams an agent's events. TLC checks the models on small
instances, TLAPS proves the safety properties for every instance.

All paths are relative to `src/`; `store.rs` and so on are files of
`crates/rally-cli/src/`.

## Inventory

| Component | State | Operations | Hard behaviour | What makes it correct |
|---|---|---|---|---|
| Room ledger (`store.rs`) | JSONL segments in `.rally/log`, `facts.db`, the reconcile sidecar, `mutation.lock` | open and reconcile, append, retry, tail repair, projection | kill or power loss between any two of write, sync, readback, projection; retries with a known id; a stale sidecar | unique sequence numbers, one row per event id and per idempotency key, a reported commit is durable, the sidecar is honest |
| Monolith migration (`store.rs`) | the old one-file ledger, segments, archive | split, sync, archive | kill inside a line, rerun on top | no history lost, the room still opens |
| Watchdog and routed mutations (`lib.rs`, `store_client.rs`, `rallyd_core.rs`) | deadline, commit signal, socket, job queue, dispatcher | dispatch, read, queue, run, reply, time out | a timeout racing a commit; a lost reply; shed, drained and killed daemons | what a command tells its caller is true, and it tells something |
| Store ownership (`store.rs`, `rallyd_core.rs`) | `direct.owner.lock`, `rallyd.owner.lock`, socket, address and pid files | probe, lock, route, hand over, bind, open, close, clean up | a daemon that starts after the probe; a store worker that outlives its deadline | one owner of `facts.db`; a serving daemon can be found |
| Claims (`claim_authority.rs`, `write_authority.rs`, `reaper.rs`, `observed_liveness.rs`, `retraction.rs`) | the facts of the room, agents' processes | claim, renew, release, take over, reap, retract, close a session | decisions on a snapshot read without the lock; leases; sibling sessions | disjoint claims; nobody loses a live claim |
| Lead seat (`write_authority.rs`, `claim_authority.rs`, `liveness.rs`, `reaper.rs`) | lead decisions, blockers, signs of life | join, assign, relinquish, seize, retract, reap | a decision prepared on an old snapshot; retraction as a transfer; a lead that drops out of view | no live lead loses the seat, a dead one gives it up, a blocker keeps its meaning |
| Session identities (`lib.rs`, `store.rs`) | session rows | launch, adopt, refresh, fail, stop, reap | compare and swap on rows read earlier; plain appends after it | one holder per identity |
| Handoffs and obligations (`store.rs`, `lib.rs`, `reaper.rs`) | requests, replies, answers, expiries, retractions | hand off, reply, answer, expire, retract | two receivers of one directive; closing by a third party | one receiver, no request leaves an inbox unanswered |
| Rotation (`rotate.rs`) | live and archived segments, hard links between them | plan, link, sync, unlink | kill or power loss between two steps, generations, the name of the monolith's backup | same canonical rows before and after |
| Daemon autostart (`daemon_autostart.rs`) | a marker file | claim an attempt | age check and removal are two steps | one attempt per interval |
| Views (`board.rs`, `next.rs`, `relevance.rs`, `liveness.rs`) | none of their own | folds over facts | - | agreement with the ledger |
| Queues and budgets (`open_queue.rs`, `backlog.rs`, `retry_budget.rs`, `supervise.rs`) | backlog items, a deadline | add, update, finish, retry | an update that inherits from an item read earlier | no update undone, bounded retries |
| Router and delivery (`rally-router-core`, `rally-protocol`) | delivery receipts | plan, deliver, acknowledge | duplicates | at-least-once with receipts |
| Cockpit (`cockpitd`) | sessions, events, approvals, gates, connections | launch, pump, approve, sweep, replay, stream | expiry racing approval, lost wake-ups, replay beside the live stream | a held call is broadcast only if allowed, no gap, no pump parked for ever |

Components interact through the ledger. A command finds a daemon and routes to it,
or takes both locks and owns the store (StoreOwnership). Its mutation travels over
the socket or runs in the process, under the watchdog (RoutedMutation), and ends in
an append under the mutation lock (RoomLedger), where the policy gates decide
(ClaimLifecycle, LeadSeat, Sessions, Handoffs). Migration and rotation move the
ledger's files under the same lock (MonolithMigration, SegmentRotation). The cockpit
has a store of its own. `PROJECT.json` lists the hazards with their lines.

## Modules

| Module | Models |
|---|---|
| `RoomLedger` | the canonical append path and its recovery |
| `LedgerContract` | what the ledger promises: an append-only set of rows with growing numbers and distinct ids, some of them reported committed |
| `RoomLedger_proofs` | proofs, with and without power loss, and the refinement |
| `RoutedMutation`, `RoutedMutation_proofs` | one mutating command per client, direct or routed |
| `StoreOwnership`, `StoreOwnership_proofs` | the two owner locks and the daemon's life |
| `MonolithMigration` | the one-time split of the old ledger |
| `SegmentRotation`, `SegmentRotation_proofs` | extends it: appends, rotation and power loss on log and archive |
| `ClaimLifecycle`, `ClaimLifecycle_proofs` | claims from the first fact to the reaper |
| `LeadSeat`, `LeadSeat_proofs` | the lead, the squads that are visible, and the room freeze |
| `Sessions` | numbered identities of managed sessions |
| `Handoffs`, `Handoffs_proofs` | extends it: requests, replies, obligations; the proofs are about both |
| `Cockpit`, `Cockpit_proofs` | the cockpit daemon's tasks and store |
| `MC*` | instances for TLC |

Operators commented "Mutant" or "Mistake" are not used by any specification. Each changes one definition the way a
plausible bug would; with it in place TLC refutes the property it is paired with in
`PROJECT.json`.

### RoomLedger

`rows`, `durable` and `end` are the segments: the rows a reader parses, those a sync
covered, and the state of the last bytes of each file (clean, an unterminated row, a
fragment, a line that will never parse). `db` and `cache` are `facts.db` and the
sidecar; a fingerprint is the content it was measured from. A process opens
(`Open`, `Reconcile*`, `Replay`), asks for the lock, resolves the identity of its
fact (`SkipsScan`, `FoundExisting`, `FoundByKey`, `AppendRefused`), gets a number (`AllocateSeq`),
repairs the tail, writes, syncs and reads back (the commit), and projects.
Each can fail on its own; `Crash` and `CrashWriting` kill the process, `PowerLoss`
also loses a suffix of what was not synced, lets `facts.db` rewind and may drop the
sidecar. The archive directory is part of `rows`; the gates between identity and write
are `GateRefused`. A handoff that is sent again by a new run of its command has a new
id and the same idempotency key (`KeyOf`); `FoundByKey` answers it with the row that
has the key, and `exposed` are the rows so answered for that no sync had covered and none
has covered since. `Contract == INSTANCE LedgerContract WITH ...` is the refinement
mapping: the contract's rows and reports are the ledger's.

### RoutedMutation

`timer`, `seen` and `report` belong to the main thread, `worker`, `result` and
`signal` to the worker; `inbox`, `queue`, `current` and `phase` are the daemon's
socket, job channel and dispatcher. A timer has one mark for the mutation deadline
and everything after it, since each later timeout (socket, reader, watchdog) only adds
a reserve to it. The dispatcher may take jobs in any order. A reader that cannot read
its request answers "transport", which the client takes for unknown. The worker thread is
always there: `run_with_watchdog` runs the command inline, without a watchdog, when no
thread can be spawned (`lib.rs:1106`), and `CommandEnds` does not speak of that. A reply
to an append carries one fact of bounded size, so the error that stands in for an
oversized reply (`rallyd_core.rs:739`) is left out.

### StoreOwnership

`directEX`, `ownerEX` and `ownerSH` are the two `flock`s, `published` is the daemon
behind the files on disk. A daemon whose store worker missed a deadline keeps the lock
("retained") until its process ends.

### MonolithMigration

One line at a time, text and newline separately, with kills inside the text and power
loss anywhere.

### SegmentRotation

`archive` maps a segment name and a generation to what the file holds; while a live
segment and an archive name are hard links to one file, `link` says so and the content
is that of the live segment. `onDisk` is what the last sync of the archive directory
covered, `gone` remembers an unlinked live segment until the log directory is synced.
The five steps of `durable_install_rotation` are five actions; a kill or an error
between two of them is `RotationStops`. `LosePower` drops names whose directory was not
synced and brings removed names back. A file that was synced after it was created keeps
its name: this is what the file systems rally runs on do, not what POSIX promises. It
covers the migrated segments and the archive rename of the monolith, whose
directories are never synced (`store.rs:14268`, `store.rs:14282`), and the creation of
the archive directory (`rotate.rs:607`).
`files_identical` compares bytes, and a migration that was interrupted may have written
a line twice, so files with equal rows may or may not be identical (`MayBeIdentical`).

### ClaimLifecycle

The ledger is a sequence of facts, whose position is id and sequence number; which
claims are active is computed from it as in `claim_authority.rs`. Commands that do
everything under the lock are one step (`SayClaim`, `SayClose`, `renew_claim_lease`,
`retract_in_room`, `Presence`, `SessionClose`). Release by path and the reaper
prepare a fact from a snapshot (`command_release_by_path`, `ReapStale`) and append it
later (`AppendPrepared`), when `Admits` judges it again. The verdict of a probe is
chosen from what the observer can see (`Verdicts`): a dead process of a stamped agent
may look stale, any agent may look alive or unknown.

`LiveClaimKept` counts the facts that stand: a withdrawn presence no longer counts for
an owner's liveness, and the code says so on purpose (`store.rs:10485`). Any agent may
withdraw any fact but a withdrawal, as the code allows: a release, a session close and a
presence included. Only the withdrawal of an active claim and of the lead decision is
gated. What this does to claims is in three properties: `ClaimsDisjoint` is false
(`claims_withdrawn`), `OverlapNeedsWithdrawal` says that nothing else makes it false, and
`ClosedHoldsNothing` says what a withdrawn close gives back. `LiveClaimKept` also
allows for the tick between the time a command puts on its fact and the append: the
owner's latest fact by position can be that much older than another one.

### LeadSeat

A sequence of facts, as above. `append_fact` applies the two gates of
`write_authority.rs` under the lock. `ensure_presence` and `reap_stale_lead` decide on
a snapshot and append later (`AppendDraft`), as the code does. `work` stands for the
three further signs of life beside presence; `ProvablyStale` needs all of them present
and old, and such an agent is not in `squads`. A blocker freezes the room while it is
active (`active_blockers`: neither withdrawn nor closed by `Resolve`, which stands
for every fact that closes what it refers to: resolve, release, receipt and claim.expired)
and if its author led when it was written. Any fact but a withdrawal may be withdrawn,
the lead decision through its gate.

### Sessions and Handoffs

A launch reads the session rows (`ReadContext`), picks the lowest free number and
appends if nothing was added since (`Reserve`). The version it compares is one number
here; in the code the read returns the sequence of `facts.db` (`store.rs:7189`) and the
append compares with that of the segments (`store.rs:6896`), which may be larger
after the rebuild of a ledger with holes (`store.rs:1210`): the append is then refused,
and the launch gives up after its retries. It never accepts what the model refuses. `Refresh`, `LaunchFails` and
`StopAppend` are plain appends. The reservation lock is left out: it removes
behaviours, and the build for systems other than unix has none.

`Handoffs` adds the other rows. `Prepare` is `resolve_referenced_handoff_binding`, which
reads without the lock; `Submit` judges the row again. `open_handoffs` and
`open_obligations` are two projections with different closing rules, on purpose: the
reaper's expiry closes a handoff and leaves the inbox alone. A managed session of
`Sessions` is a party of `Handoffs` by its number. `SayRetraction` is an artifact
written with the subject of a retraction, which no guard of the retract command sees.

### Cockpit

One action per stretch of a task between two points where another may run: the
supervisor's mutex, the mutex of the gates, and the awaits. An approval is named by the
session and seq of the event that asked for it, `permits` are the stored permits of
`tokio::sync::Notify`, a connection's `queue` is its receiver of the broadcast channel,
which loses its oldest event when it is full. `Restart` keeps the store only.
A read or a write of the store may fail (`StoreFails`). `append_event` inserts the row and
bumps `last_seq` in two transactions: when the second fails, the session is `behind` and
no later event of it can be stored. A read that fails in `open_session` is an empty
snapshot (`OpenReplay`), and `missed` remembers what it left out. A request of the adapter
carries an id of the adapter's choice, which may have a row already (`Names`).

## Runs

| Run | Shows | Distinct states |
|---|---|---|
| `ledger_power` | `SeqUnique`, `AckedDurable`, `NoCorruptLine`, `KeyUnique` under kills and power losses | 3.7 million |
| `ledger_crash` | `IdUnique`, `ProofHonest`, the refinement of `LedgerContract`, types, and `RequestEnds`: every append that asks for the lock returns | 76 thousand |
| `routed_outcomes` | "retry is safe" and "committed" are true; every mutating command answers its caller | 27 thousand |
| `archive_history` | `RoomKept`: a room that opens has every line of the monolith and every reported row; `RotationInvisible`: no step of a rotation changes what is replayed | 1.1 million |
| `ownership` | one owner, and a serving daemon is the published one | 7 thousand |
| `claims` | two owners share a file only where a close was withdrawn; a closed session holds nothing unless its close was withdrawn, and then only older claims; no live claim is taken by release, sweep, takeover, withdrawal or the reaper, which closes for a dead process only if it is dead at the append | 2.7 million |
| `lead_seat` | `SeatKept`: a lead heard from within the large timeout loses the seat only by its own fact or a recorded seizure; `FreezeSettled`: later transfers neither arm nor disarm a blocker | 600 thousand |
| `handoffs` | `IdentityExclusive`, `OneReceiver`, `ObligationKept` | 1.4 million |
| `cockpit` | `ForwardedIsAllowed`, `NoGap`, and `PendingReleased`: a pump that waits for a pending approval goes on | 935 thousand |

Runs that end in a violation, each against a sentence of the repository:

| Run | The code | The sentence |
|---|---|---|
| `migration_interrupted` | segments are appended to in place; a rerun continues a fragment and the room refuses to open | "Atomic write per partition" (`store.rs:14263`) |
| `lead_recover` | the gate looks for the lead among the squads of a snapshot that drops provably stale ones, and takes a lead it does not find for live | "Without this, a crashed lead freezes the seat forever" (`write_authority.rs:659`) |
| `claims_withdrawn` | anybody may withdraw the release of a claim; the claim is active again without a conflict check, beside the one that was taken since | "so two live claims never share a scope ... The premise is true" (`claim_authority.rs:306-310`) |

### What the models also show

These have no run of their own; each can be seen by changing a configuration.

- `ProofHonest` under `PowerLossSpec`: equal count and maximum make `facts.db` current,
  also when a power loss took a row from the segments only and its number was given away
  again, against "that `facts.db` holds exactly that set" (`store.rs:12700`).
- A command whose watchdog fires before it is certain prints "the fact was NOT written"
  (`lib.rs:1757`). A routed command never records that its outcome is unknown, so this is
  said of facts that the daemon has committed; a direct worker may start the append after
  the watchdog read the signal and before the process exits. `RetryIsSafe` and
  `CommitReported` are about the two answers that are certain.
- A handoff repeated with its key after a sync that failed is reported committed while its
  row is in no synced part of the file: `AckedDurable` without `exposed` fails under
  `PowerLossSpec`. A retry by id syncs first (`store.rs:5536`).
- An owner whose presences are withdrawn is silent to a takeover, however recently it
  wrote.
- `ObligationKept` admits any retraction that names the obligation, since `SayRetraction`
  passes by the guard of `retract_in_room`, which the comment at `store.rs:9813`
  takes for the only door.
- In `Cockpit`, a decision between `insert_approval` and `RegisterGate` finds no gate and
  the pump stays parked (`PendingReleased` speaks of pending rows only), and so does one
  whose adapter repeats the id of a decided request (`ws.rs:1061`), until another approve
  command; a failed read in `open_session` leaves a silent gap ("no gaps/dupes",
  `ws.rs:13`); a failed bump of `last_seq` ends the storing of the session's events; an approve
  command and the sweep overwrite each other; an event stored before the replay
  and broadcast after it is sent twice (against the same line); a held call is not
  broadcast but `open_session` hands out its stored event (`ws.rs:408`), before and after
  the decision; a killed
  session becomes completed when its output ends, though killed is called terminal
  (`supervisor.rs:16`).

### Bounds

- `MaxSeq` stands for `i64::MAX`; with 2 it is reached in `ledger_crash`, with 3 there
  is room for two ids, a lost row and a number given twice. Two segments are needed
  for a number that is reused in another file, two processes for an id that one of them
  thinks fresh. `ledger_power` has one process, since power loss restarts it
  anyway and the lock lets one append at a time; the theorem has any number.
- A routed and a direct client in `routed_outcomes`; the theorems have any number. Three daemons let one die while the second starts and the third waits.
- Three monolith lines in two engagements give a partition with a first and a last line
  and one that starts after it; the second engagement has the name of the monolith's
  backup. `MaxRow = 5` leaves two appends, so that a segment is rotated, written to and
  rotated again; `MaxGen = 1` is the generation after the first.
- `MaxFacts`, `MaxTime` and `MaxDrafts` bound the claim runs (they stop there, so deadlock is not
  checked). Three facts are two claims and the release that sweeps both, or a claim, the
  owner's return and the reaper's late close. One withdrawal may come on top of `MaxFacts`
  (`MaxRoom`): after a claim, its release and the next claim, for the revived one.
  `claims_withdrawn` has two peers only.
  `Small` and `Large` differ so that both timeouts occur; `MaxAge` applies to claims
  without a lease only and is short so that they come of age within `MaxTime`.
  A prepared command outlives one tick at most: its watchdog is seconds, a tick half
  an hour. `MaxDrafts` bounds how many commands stand between their snapshot and their
  append at once: with 2, a late takeover and a late reaper pass on the same claim
  meet, while the third agent's one-step commands still interleave with both.
- `lead_seat`: five facts are two agents' presences, a decision, the fact that
  counters it and the late decision. `lead_recover` needs a time beyond both windows.
- `handoffs`: four rows are an artifact or a directive with two replies and a retraction,
  or a reservation, a stop and a second reservation beside a handoff. One sender and one
  root row keep the instance small; the receivers are a sibling of the sender, a
  peer and two managed sessions. The room stops at the bound, so deadlock is
  not checked.
- `cockpit`: three events are a held call, its request and what follows from the
  decision, or three plain events past a channel of capacity 1. One session and one
  client: sessions share nothing but the channel, and another client may do nothing but
  read. `MaxErrors` bounds the failed reads and writes of the store. A connection opens a
  session once: opening it again reads and subscribes as before.
- Symmetry is used for interchangeable processes, clients, ids, segments and files,
  never in a run with a liveness property.

### Fairness

`ledger_crash` assumes that a process that can take a step of its own takes one: the
lock wait has a deadline (`acquire_exclusive_until`) and nothing inside the locked
region waits for another process. Requests and kills get no fairness. `routed_outcomes`
assumes it of the main thread and its clock only, not of the worker, the daemon, the
disk or the socket: that is what the watchdog is for. `cockpit` assumes that the
runtime polls every task that is ready, that time passes (each pending approval is
listed by some sweep) and nothing of clients or agents.

## Proofs

| Module | Theorem | Statement |
|---|---|---|
| `RoomLedger_proofs` | `TypeCorrect`, `SeqUniqueHolds`, `AckedDurableHolds`, `NoCorruptLineHolds`, `KeyUniqueHolds` | `PowerLossSpec => []P` for `TypeOK` and the four invariants of `ledger_power` |
| | `IdUniqueHolds`, `ProofHonestHolds` | `Spec => []P` for the two invariants of `ledger_crash` |
| | `LedgerRefines` | `Spec => ContractSpec` |
| `RoutedMutation_proofs` | `TypeCorrect`, `RetrySafeHolds`, `CommitReportedHolds` | the types and the two promises of a command's answer |
| `StoreOwnership_proofs` | `SingleOwnerHolds`, `ServingIsPublishedHolds` | the two promises of the locks |
| `SegmentRotation_proofs` | `RoomKeptHolds`, `RotationInvisibleHolds` | the invariant and the action property of `archive_history` |
| `ClaimLifecycle_proofs` | `OverlapNeedsWithdrawalHolds`, `ClosedHoldsNothingHolds` | the two invariants, whatever is withdrawn |
| | `LiveClaimKeptHolds`, `ReapedIsDeadHolds` | the two action properties, whatever is withdrawn |
| `LeadSeat_proofs` | `SeatKeptHolds`, `FreezeSettledHolds` | the two action properties, whatever is withdrawn |
| `Handoffs_proofs` | `IdentityExclusiveHolds`, `OneReceiverHolds`, `ObligationKeptHolds` | the invariant of `Sessions`, the invariant and the action property of `Handoffs` |
| `Cockpit_proofs` | `ForwardedIsAllowedHolds`, `NoGapHolds` | the two invariants |

Each holds for all values of the constants that satisfy the named assumptions beside
their declarations: ids and segments of the ledger are finite sets, bounds and timeouts
are natural numbers, the channel of the cockpit holds at least one event, the tool of an
agent has a family, and the values that stand for "nobody" (`None`, `NoTool`, `NoAgent`,
`Reaper`) are no members of the sets they are compared with. TLC evaluates them in every run.

*Ledger with power loss.* `SeqUnique` is not inductive: that the next write keeps it
needs that the number a process holds is above all rows until it writes
(`SeqAhead`), which needs that only the lock holder is inside (`LockHeld`).
`NoCorruptLine` needs `WriteClean`, a clean tail at the moment of the write;
`AckedDurable` needs `Written`, that a row about to be reported is canonical, and sets
the rows apart that were answered for by key. `KeyUnique` needs `KeyAhead`: from the scan
to the write no row has the key of the one to be written. All of
it survives `PowerLoss` because the processes are gone and only unsynced rows are.

*Ledger without power loss.* `ProofHonest` rests on `DbCanonical`: `facts.db` holds
nothing that is not canonical. Then equal counts of finite sets mean equal sets
(`EqualStats`), and the one-row advance of the sidecar is exact (`ProofTrue`). This is
what a power loss breaks. `IdUnique` needs
that a fresh id is known to one process and names no row (`FreshUnused`), and that a
scan or an honest index found the id absent (`IdAhead`). The refinement is
the identity mapping on rows and reports.

*RoutedMutation.* A denial ("nothing started") is final because whoever issues it
holds the only copy of the request (`Places`, `DenialFinal`).

*StoreOwnership.* What each process holds at each step (`CommandLocks`,
`DaemonLocks`) and that shared and exclusive mode exclude each other.

*SegmentRotation.* That no step changes what is replayed needs `TargetSound` (from the
link to the unlink the archive holds what the live segment holds) and that the backup's
name is never given to a segment (`NamesSound`). `RoomKept` needs an account of
where a row survives a power loss (`Safe`): in the synced part of a live segment whose
name is settled, or in an archive file whose name was synced; if that file's old
live name may come back, the row is also in what was synced of it, since the
live segment then takes its place. Each step moves a row from one of these places to
another. For the lines of the monolith, `PassWrote` says what a migration pass has
done, and at its end each line is safe or its segment does not read and never will
(`Stuck`); such a room is refused, which is why `RoomKept` speaks of rooms
that open. `migration_interrupted` shows how one gets there.

*ClaimLifecycle.* `ClaimInv` is small, because the projections are recomputed from the
facts: the proof shows what one appended fact does to them (`RoomGrows` and the lemmas
after it), for a fact of each kind. It says that a retraction names an earlier
fact (`RetractsBack`), that a prepared command is no
retraction and at most one tick old (`DraftsSound`), that rows are therefore in order
of their time up to one tick (`RowsTimed`), and that nothing follows a close under
its session (`ClosedIsFinal`), withdrawn or not. `OverlapNeedsWithdrawal` rests on
`ConflictChecked`: of two claims that share a file, the older one was withdrawn or closed
when the newer one was appended, because `Admits` asks again under the lock. If both
are active now, the older one is not withdrawn and its close does not stand, so the close
is. A retraction is never withdrawn itself, so what it took away stays away. For
`LiveClaimKept` the gate looked at the owner's latest fact by position, and
`RowsTimed` turns that into every standing fact; for `ReapedIsDead`, the reaper gives
age as its reason only when it saw no dead process, unless the claim has no session to
look for (`ReapOf`).

*LeadSeat.* The lead of a set of rows depends on the decisions in it and nothing else
(`SameDecisions`), so a fact that is no decision leaves the lead, and the lead at the time of every
blocker, as they were. What is prepared on a snapshot is always a decision
(`DraftsDecide`), and a decision is judged by both gates at the append, which is
`SeatKept`. Nor does a later decision, or the withdrawal of one, reach back before a
blocker: the lead of its moment depends on the decisions before it that stand. Closing and
withdrawing are the cases that `FreezeSettled` lists. A retraction only names earlier rows (`RetractsBack`), so a new fact is
never already withdrawn.

*Sessions and Handoffs.* A chosen number is free as long as no session row was added
(`ChosenFree`), and a standing reservation keeps its number active
(`ReservedActive`): the compare and swap does the rest. In `HandoffInv` a row refers back only
(`RowsSound`), a prepared one is the session's own and cites a row of the room
(`DraftsSound`), and every reply is from the session that its handoff is bound to now
(`RepliesBound`). The last part is the strengthening that `OneReceiver` needs: a
directive is bound by its first reply, and the gate compares with that under the lock.

*Cockpit.* `GateInv`: the row of an approval says "allow" only if its owner did
(`AllowRecorded`), the pump works on a stored event (`PumpAtEvent`), and one that is about
to broadcast a tool call read "allow" (`PlainAllowed`). No step takes an "allow"
back from the ghost variable, so an overwritten row does no harm. `GapInv`: what was
broadcast is stored (`SentStored`), and a connection that did not lag has, or finds in
its queue, all that was broadcast of a session it follows and no failed read left out; while it opens one, what was
broadcast is in the replay or behind it in the queue (`ConnKept`). This
holds because the receiver starts with the connection, before any replay is read.

### Only model-checked

- `RequestEnds`, `CommandEnds` and `PendingReleased`: liveness under fairness is out of the
  prover's reach.
- The three violations, which are counterexamples.

## Not modelled

- Reply states of handoffs, escalation, the target "all", directives of old binaries
  without a session, and the views that rank or render facts: they read the projections
  that are modelled and write through the same append.
- In the validation of a referenced handoff the rules for the author of the reference and
  for a third party are one (`store.rs:1505-1589`), and the target "all" counts as none.
- Wildcard scopes of claims: a scope is a set of files here.
- Session close tokens, explicit identities, and the checks of `adopt` on its target.
- `daemon_autostart`: the throttle limits attempts; two daemons at once are in
  `StoreOwnership`.
- Open queue, supervision and retry budget: read-only folds and arithmetic on a
  deadline. The backlog: an update reads the latest item and appends the next one
  without the lock, so of two concurrent ones the later append undoes the other
  ("Omitted fields inherit from the latest item", `backlog.rs:234`); no rule of the
  modelled parts reads these rows.
- The router's planner and delivery records: pure functions and record types.
- Consent, audit, authentication and relay of the cockpit, and the parsing of what an
  agent prints.
- Rendering, terminal and worktree handling, hooks, installation, doctor, user
  interfaces and the vendored SQLite store: I/O or presentation without state of
  the room.

Most lines of the repository are of the last kind or are tests inside the source files
(half of `store.rs`, most of `reaper.rs`), so the modelled lines are a small
share of all lines, though they hold the protocol.
