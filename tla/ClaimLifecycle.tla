--------------------------- MODULE ClaimLifecycle ---------------------------
(***************************************************************************)
(* Claims: how an agent takes files, keeps them, gives them up, and how a  *)
(* peer or the reaper may take them away (claim_authority.rs,              *)
(* write_authority.rs, the gates of DirectRoomStore::append_fact in        *)
(* store.rs, reaper.rs, observed_liveness.rs, retraction.rs).              *)
(*                                                                         *)
(* The room is an append-only sequence of facts; which claims are active   *)
(* is a projection of it.  append_fact admits or refuses a fact under the  *)
(* mutation lock.  Release by path and the reaper prepare theirs from a    *)
(* snapshot they read WITHOUT the lock; anything may happen before they    *)
(* append it.                                                              *)
(*                                                                         *)
(* A fact's id and its seq are its position.  Scopes are sets of files; a  *)
(* set with one file is "small" work.  Time is in units of the small       *)
(* reclaim timeout; a command outlives at most one tick, its watchdog      *)
(* being far shorter than that.  The lead seat, handoffs and the wildcard  *)
(* scopes that need the lead are not part of this module.                  *)
(***************************************************************************)
EXTENDS Integers, Sequences, FiniteSets, FiniteSetsExt

CONSTANTS
    Agents,        \* identities commands run under: [tool |-> .., session |-> ..]
    NoSession,     \* the session of a claim from before sessions were stamped
    Family,        \* family of a tool: the part of its name before the colon
    Stamped,       \* agents whose presence names a process that can be observed
    Files,
    Small, Large,  \* reclaim timeouts, and lease lengths, by size of the work
    MaxAge,        \* age at which a claim without a lease may be reaped by hand
    Legacy,        \* agents that may hold a claim without a lease from earlier
    MaxFacts, MaxTime,  \* bounds
    MaxDrafts,     \* bound: commands between their snapshot and their append
    None

ASSUME ClaimAssumption ==
    /\ Stamped \subseteq Agents /\ Legacy \subseteq Agents
    /\ \A a \in Agents : a.tool \in DOMAIN Family
    /\ {Small, Large, MaxAge, MaxFacts, MaxTime, MaxDrafts} \subseteq Nat
    /\ None \notin Agents

VARIABLES
    facts,   \* the canonical rows, in seq order
    now,     \* the clock
    draft,   \* the fact an agent has prepared and not yet appended
    alive    \* stamped agents whose process runs

vars == <<facts, now, draft, alive>>

-----------------------------------------------------------------------------
(* Projection *)

Ids == 1 .. Len(facts)

\* Withdrawn facts.  A retraction of a retraction restores nothing.
retracted_ids == {facts[i].ref : i \in {j \in Ids : facts[j].kind = "retract"}}
Resolved == Ids \ retracted_ids

System(f) == f.reason # ""      \* written by the reaper

closes_active_claim(kind) == kind \in {"release", "resolve", "receipt", "claim.expired"}

\* The three ways in which a later fact closes a claim.
later_fact_refs_claim(f, c) == closes_active_claim(f.kind) /\ f.ref = c
later_release_overlaps_claim_scope(f, claim) ==
    f.kind = "release" /\ f.scope \cap claim.scope # {}
later_session_close_matches_claim(f, claim) ==
    /\ f.kind = "session.closed" /\ f.session # NoSession
    /\ f.tool = claim.tool /\ f.session = claim.session

Closes(i, c) ==
    /\ i > c
    /\ \/ later_fact_refs_claim(facts[i], c)
       \/ later_release_overlaps_claim_scope(facts[i], facts[c])
       \/ later_session_close_matches_claim(facts[i], facts[c])

\* Claims that are open when only the rows of S count.
is_active_claim_fact(S) ==
    {c \in S : facts[c].kind = "claim" /\ ~ \E i \in S : Closes(i, c)}

active_claims == is_active_claim_fact(Resolved)

same_nonblank_tool(a, b) == a.tool = b.tool

same_session_owner(a, b) ==
    IF a.session # NoSession /\ b.session # NoSession
      THEN a.session = b.session /\ Family[a.tool] = Family[b.tool]
      ELSE a.session = b.session /\ same_nonblank_tool(a, b)

claim_owner_matches_caller(claim, caller) ==
    \/ same_session_owner(claim, caller)
    \/ claim.session = NoSession /\ same_nonblank_tool(claim, caller)

\* Lease after the owner's renewals; 0 is no lease.
latest_renewed_lease(c, S) ==
    LET renewals == {i \in S : /\ facts[i].kind = "claim.renewed" /\ facts[i].ref = c
                               /\ claim_owner_matches_caller(facts[c], facts[i])}
    IN  IF renewals = {} THEN facts[c].lease ELSE Max({facts[i].lease : i \in renewals})

lease_expired_at(c) ==
    LET lease == latest_renewed_lease(c, Resolved) IN lease # 0 /\ lease <= now

reclaim_timeout_secs(scope) == IF Cardinality(scope) = 1 THEN Small ELSE Large

\* The tool's last authored fact, by seq.
author_last_seen(tool) ==
    LET authored == {i \in Resolved : facts[i].tool = tool /\ ~System(facts[i])}
    IN  IF authored = {} THEN None ELSE facts[Max(authored)].at

\* A peer may take the claim over: its owner's tool has been silent too long.
claim_reclaim_eligible(c) ==
    LET seen == author_last_seen(facts[c].tool)
    IN  seen # None /\ now - seen > reclaim_timeout_secs(facts[c].scope)

no_lease_over_age(c) ==
    latest_renewed_lease(c, Resolved) = 0 /\ now - facts[c].at > MaxAge

-----------------------------------------------------------------------------
(* Observation of the owner's process and worktree *)

AuthoredSince(tool, t) == \E i \in Ids : facts[i].tool = tool /\ ~System(facts[i]) /\ facts[i].at >= t

\* What one probe may say.  A process id may have been reused and a worktree
\* moved by a sibling, so "live" is always possible; the probe may fail.
Verdicts(o) ==
    {"unknown", "live"}
    \cup {v \in {"stale"} : o.session = NoSession \/ (o \in Stamped /\ o \notin alive)}
    \cup {v \in {"stale-unobserved"} :
            o.session = NoSession \/ (o \notin Stamped /\ ~AuthoredSince(o.tool, now - Large))}

is_stale(verdict) == verdict \in {"stale", "stale-unobserved"}
Owner(c) == [tool |-> facts[c].tool, session |-> facts[c].session]

-----------------------------------------------------------------------------
(* Admission under the lock *)

Blank(kind, a) ==
    [kind |-> kind, tool |-> a.tool, session |-> a.session, scope |-> {}, ref |-> 0,
     at |-> now, lease |-> 0, owners |-> {}, reason |-> "", observed |-> ""]

\* Takeover release: an owner that was silent in the snapshot still is, or
\* holds nothing any more.
TakeoverStillDue(f) ==
    \A owner \in f.owners :
        LET held == {c \in active_claims : facts[c].tool = owner}
        IN  held = {} \/ \E c \in held : claim_reclaim_eligible(c)

\* Mutant: the verdict of the pass is trusted at the append.
ReapStillDueOnSnapshot(f, verdict) ==
    LET c == f.ref
    IN  c \in active_claims /\ \/ f.reason = "no-lease-over-age" /\ no_lease_over_age(c)
                               \/ f.reason # "lease-expired" /\ is_stale(f.observed)
                               \/ lease_expired_at(c)

\* The reaper's reason still holds, and a new probe says what the first did.
ReapStillDue(f, verdict) ==
    LET owner_reason == f.reason \in {"owner-stale", "owner-stale+lease-expired"}
        lease_reason == f.reason \in {"lease-expired", "owner-stale+lease-expired"}
        c == f.ref
    IN  IF f.reason = "no-lease-over-age"
          THEN /\ c \in active_claims /\ no_lease_over_age(c) /\ verdict # "live"
               /\ ~ \E i \in Ids : facts[i].kind = "claim.renewed" /\ facts[i].ref = c
          ELSE c \in active_claims =>
               /\ \/ owner_reason /\ IF facts[c].session # NoSession
                                       THEN is_stale(verdict) ELSE claim_reclaim_eligible(c)
                  \/ lease_reason /\ lease_expired_at(c)
               /\ verdict = f.observed

\* A renewal advances the lease of a claim its author owns.  The rows count
\* as written here, withdrawn or not.
RenewalDue(f) ==
    /\ f.ref \in is_active_claim_fact(Ids)
    /\ claim_owner_matches_caller(facts[f.ref], f)
    /\ latest_renewed_lease(f.ref, Ids) < f.lease

\* Mutant: the end of a session is final only for presence and close.
LifecycleFactsOnly(f) ==
    f.kind \in {"presence", "session.closed"} =>
        ~ \E i \in Ids : /\ facts[i].kind = "session.closed"
                         /\ facts[i].tool = f.tool /\ facts[i].session = f.session

assert_session_lifecycle_authorized(f) ==
    LET own == {i \in Ids : facts[i].tool = f.tool /\ facts[i].session = f.session}
    IN  /\ ~ \E i \in own : facts[i].kind = "session.closed"
        /\ f.kind = "session.closed" => \E i \in own : facts[i].kind = "presence"

is_typed_reaper_close(f, reasons) ==
    /\ f.kind = "claim.expired" /\ System(f) /\ f.reason \in reasons
    /\ \/ f.observed \in {"stale", "unknown"}
       \/ f.reason = "no-lease-over-age" /\ f.observed = "stale-unobserved"

\* Who may remove an active claim: its owner; a later session of the same
\* tool once the lease is over; a peer once the owner is silent; the reaper
\* once the lease is over.
authorize_claim_removal(f, c) ==
    LET typed_lease_expiry ==
            /\ is_typed_reaper_close(f, {"lease-expired", "owner-stale+lease-expired"})
            /\ lease_expired_at(c)
    IN  IF f.reason = "no-lease-over-age"
          THEN is_typed_reaper_close(f, {"no-lease-over-age"}) /\ no_lease_over_age(c)
          ELSE \/ claim_owner_matches_caller(facts[c], f)
               \/ /\ lease_expired_at(c) /\ f.kind \in {"release", "claim.expired"}
                  /\ facts[c].session # NoSession /\ f.session # NoSession
                  /\ same_nonblank_tool(facts[c], f)
               \/ /\ ~(facts[c].session # NoSession /\ same_nonblank_tool(facts[c], f))
                  /\ claim_reclaim_eligible(c)
               \/ typed_lease_expiry

\* Mutant: a release is checked for the claim it names, not for those it sweeps.
RemovesByName(f) ==
    {c \in active_claims : later_fact_refs_claim(f, c) \/ (f.kind = "retract" /\ f.ref = c)}

\* The claims a fact removes: by name, by sweep, by withdrawing them or their
\* renewals.
Removes(f) ==
    {c \in active_claims :
        \/ later_fact_refs_claim(f, c)
        \/ later_release_overlaps_claim_scope(f, facts[c])
        \/ f.kind = "retract" /\ f.ref = c
        \/ f.kind = "retract" /\ facts[f.ref].kind = "claim.renewed" /\ facts[f.ref].ref = c}

assert_write_authorized(f) ==
    /\ assert_session_lifecycle_authorized(f)
    /\ \A c \in Removes(f) : authorize_claim_removal(f, c)

\* Mutant: sessions of one tool never conflict.
ConflictByTool(f) ==
    \E c \in active_claims :
        ~same_nonblank_tool(facts[c], f) /\ facts[c].scope \cap f.scope # {}

detect_conflict(f) ==
    \E c \in active_claims :
        ~same_session_owner(facts[c], f) /\ facts[c].scope \cap f.scope # {}

Admits(f, verdict) ==
    /\ f.kind = "release" => TakeoverStillDue(f)
    /\ f.kind = "claim.expired" => ReapStillDue(f, verdict)
    /\ f.kind = "claim.renewed" => RenewalDue(f)
    /\ f.kind \in {"release", "resolve"} => f.ref \in active_claims
    /\ assert_write_authorized(f)
    /\ f.kind = "claim" => ~detect_conflict(f)

\* Bound on the room: one withdrawal may come on top of MaxFacts facts.
MaxRoom(kind) == IF kind = "retract" THEN MaxFacts + 1 ELSE MaxFacts

\* The fact is admitted and appended, or refused and nothing changes.
append_fact(a, f) ==
    LET observed == IF f.kind = "claim.expired" THEN Verdicts(Owner(f.ref)) ELSE {"unknown"}
    IN  /\ Len(facts) < MaxRoom(f.kind)
        /\ \E verdict \in observed : Admits(f, verdict)
        /\ facts' = Append(facts, f)
        /\ alive' = IF f.kind = "presence" /\ a \in Stamped THEN alive \cup {a} ELSE alive

-----------------------------------------------------------------------------
(* Commands that take nothing from a snapshot: one step *)

Say(a, f) ==
    /\ append_fact(a, f)
    /\ UNCHANGED <<now, draft>>

SayClaim(a) ==
    \E scope \in SUBSET Files \ {{}} :
        Say(a, [Blank("claim", a) EXCEPT !.scope = scope,
                                         !.lease = now + reclaim_timeout_secs(scope)])

\* A close that names its claim; a release may also name files.
SayClose(a) ==
    \E kind \in {"release", "resolve", "receipt"}, c \in Ids, scope \in SUBSET Files :
        /\ facts[c].kind = "claim" /\ (kind # "release" => scope = {})
        /\ Say(a, [Blank(kind, a) EXCEPT !.ref = c, !.scope = scope])

renew_claim_lease(a) ==
    \E c \in Ids :
        /\ facts[c].kind = "claim"
        /\ Say(a, [Blank("claim.renewed", a) EXCEPT
                !.ref = c, !.lease = now + reclaim_timeout_secs(facts[c].scope)])

\* Anybody may withdraw any fact but a retraction; only claims and their renewals
\* are gated (Removes).
retract_in_room(a) ==
    \E i \in Ids \ retracted_ids :
        /\ facts[i].kind # "retract"
        /\ Say(a, [Blank("retract", a) EXCEPT !.ref = i])

Presence(a) == Say(a, Blank("presence", a))
SessionClose(a) == Say(a, Blank("session.closed", a))

-----------------------------------------------------------------------------
(* Commands that decide on a snapshot read without the lock: two steps *)

Prepare(a, f) ==
    /\ Cardinality({b \in Agents : draft[b] # None}) < MaxDrafts
    /\ draft' = [draft EXCEPT ![a] = f]
    /\ UNCHANGED <<facts, now, alive>>

\* Release by path: the own claims on exactly these files, and those of owners
\* that look silent, in one release that carries all their files.
command_release_by_path(a) ==
    \E paths \in SUBSET Files :
        LET matches == {c \in active_claims :
                IF claim_owner_matches_caller(facts[c], a)
                  THEN facts[c].scope \cap paths # {}
                  ELSE /\ ~same_nonblank_tool(facts[c], a)
                       /\ facts[c].scope \cap paths # {}
                       /\ claim_reclaim_eligible(c)}
        IN  /\ matches # {}
            /\ Prepare(a, [Blank("release", a) EXCEPT
                    !.ref = Min(matches),
                    !.scope = UNION {facts[c].scope : c \in matches},
                    !.owners = {facts[c].tool : c \in matches} \ {a.tool}])

\* One pass of the reaper over one claim of its snapshot: by hand (Full) or
\* on behalf of an agent that enters (LeaseOnly).  A live owner is a veto.
ReapStale(a, full) ==
    \E c \in active_claims : \E verdict \in Verdicts(Owner(c)) :
        LET owner_eligible == IF facts[c].session # NoSession
                                THEN is_stale(verdict) ELSE claim_reclaim_eligible(c)
            lease_eligible == lease_expired_at(c)
            reason == CASE owner_eligible /\ lease_eligible  -> "owner-stale+lease-expired"
                        [] owner_eligible /\ ~lease_eligible -> "owner-stale"
                        [] ~owner_eligible /\ lease_eligible -> "lease-expired"
                        [] OTHER                             -> "no-lease-over-age"
        IN  /\ verdict # "live"
            /\ IF full THEN owner_eligible \/ lease_eligible \/ no_lease_over_age(c)
                       ELSE lease_eligible /\ verdict = "stale"
            /\ Prepare(a, [Blank("claim.expired", a) EXCEPT
                    !.ref = c, !.scope = facts[c].scope,
                    !.reason = reason, !.observed = verdict])

\* The second step; a refusal ends the command.
AppendPrepared(a) ==
    /\ draft[a] # None
    /\ draft' = [draft EXCEPT ![a] = None]
    /\ now' = now
    /\ append_fact(a, draft[a]) \/ UNCHANGED <<facts, alive>>

-----------------------------------------------------------------------------
(* Environment *)

\* An agent's process ends.
Die(a) ==
    /\ a \in alive
    /\ alive' = alive \ {a}
    /\ UNCHANGED <<facts, now, draft>>

Tick ==
    /\ now < MaxTime
    /\ \A a \in Agents : draft[a] # None => draft[a].at = now
    /\ now' = now + 1
    /\ UNCHANGED <<facts, draft, alive>>

\* An agent that is between two commands.
Idle(a) == a.session # NoSession /\ draft[a] = None

Agent(a) ==
    \/ /\ Idle(a) /\ Len(facts) < MaxFacts
       /\ \/ SayClaim(a) \/ SayClose(a) \/ renew_claim_lease(a)
          \/ Presence(a) \/ SessionClose(a) \/ command_release_by_path(a)
          \/ ReapStale(a, TRUE) \/ ReapStale(a, FALSE)
    \/ Idle(a) /\ retract_in_room(a)
    \/ AppendPrepared(a) \/ Die(a)

LegacyClaim(o) ==
    [kind |-> "claim", tool |-> o.tool, session |-> o.session, scope |-> Files, ref |-> 0,
     at |-> 0, lease |-> 0, owners |-> {}, reason |-> "", observed |-> ""]

Init ==
    /\ facts \in {<<>>} \cup {<<LegacyClaim(o)>> : o \in Legacy}
    /\ now = 0
    /\ draft = [a \in Agents |-> None]
    /\ alive = Stamped

Next == Tick \/ \E a \in Agents : Agent(a)

Spec == Init /\ [][Next]_vars

-----------------------------------------------------------------------------
(* Properties *)

\* Two active claims of different owners share no file.  Withdrawing the release
\* of an older claim breaks it: nothing checks the claim that comes back.
ClaimsDisjoint ==
    \A c, d \in active_claims :
        facts[c].scope \cap facts[d].scope # {} => same_session_owner(facts[c], facts[d])

\* And only that breaks it: when two active claims of different owners share a
\* file, the older one was closed when the newer one was taken, and its close
\* has been withdrawn since.
OverlapNeedsWithdrawal ==
    \A c, d \in active_claims :
        c < d /\ facts[c].scope \cap facts[d].scope # {} =>
            \/ same_session_owner(facts[c], facts[d])
            \/ \E i \in retracted_ids : i < d /\ Closes(i, c)

\* A closed session holds no claim, not even one that raced with its close,
\* unless the close itself was withdrawn; and then only what it held before,
\* since the end of a session stays final for its own writes.
ClosedHoldsNothing ==
    \A c \in active_claims, i \in Ids :
        later_session_close_matches_claim(facts[i], facts[c]) => i \in retracted_ids /\ c < i

\* Whatever closes a claim, from whatever snapshot, whether by name, by sweep
\* or by withdrawal: it comes from the owner, or the lease is over, or the owner's
\* tool wrote nothing that stands within the reclaim timeout, the tick that
\* a command may take aside, or the claim never had a lease and is over age.
Wrote(tool, t) == \E i \in Resolved : facts[i].tool = tool /\ ~System(facts[i]) /\ facts[i].at > t
Justified(c, f) ==
    \/ claim_owner_matches_caller(facts[c], f)
    \/ lease_expired_at(c)
    \/ ~Wrote(facts[c].tool, now - reclaim_timeout_secs(facts[c].scope))
    \/ no_lease_over_age(c)
LiveClaimKept ==
    [][\A c \in active_claims : c \notin active_claims' => Justified(c, facts'[Len(facts')])]_facts

\* When the reaper closes an active claim because it saw the owner's process
\* dead, it is dead then, not only when the pass began.
ReapedIsDead ==
    [][\A c \in active_claims :
        LET f == facts'[Len(facts')]
        IN  c \notin active_claims' /\ f.kind = "claim.expired" /\ f.observed = "stale"
              => facts[c].session = NoSession \/ Owner(c) \notin alive]_facts
=============================================================================
