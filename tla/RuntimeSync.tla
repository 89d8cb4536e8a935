----------------------------- MODULE RuntimeSync -----------------------------
(***************************************************************************)
(* Synchronization of one runtime connection: RuntimeSyncService.Sync and  *)
(* the SyncRepository it drives.                                           *)
(*                                                                         *)
(* Every call of Sync (a worker goroutine, an HTTP request, the            *)
(* verification after a control action, in any server process) is a        *)
(* member of Syncers.  One action is one statement, transaction or network *)
(* exchange of the call, so the steps of several calls interleave, a       *)
(* request context may be cancelled between any two of them, and a process *)
(* may die there.  The database transactions are atomic; the runtime       *)
(* itself changes on its own.                                              *)
(***************************************************************************)
EXTENDS CatalogRows, FiniteSets

CONSTANTS
    Syncers,    \* concurrent calls of Sync
    NoSyncer,   \* nobody
    Pooled,     \* no call: the session lies in the connection pool
    Faults      \* the faults the environment may inject, see FaultKinds

ASSUME NoSyncerAssumption == NoSyncer \notin Syncers /\ Pooled \notin Syncers \cup {NoSyncer}

(***************************************************************************)
(*  cancel       the context ends (30s worker timeout, client gone, server *)
(*               shutting down); every later statement of the call fails   *)
(*  crash        the process dies, its sessions and their locks with it    *)
(*  dbError      a statement or transaction fails and changes nothing      *)
(*  ackLost      a commit takes effect but its caller sees an error        *)
(*  sessionLost  the session that holds the advisory lock is closed while  *)
(*               the call goes on                                          *)
(*  unlockFails  pg_advisory_unlock fails in a session that lives on; the  *)
(*               error is ignored and the session goes back to the pool    *)
(***************************************************************************)
FaultKinds == {"cancel", "crash", "dbError", "ackLost", "sessionLost", "unlockFails"}

ASSUME FaultsAssumption == Faults \subseteq FaultKinds

VARIABLES
    \* the external runtime
    runtime,    \* runtime[a]: status of agent a on the runtime, or "absent"
    assigned,   \* assigned[a]: the skills of agent a on the runtime
    \* the database
    lock,       \* whose session holds the advisory lock of the runtime
    leaked,     \* that session holds it once more than its call knows of
    runs,       \* runtime_sync_runs: status of each run, "none" if no row
    conn,       \* the row of runtime_connections
    agents,     \* agents and agent_runtime_bindings
    skills,     \* runtime_skills
    bindings,   \* agent_skill_bindings
    audit,      \* audit_events of syncs: <<run, result>>
    \* the calls
    pc,         \* pc[s]: the next step of call s
    ctx,        \* ctx[s]: "live" or "cancelled"
    run,        \* run[s]: the run of call s, 0 before it has one
    snap,       \* snap[s]: the snapshot collected so far
    deleting    \* agents deleted on the runtime, tombstone not yet written

world == <<runtime, assigned>>
catalog == <<agents, skills, bindings>>
database == <<lock, leaked, runs, conn, catalog, audit>>
call == <<pc, ctx, run, snap>>
vars == <<world, database, call, deleting>>

Steps == {"idle", "loaded", "locked", "inserted", "listing", "fetching",
          "collected", "failing", "auditFailed", "auditSucceeded", "releasing"}

\* The steps between acquiring the lock and releasing it.
Holding == Steps \ {"idle", "loaded"}

NoSnapshot == [agents |-> [a \in Agents |-> "absent"], skills |-> [a \in Agents |-> {}]]

SnapshotType == [agents : Snapshots, skills : [Agents -> SUBSET Skills]]

ConnType == [archived : BOOLEAN,
             status : {"pending", "active", "degraded", "disabled"},
             lastSync : {"none", "running", "succeeded", "failed"}]

TypeOK ==
    /\ runtime \in Snapshots
    /\ assigned \in [Agents -> SUBSET Skills]
    /\ lock \in Syncers \cup {NoSyncer, Pooled}
    /\ leaked \in BOOLEAN
    /\ runs \in [Runs -> {"none", "running", "succeeded", "failed"}]
    /\ conn \in ConnType
    /\ agents \in [Agents -> AgentRow]
    /\ skills \in [Skills -> SkillRow]
    /\ bindings \in [Agents -> [Skills -> SkillRow]]
    /\ audit \subseteq Runs \X {"succeeded", "failed"}
    /\ pc \in [Syncers -> Steps]
    /\ ctx \in [Syncers -> {"live", "cancelled"}]
    /\ run \in [Syncers -> Runs \cup {0}]
    /\ snap \in [Syncers -> SnapshotType]
    /\ deleting \in SUBSET Agents

Init ==
    /\ runtime \in Snapshots
    /\ assigned = [a \in Agents |-> {}]
    /\ lock = NoSyncer
    /\ leaked = FALSE
    /\ runs = [r \in Runs |-> "none"]
    /\ conn = [archived |-> FALSE, status |-> "pending", lastSync |-> "none"]
    /\ agents = [a \in Agents |-> NoAgent]
    /\ skills = [k \in Skills |-> NoSkill]
    /\ bindings = [a \in Agents |-> [k \in Skills |-> NoSkill]]
    /\ audit = {}
    /\ pc = [s \in Syncers |-> "idle"]
    /\ ctx = [s \in Syncers |-> "live"]
    /\ run = [s \in Syncers |-> 0]
    /\ snap = [s \in Syncers |-> NoSnapshot]
    /\ deleting = {}

-----------------------------------------------------------------------------
\* A statement of call s runs only under a live context, and fails when the
\* context is cancelled or the database refuses it.
StatementRuns(s) == ctx[s] = "live"
StatementFails(s) == ctx[s] = "cancelled" \/ "dbError" \in Faults

GoTo(s, step) == pc' = [pc EXCEPT ![s] = step]

\* The call returns; the identifier stands for a later call from now on.
Return(s) ==
    /\ GoTo(s, "idle")
    /\ ctx' = [ctx EXCEPT ![s] = "live"]
    /\ run' = [run EXCEPT ![s] = 0]
    /\ snap' = [snap EXCEPT ![s] = NoSnapshot]

\* Get finds the connection, unless it is archived.
LoadConnection(s) ==
    /\ pc[s] = "idle"
    /\ ~conn.archived
    /\ GoTo(s, "loaded")
    /\ UNCHANGED <<world, database, ctx, run, snap, deleting>>

\* The bound on the number of runs a behaviour may start.
RunsLeft == \E r \in Runs : runs[r] = "none"

\* Mutant: the answer of pg_try_advisory_lock is ignored.
TryLock_Ignored(s) ==
    /\ pc[s] = "loaded" /\ RunsLeft
    /\ lock' = s
    /\ GoTo(s, "locked")
    /\ UNCHANGED <<world, leaked, runs, conn, catalog, audit, ctx, run, snap, deleting>>

\* pg_try_advisory_lock on a session of its own from the pool.  The lock is
\* free, or the session drawn is the one that has kept it: a session may take
\* a lock of its own again, and then has to give it back as often.
TryLock(s) ==
    /\ pc[s] = "loaded"
    /\ StatementRuns(s)
    /\ RunsLeft
    /\ lock \in {NoSyncer, Pooled}
    /\ lock' = s
    /\ GoTo(s, "locked")
    /\ UNCHANGED <<world, leaked, runs, conn, catalog, audit, ctx, run, snap, deleting>>

\* Another session holds the lock (ErrSyncConflict), or it could not be asked
\* for.
TryLockFails(s) ==
    /\ pc[s] = "loaded"
    /\ lock # NoSyncer \/ StatementFails(s)
    /\ Return(s)
    /\ UNCHANGED <<world, database, deleting>>

\* CreateRun, first statement: the run is inserted as running.
InsertRun(s) ==
    /\ pc[s] = "locked"
    /\ StatementRuns(s)
    /\ \E r \in Runs :
          /\ \A q \in Runs : runs[q] = "none" <=> q >= r
          /\ runs' = [runs EXCEPT ![r] = "running"]
          /\ run' = [run EXCEPT ![s] = r]
    /\ GoTo(s, "inserted")
    /\ UNCHANGED <<world, lock, leaked, conn, catalog, audit, ctx, snap, deleting>>

\* CreateRun, second statement: the connection is marked as syncing.
MarkSyncing(s) ==
    /\ pc[s] = "inserted"
    /\ StatementRuns(s)
    /\ conn' = [conn EXCEPT !.lastSync = "running"]
    /\ GoTo(s, "listing")
    /\ UNCHANGED <<world, lock, leaked, runs, catalog, audit, ctx, run, snap, deleting>>

\* Mutant: the release is deferred only after CreateRun.
CreateRunFails_NoRelease(s) ==
    /\ pc[s] \in {"locked", "inserted"}
    /\ StatementFails(s)
    /\ Return(s)
    /\ UNCHANGED <<world, database, deleting>>

\* CreateRun fails in either statement: Sync returns without failing the run.
CreateRunFails(s) ==
    /\ pc[s] \in {"locked", "inserted"}
    /\ StatementFails(s)
    /\ GoTo(s, "releasing")
    /\ UNCHANGED <<world, database, ctx, run, snap, deleting>>

\* CollectSnapshot first lists the agents ...
ListAgents(s) ==
    /\ pc[s] = "listing"
    /\ StatementRuns(s)
    /\ snap' = [snap EXCEPT ![s].agents = runtime]
    /\ GoTo(s, "fetching")
    /\ UNCHANGED <<world, database, ctx, run, deleting>>

\* ... and then asks for the details of each listed agent, which may have
\* changed by then.  An agent that is gone fails a Gantry snapshot
\* (CollectFails); LangGraph asks for nothing more about it.
FetchAgents(s) ==
    /\ pc[s] = "fetching"
    /\ StatementRuns(s)
    /\ snap' = [snap EXCEPT ![s].skills =
                  [a \in Agents |-> IF snap[s].agents[a] # "absent" THEN assigned[a] ELSE {}]]
    /\ GoTo(s, "collected")
    /\ UNCHANGED <<world, database, ctx, run, deleting>>

\* The runtime is unreachable, refuses, times out, misses an agent or answers
\* with a snapshot that validateRuntimeSnapshot rejects.
CollectFails(s) ==
    /\ pc[s] \in {"listing", "fetching", "collected"}
    /\ GoTo(s, "failing")
    /\ UNCHANGED <<world, database, ctx, run, snap, deleting>>

\* The transaction of PersistSnapshot commits.
PersistEffect(s) ==
    /\ pc[s] = "collected"
    /\ StatementRuns(s)
    /\ agents' = PersistedAgents(agents, snap[s].agents, run[s])
    /\ skills' = PersistedSkills(skills, snap[s].skills, run[s])
    /\ bindings' = PersistedBindings(bindings, snap[s].skills, run[s])
    /\ runs' = [runs EXCEPT ![run[s]] = "succeeded"]
    /\ conn' = [conn EXCEPT !.status = "active", !.lastSync = "succeeded"]
    /\ UNCHANGED <<world, lock, leaked, audit, ctx, run, snap, deleting>>

PersistSnapshot(s) == PersistEffect(s) /\ GoTo(s, "auditSucceeded")

\* It commits but the acknowledgement is lost: Sync goes on to fail the run.
PersistUnacknowledged(s) ==
    /\ "ackLost" \in Faults
    /\ PersistEffect(s)
    /\ GoTo(s, "failing")

\* Mutant: the agents are written outside the transaction.
PersistFails_NoRollback(s) ==
    /\ pc[s] = "collected"
    /\ StatementFails(s)
    /\ agents' = PersistedAgents(agents, snap[s].agents, run[s])
    /\ GoTo(s, "failing")
    /\ UNCHANGED <<world, lock, leaked, runs, conn, skills, bindings, audit, ctx, run, snap, deleting>>

\* Mutant: the error of PersistSnapshot is dropped.
PersistFails_Swallowed(s) ==
    /\ pc[s] = "collected"
    /\ StatementFails(s)
    /\ GoTo(s, "auditSucceeded")
    /\ UNCHANGED <<world, database, ctx, run, snap, deleting>>

\* It is rolled back.
PersistFails(s) ==
    /\ pc[s] = "collected"
    /\ StatementFails(s)
    /\ GoTo(s, "failing")
    /\ UNCHANGED <<world, database, ctx, run, snap, deleting>>

\* Mutant: the connection is not updated with the run.
FailRun_RunOnly(s) ==
    /\ pc[s] = "failing"
    /\ StatementRuns(s)
    /\ runs' = [runs EXCEPT ![run[s]] = "failed"]
    /\ GoTo(s, "auditFailed")
    /\ UNCHANGED <<world, lock, leaked, conn, catalog, audit, ctx, run, snap, deleting>>

\* Mutant: a failed run ages the agents as well.
FailRun_Ages(s) ==
    /\ pc[s] = "failing"
    /\ StatementRuns(s)
    /\ runs' = [runs EXCEPT ![run[s]] = "failed"]
    /\ conn' = [conn EXCEPT !.status = "degraded", !.lastSync = "failed"]
    /\ agents' = [a \in Agents |-> AdvanceMissingAgent(agents[a], run[s])]
    /\ GoTo(s, "auditFailed")
    /\ UNCHANGED <<world, lock, leaked, skills, bindings, audit, ctx, run, snap, deleting>>

\* FailRun: one transaction over the run and the connection.
FailRun(s) ==
    /\ pc[s] = "failing"
    /\ StatementRuns(s)
    /\ runs' = [runs EXCEPT ![run[s]] = "failed"]
    /\ conn' = [conn EXCEPT !.status = "degraded", !.lastSync = "failed"]
    /\ GoTo(s, "auditFailed")
    /\ UNCHANGED <<world, lock, leaked, catalog, audit, ctx, run, snap, deleting>>

\* FailRun fails: Sync still audits and returns both errors.
FailRunFails(s) ==
    /\ pc[s] = "failing"
    /\ StatementFails(s)
    /\ GoTo(s, "auditFailed")
    /\ UNCHANGED <<world, database, ctx, run, snap, deleting>>

AuditResult(s) == IF pc[s] = "auditSucceeded" THEN "succeeded" ELSE "failed"

AuditSync(s) ==
    /\ pc[s] \in {"auditSucceeded", "auditFailed"}
    /\ StatementRuns(s)
    /\ audit' = audit \cup {<<run[s], AuditResult(s)>>}
    /\ GoTo(s, "releasing")
    /\ UNCHANGED <<world, lock, leaked, runs, conn, catalog, ctx, run, snap, deleting>>

\* Mutant: an audit error fails the run.
AuditSyncFails_FailsRun(s) ==
    /\ pc[s] \in {"auditSucceeded", "auditFailed"}
    /\ StatementFails(s)
    /\ GoTo(s, "failing")
    /\ UNCHANGED <<world, database, ctx, run, snap, deleting>>

\* An audit error is ignored.
AuditSyncFails(s) ==
    /\ pc[s] \in {"auditSucceeded", "auditFailed"}
    /\ StatementFails(s)
    /\ GoTo(s, "releasing")
    /\ UNCHANGED <<world, database, ctx, run, snap, deleting>>

\* The deferred release unlocks once, under a context of its own, and puts the
\* session back into the pool.
Release(s) ==
    /\ pc[s] = "releasing"
    /\ lock' = IF lock = s THEN IF leaked THEN Pooled ELSE NoSyncer ELSE lock
    /\ Return(s)
    /\ UNCHANGED <<world, leaked, runs, conn, catalog, audit, deleting>>

\* The unlock fails: nobody looks at its error, and the session goes back to
\* the pool with the lock.
ReleaseFails(s) ==
    /\ "unlockFails" \in Faults
    /\ pc[s] = "releasing" /\ lock = s
    /\ lock' = Pooled
    /\ leaked' = TRUE
    /\ Return(s)
    /\ UNCHANGED <<world, runs, conn, catalog, audit, deleting>>

Sync(s) ==
    \/ LoadConnection(s) \/ TryLock(s) \/ TryLockFails(s)
    \/ InsertRun(s) \/ MarkSyncing(s) \/ CreateRunFails(s)
    \/ ListAgents(s) \/ FetchAgents(s) \/ CollectFails(s)
    \/ PersistSnapshot(s) \/ PersistUnacknowledged(s) \/ PersistFails(s)
    \/ FailRun(s) \/ FailRunFails(s)
    \/ AuditSync(s) \/ AuditSyncFails(s)
    \/ Release(s) \/ ReleaseFails(s)

-----------------------------------------------------------------------------
\* Faults.
Cancel(s) ==
    /\ "cancel" \in Faults
    /\ pc[s] # "idle" /\ ctx[s] = "live"
    /\ ctx' = [ctx EXCEPT ![s] = "cancelled"]
    /\ UNCHANGED <<world, database, pc, run, snap, deleting>>

Crash(s) ==
    /\ "crash" \in Faults
    /\ pc[s] # "idle"
    /\ lock' = IF lock = s THEN NoSyncer ELSE lock
    /\ leaked' = (leaked /\ lock # s)
    /\ Return(s)
    /\ UNCHANGED <<world, runs, conn, catalog, audit, deleting>>

LoseSession(s) ==
    /\ "sessionLost" \in Faults
    /\ lock = s
    /\ lock' = NoSyncer
    /\ leaked' = FALSE
    /\ UNCHANGED <<world, runs, conn, catalog, audit, call, deleting>>

\* A pooled session ends, after its longest life (SetConnMaxLifetime) or with
\* its process, and its lock with it.
SessionEnds ==
    /\ lock = Pooled
    /\ lock' = NoSyncer
    /\ leaked' = FALSE
    /\ UNCHANGED <<world, runs, conn, catalog, audit, call, deleting>>

-----------------------------------------------------------------------------
\* The rest of the system.

\* Somebody adds, removes or changes an agent on the runtime.
RuntimeChanges(a) ==
    /\ \E st \in RuntimeStatuses \cup {"absent"}, ks \in SUBSET Skills :
          /\ st = "absent" => ks = {}
          /\ runtime' = [runtime EXCEPT ![a] = st]
          /\ assigned' = [assigned EXCEPT ![a] = ks]
    /\ UNCHANGED <<database, call, deleting>>

\* A delete_agent control action removes a known agent from the runtime ...
DeleteOnRuntime(a) ==
    /\ ~conn.archived
    /\ Known(agents[a]) /\ runtime[a] # "absent"
    /\ runtime' = [runtime EXCEPT ![a] = "absent"]
    /\ assigned' = [assigned EXCEPT ![a] = {}]
    /\ deleting' = deleting \cup {a}
    /\ UNCHANGED <<database, call>>

\* ... and then writes the tombstone,
MarkAgentDeleted(a) ==
    /\ a \in deleting
    /\ agents' = [agents EXCEPT ![a] = Tombstoned(@)]
    /\ deleting' = deleting \ {a}
    /\ UNCHANGED <<world, lock, leaked, runs, conn, skills, bindings, audit, call>>

\* or fails to.
MarkAgentDeletedFails(a) ==
    /\ Faults \cap {"cancel", "crash", "dbError"} # {}
    /\ a \in deleting
    /\ deleting' = deleting \ {a}
    /\ UNCHANGED <<world, database, call>>

\* Archive and ConsolidateEndpoint take the connection out of operation.
Archive ==
    /\ ~conn.archived
    /\ conn' = [conn EXCEPT !.archived = TRUE, !.status = "disabled"]
    /\ UNCHANGED <<world, lock, leaked, runs, catalog, audit, call, deleting>>

Environment ==
    \/ \E s \in Syncers : Cancel(s) \/ Crash(s) \/ LoseSession(s)
    \/ \E a \in Agents : \/ RuntimeChanges(a) \/ DeleteOnRuntime(a)
                         \/ MarkAgentDeleted(a) \/ MarkAgentDeletedFails(a)
    \/ SessionEnds \/ Archive

Next == Environment \/ \E s \in Syncers : Sync(s)

Spec == Init /\ [][Next]_vars

\* A call that has loaded its connection goes on: goroutines are scheduled,
\* statements return, and every request to the runtime has a timeout.  The
\* pool does not hand out a session past its lifetime: it closes it, however
\* often the session was used before.
FairSpec ==
    /\ Spec
    /\ \A s \in Syncers : WF_vars(pc[s] # "idle" /\ Sync(s))
    /\ SF_vars(SessionEnds)

-----------------------------------------------------------------------------
(***************************************************************************)
(* Properties.                                                             *)
(***************************************************************************)

\* At most one call is between TryLock and its release, and the lock is its
\* own: manual, scheduled and verification syncs of a runtime never overlap.
SyncExclusive ==
    \A s \in Syncers : pc[s] \in Holding => lock = s

\* The successful runs that came after the one that last saw the row.
MissedRuns(row) == {r \in Runs : r > row.lastSeen /\ runs[r] = "succeeded"}

\* The missing counter of an imported agent is exactly the number of
\* successful runs since the agent was last seen, whatever failures, crashes
\* and cancelled calls came in between: only complete snapshots count.
MissingCountsSuccesses ==
    \A a \in Agents :
        Known(agents[a]) => agents[a].missing = Cardinality(MissedRuns(agents[a]))

\* An agent is shown as stale only after MissingThreshold successful runs
\* without it, and then always, unless a control action deleted it.
StaleIffMissed ==
    \A a \in Agents :
        LET missed == Cardinality(MissedRuns(agents[a]))
        IN  /\ agents[a].status = "stale" => missed >= MissingThreshold
            /\ Known(agents[a]) /\ missed >= MissingThreshold =>
                  agents[a].status = "stale" \/ agents[a].deleted

\* Staleness is coherent across the three tables PersistSnapshot ages on its
\* own: a stale agent has only stale skill bindings, and a skill is stale
\* exactly when every binding of it is.
StaleCoherent ==
    /\ \A a \in Agents, k \in Skills :
          agents[a].status = "stale" => bindings[a][k].status # "active"
    /\ \A k \in Skills :
          skills[k].status = "stale" <=>
              /\ Known(skills[k])
              /\ \A a \in Agents : bindings[a][k].status # "active"

\* A run that is not recorded as successful has left no row behind: failing
\* to collect, validate or persist never changes the last known state.
FailedRunsLeaveNoTrace ==
    \A r \in Runs : runs[r] # "succeeded" =>
        /\ \A a \in Agents : agents[a].lastSeen # r
        /\ \A k \in Skills : skills[k].lastSeen # r
        /\ \A a \in Agents, k \in Skills : bindings[a][k].lastSeen # r

LatestRun(r) == runs[r] # "none" /\ \A q \in Runs : q > r => runs[q] = "none"

\* The sync state on the connection row is that of the latest finished run,
\* though three different statements write it.
ConnectionShowsLatestRun ==
    \A r \in Runs :
        LatestRun(r) /\ runs[r] \in {"succeeded", "failed"} =>
            /\ conn.lastSync = runs[r]
            /\ conn.archived \/ conn.status = IF runs[r] = "succeeded" THEN "active" ELSE "degraded"

\* The audit trail never contradicts the run table.
AuditAgrees ==
    \A e \in audit : e[2] = "succeeded" <=> runs[e[1]] = "succeeded"

\* A finished run is never reopened or decided again.
RunsFinishOnce ==
    [][\A r \in Runs : runs[r] \in {"succeeded", "failed"} => runs'[r] = runs[r]]_runs

\* An older snapshot never overwrites a newer one.
CatalogMovesForward ==
    [][\A a \in Agents : agents'[a].lastSeen >= agents[a].lastSeen]_agents

\* The tombstone of an agent deleted through Capcom outlives the syncs that miss
\* the agent, as a disabled row until it is missed too often; only a snapshot
\* that lists the agent, collected before the deletion perhaps, removes it.
TombstoneYields ==
    [][\A a \in Agents : agents[a].deleted =>
          \/ \E s \in Syncers : pc[s] = "collected" /\ snap[s].agents[a] # "absent"
          \/ /\ agents'[a].deleted
             /\ agents'[a].status = "disabled" \/ agents'[a].missing >= MissingThreshold]_agents

\* An imported agent is never forgotten, whatever the runtime reports.
KnownForever ==
    [][\A a \in Agents : Known(agents[a]) => Known(agents'[a])]_agents

\* The detailed synchronization implements the catalogue it promises.
Catalog == INSTANCE RuntimeCatalog WITH
    status <- [a \in Agents |-> agents[a].status],
    age <- [a \in Agents |-> agents[a].missing],
    successes <- Cardinality({r \in Runs : runs[r] = "succeeded"})

CatalogSpec == Catalog!Spec

\* Every run that is started is eventually recorded as succeeded or failed.
RunsFinish ==
    \A r \in Runs : runs[r] = "running" ~> runs[r] \in {"succeeded", "failed"}

\* The lock of a runtime becomes free again after every sync: when the call is
\* cancelled, its statements fail, its process dies or its session is lost, and
\* even when the unlock fails, then with the session that kept it.
LockReleased == lock # NoSyncer ~> lock = NoSyncer
=============================================================================
