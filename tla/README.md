# Capcom: a TLA+ model of the control plane

Capcom is a control plane for agent runtimes (Gantry, LangGraph). It imports
the agents of each connected runtime into PostgreSQL by periodic, manual and
post-action synchronizations, changes runtimes through audited, idempotent
control actions, gathers their token usage, and keeps organizations, sessions
and runtime connections. This directory models the parts of it in which several
actors share state, checks them with TLC and proves, with TLAPS, every safety
property that is checked, among them that four of the parts implement an abstract
specification. `PROJECT.json` maps every definition to the lines it models and lists the
hazards each property is about.

## Inventory

| Component | State | Operations | Hard because |
|---|---|---|---|
| Runtime sync (`services/runtime_sync.go`, `store/sync_repository.go`) | `runtime_sync_runs`, `agents`, `agent_runtime_bindings`, `runtime_skills`, `agent_skill_bindings`, the connection row, an advisory lock | `Sync`: lock, create run, collect, validate, persist or fail, audit, release | calls overlap within and between processes; contexts end between any two statements; the process dies; a commit is not acknowledged |
| Control actions (`services/control_actions.go`, `store/control_repository.go`) | `control_actions`, `audit_events` | `ReconcileAccess`, `SetAgentStatus`, `DeleteAgent`, `CancelExecution` | duplicate and concurrent requests; the runtime changes but its answer or the record of it is lost |
| Sync worker, process lifecycle (`workers/runtime_sync.go`, `cmd/capcom-server`) | semaphore, wait group, which runtimes are due | `Run`, `schedule`, the goroutines, shutdown | slots must come back on every path; fairness between runtimes; shutdown in the middle of work |
| Adapters (`adapters/gantry`, `adapters/langgraph`) | none of their own | list, fetch and change agents over HTTP, a worker pool per snapshot, pagination | the runtime changes while it is being read; one goroutine of several fails |
| Snapshot validation (`validateRuntimeSnapshot`) | none | a predicate on snapshots | what it accepts must fit the keys of the tables, also when the runtime changed while it was read |
| Connections, endpoints (`services/runtime_connections.go`, `store/repositories.go`) | `runtime_connections`, `runtime_connection_endpoints`, row locks | create, change settings, remove, consolidate | consolidations in opposite directions; removal between the statements of another request |
| Telemetry (`workers/telemetry.go`, `services/telemetry.go`, `store/telemetry_repository.go`, `api/telemetry_handlers.go`, the usage readers) | `telemetry_ingestion_runs`, `usage_observations` | collect a window, take pushed spans, ingest, summarize | windows computed from the clock; batches stored in part and retried; a stored row takes another time; one usage from two sources; reads in three statements |
| Authentication (`services/auth.go`, `store/auth_repository.go`, its handlers and middleware) | organizations, `user_sessions`, login limiter | sign up, log in, authenticate, log out | check-then-act in the limiter, first owner of imported data, refresh against logout and expiry |
| Migrator (`store/migrator.go`) | `schema_migrations` | `Up` | two processes starting at once |
| Secrets, inventory, configuration, model catalogue, HTTP API, CLI, web console | little or none | translation and storage | nothing takes more than one step |

How they interact: the HTTP API and the sync worker call `Sync`; a control
action calls the adapter and then `Sync` to verify; `Archive`, `UpdateSettings`
and `MarkAgentDeleted` write the rows `Sync` reads and writes; the telemetry
worker asks the connections that are not archived. All shared state is in
PostgreSQL except the semaphores, wait groups and the login limiter.

What makes each part correct: syncs of a runtime exclude each other, only
complete snapshots change the catalogue, an absent agent ages by exactly one per
successful sync, run table, connection row and audit trail agree, and the lock
is given back; the runtime is changed at most once per idempotency key, never
before the action is stored, and what is stored and audited is what happened;
the worker leaks no slot and drains before it stops; a snapshot is accepted whole
or not at all; a connection in use can be reached, an archived one stays archived,
and merges never form a cycle; usage is stored, and counted once; one user owns
the bootstrap organization, and a revoked session stays revoked.

## Modules

`CatalogRows` holds the row operators: what one successful sync does to an agent,
skill or binding row, and what deleting an agent does. Statuses of skills other
than Capcom's own "stale" are one value, "active".

Four modules are abstract: they say what a part promises, in atomic steps and
without requests, locks, failing statements or crashes, and know nothing of the
module that implements them.

| Abstract | Promise | Implemented by |
|---|---|---|
| `RuntimeCatalog` | agents change only by one complete snapshot at a time, or by a tombstone | `RuntimeSync` (`CatalogSpec`): status and missing counter of the rows, and the number of successful runs |
| `ActionLedger` | one entry per idempotency key, entered before the runtime is changed; changed once, while the entry is running; moved forward only; nothing about it moves once an outcome was reported | `ControlActions` (`LedgerSpec`): the variables of the same names |
| `ConnectionRegistry` | connections in use differ in type or address; a merge makes an address a route and archives its connection in one step, both being in use and of one type; what is archived stays so | `Connections` (`RegistrySpec`): the rows, the events, and of the endpoint rows those of kind alias or relay (`RouteRows`) |
| `Accounts` | the first account gets the bootstrap organization; sessions are opened for accounts, used up to the expiry they were opened with, and logged out for good with one event | `Auth` (`AccountsSpec`): the variables of the same names; limiter and lock are hidden |

`RuntimeSync` is `RuntimeSyncService.Sync` on one connection. Each member of
`Syncers` is a call, whoever makes it; each action is one SQL statement,
transaction or exchange with the runtime, in the order of the code:

| Code | Actions |
|---|---|
| `runtimes.Get`, `TryLock` | `LoadConnection`, `TryLock`, `TryLockFails` |
| `CreateRun` (two statements, no transaction) | `InsertRun`, `MarkSyncing`, `CreateRunFails` |
| `CollectSnapshot`, `validateRuntimeSnapshot` | `ListAgents`, `FetchAgents`, `CollectFails` |
| `PersistSnapshot` (one transaction) | `PersistSnapshot`, `PersistUnacknowledged`, `PersistFails` |
| `FailRun`, `auditSync`, the deferred release | `FailRun`, `FailRunFails`, `AuditSync`, `AuditSyncFails`, `Release`, `ReleaseFails` |
| the rest of the system | `RuntimeChanges`, `DeleteOnRuntime`, `MarkAgentDeleted`, `MarkAgentDeletedFails`, `Archive`, `SessionEnds` |
| faults | `Cancel`, `Crash`, `LoseSession` |

The constant `Faults` says which faults may happen: `cancel` (a context ends),
`crash`, `dbError`, `ackLost` (a commit takes effect but is reported as failed),
`sessionLost` (the session with the advisory lock is closed), `unlockFails`
(`pg_advisory_unlock` fails in a session that lives on). The release ignores the
error of the unlock and returns its session to the connection pool, so that the lock
then belongs to no call: `lock` is `Pooled`. A later call may be handed that very
session, get the lock a second time and give back one of its two holds (`leaked`);
otherwise the lock stays until the pool closes the session (`SessionEnds`).

`SnapshotCollector` looks inside the collection, which `RuntimeSync` takes as two
steps: `CollectSnapshot` of both adapters, one action per call of the runtime,
while agents and threads are created, updated (which moves a thread within its
list) and deleted there. Gantry's
goroutines take jobs from the unbuffered channel (`HandOut`), make three calls per
agent (`ListAgentSkills`, `GetAgentAccess`, `ListAgentDelegates`, or `FetchFails`)
and end with `PoolEnds`; LangGraph's lists are read page by page (`ListAssistants`,
`ListThreads`). `Validate` is what `validateRuntimeSnapshot` says of duplicates, with
the key under which it looks for each kind of entity.

`ControlActions` is `ControlActionService`. The four operations follow one course,
which is modelled once: `Begin`, look the key up (`Replay`, `NotFound`,
`FindFails`), load the target (`LoadTarget`, `LoadTargetFails`), `Reject`, `Create`
or `CreateFails`, `Audit`, then `FinishDryRun` or `Start`, `CallApplies` or
`CallFails`, `RecordFailure` or (after `MarkDeleted` for a deletion)
`RecordSuccess`, `Verify`, `Audit`. Payloads are left out; a key may be padded with
blanks, because the lookup does not trim it and the insert does. The variable
`calls` counts how often the runtime was really changed for a key. The update that
adds an error text to a rejected action does not change its status and is part of
`Reject`.

`SyncWorker` is the periodic worker and the end of the process. Time is reduced
to the set of runtimes that are due; a runtime is named by its place in the sorted
list that is visited; a goroutine is known by its runtime and by whether it has
created a run, which is what sets `last_sync_started_at`. The semaphore and the
counter `wg` of the wait group are variables apart from the goroutines: `Spawn` takes
a slot and adds to the counter before the goroutine runs, the end of a goroutine gives
back the slot (`SkipSync`, `FinishSync`) and then leaves the counter (`Done`), and
`RunReturns` looks at the counter only.

`Connections` is `RuntimeConnectionService` over the repository. One action is a
statement, or a transaction that takes one row lock. `ConsolidateEndpoint` locks two
rows one after the other (`LockCanonical`, `LockDuplicate`, `Merge`): a statement
waits for a locked row and then sees what the holder committed, and
`DeadlockDetected` is PostgreSQL ending a cycle of waiting transactions. After its
commit a request reads the connection again (`Reread`) and writes its event
(`Audit`).

`Telemetry` is the life of usage: `CollectOne` is the goroutine of a connection
(create the row of the window, query, ingest observation by observation, finish),
`Post`, `IngestSpan` and `RespondOTLP` are a push, `Summary`, `ModelBreakdown` and
`TimeSeries` the three statements of a summary. `Ingest` is the loop both share. The
time unit divides window and overlap, and a runtime may report a record up to
`Lateness` after it began, which the overlap is there for. An observation is its
source, connection, id and time (`observed_at`); counts and prices are left out. The id
does not fix the time, and an upsert replaces it: a Gantry record without a time has
that of the end of the window it was asked for, a LangSmith run that of its start
until it has ended (`EndRun`), a span without an end that of the push. Each statement
of a summary has its own range over `observed_at` and its own choice of sources
(`Scoped`, `Chosen`), so a row can enter or leave the range between two of them.

`Auth` is `AuthService`, `AuthRepository` and the session middleware: a signup reads
the members of the bootstrap organization under the advisory lock and writes
(`ReadMembers`, `CreateAccount`); a login asks the limiter twice, checks, tells it
twice (`AskAddress` ... `TellAddress`) or clears the account and opens a session; an
authenticated request finds a session and then refreshes it (`Authenticate`,
`RefreshSession`), and a logout revokes it (`RevokeSession`). The limiter's map with its
capacity is `attempts`; passwords are right or wrong.

`MC...` modules give TLC its constants and symmetries; `..._proofs` modules hold
the theorems.

## Runs

Passing:

| Run | Instance | Shows |
|---|---|---|
| `RuntimeSync` | 2 calls, 1 agent, 1 skill, 3 runs, threshold 2; cancel, crash, dbError, unlockFails | `SyncExclusive`, `FailedRunsLeaveNoTrace`, `ConnectionShowsLatestRun`, `AuditAgrees`, `MissingCountsSuccesses`, `StaleIffMissed`, `StaleCoherent`, `RunsFinishOnce`, `CatalogMovesForward`, `KnownForever`, `TombstoneYields`, and that the sync implements `RuntimeCatalog` (`CatalogSpec`) |
| `RuntimeSync_liveness` | 2 calls, 2 runs, no agents; all six faults; fair | `LockReleased` |
| `ControlActions_duplicates` | 2 requests, 1 key, deletions and cancellations; all faults | `AtMostOncePerKey`, `MutationsAreStored`, `SucceededMeansApplied`, `ActionAuditAgrees`, and that the requests implement `ActionLedger` (`LedgerSpec`) |
| `SyncWorker_slots` | 3 runtimes, 2 slots, 3 goroutines at once; fair | `SlotsAccounted`, `StoppedIsDrained`, `WorkerStops`, `FirstIsServed` |
| `SnapshotCollector` | 3 agents, 3 threads, 2 goroutines, pages of 1, 3 and 2 pages, 3 changes, 6 delegates documents; failing calls; fair | `SnapshotWhole`, `HiddenByDeletions`, `RowsDistinct`, `CollectionReturns` |
| `Connections` | 3 connections, 2 addresses, 2 requests; requests end anywhere; fair | `MergesEnd`, `ActiveIsRouted`, `MergedIsRouted`, `ArchiveAuditAgrees`, `RequestsEnd`, and that the requests implement `ConnectionRegistry` (`RegistrySpec`) |
| `Telemetry` | a Gantry and a LangGraph connection, 1 record, window 2, overlap and lateness 1, time to 4; query, statement, crash; fair | `NothingSlipsThrough`, `CollectionEnds` |
| `Telemetry_reads` | a LangGraph connection, 1 record, 1 push of 2 spans, window 2, overlap and lateness 1, time to 2, summaries of the range from 1 to 2; statement, crash | `CountedOnce`, `AnsweredMeansStored`, `DetailUnlessMoved` |
| `Auth` | 2 users, 1 address, 2 sessions, 2 requests, thresholds 1 and 2, capacity 2 of 3 keys, time to 2; failing statements | `BootstrapClaimedOnce`, `FailuresEndWithBlock`, and that the requests implement `Accounts` (`AccountsSpec`) |

Violations, each a disagreement between the code and a statement of the
repository (quoted in `PROJECT.json`):

| Run | Property | What happens |
|---|---|---|
| `RuntimeSync_timeout` | `RunsFinish` | the failure of a cancelled sync is recorded under the cancelled context, so the run stays running |
| `Connections_alias` | `RoutesAreNotInstances` | the address of a consolidated connection can be registered again, and a route becomes an instance |
| `Telemetry_fleet` | `OneSourcePerSummary` | a summary of the fleet adds the usage of connections whose sources differ |

Type invariants are proved and not run. Some properties are not run because the
abstract specification of the run says more: `FinishedIsFinal` follows from
`ActionLedger`, `ArchivedIsFinal` from `ConnectionRegistry`, `RevokedIsFinal` and
`LogoutAuditedOnce` from `Accounts`. They are proved all the same.

What the code does, and the properties therefore do not exclude:

- An action whose context ends, or whose process dies, after the runtime was changed
  stays "running", and a row of `telemetry_ingestion_runs` likewise.
- A reused idempotency key is answered with the action it was first used for.
- A sync in flight activates a connection that is archived meanwhile;
  `ConnectionShowsLatestRun` leaves the status of archived connections out.
- A session that went back to the pool with the lock keeps every other session's sync
  of the runtime out, as a conflict, until the pool closes it: 30 minutes by default.
- All rows that the totals of a summary found of a connection may take a time outside
  the range before its models or series are read, which then lack the connection;
  `DetailUnlessMoved` says that nothing else makes detail missing. A LangSmith run that
  is still open when both its windows are read keeps its start as its time, and no
  usage.
- Removing a connection while its settings are written may leave the endpoint row of
  the archived connection with the new address.
- A connection that becomes read-only after an action has loaded it is still changed
  once.
- With the slots taken a tick is dropped, and the next one begins at the head of the
  list again: `FirstIsServed` is about the first runtime only.
- `main` does not wait for the worker: `WorkerStops` allows for the end of the process.

### Bounds

`MaxRuns` bounds the runs of a behaviour: three runs let an agent be seen, missed
twice and so cross a threshold of two, or let a run fail between two successes.
Two calls suffice for the overlaps, because the properties relate a call to the
shared state or two calls to each other. The rows of one agent do not depend on
another agent; that a skill is stale only when no agent has it is checked with one
agent and proved for any number. `RuntimeSync_liveness` needs no agents, as the lock does
not look at them. One key and two requests are the duplicate case; three runtimes over two
slots give a tick that is dropped half-way, and three goroutines at once are two with a
slot and one that has given its slot back but not left the wait group. In `SnapshotCollector` three agents
occupy both goroutines and hand out a third job, pages of one make every boundary
visible, and three changes delete on a page that was read, on one that was not, and
move a thread over a boundary. In `Connections` three connections are a merge into
one that was merged into before, and two requests consolidate in opposite
directions. In `Telemetry` windows end at 2 and 4: a record at 1 may appear after the
first was asked for, and is in reach of the second. In `Telemetry_reads` a run that
began at 1 and ends at 2, or a span that is pushed again, leaves the range between the
statements of a summary, and a second source of the connection may hold what the first
one gives up; two spans are a valid and an invalid one, or one of an unknown
connection, in either order. Connections do not interact except in a summary of the
fleet, which `Telemetry_fleet` has. In `Auth` three keys
over a capacity of two make the limiter forget, and a clock to 2 passes the idle,
the absolute and the block expiry. Calls, agents, users and requests are
interchangeable, and symmetry is used in runs without liveness only.

`SyncWorker` runs check no deadlock, because the process ends, and neither do those
of `Connections`: once every id was given out and archived there is nothing left to
ask for.

### Fairness

A sync that has begun continues (`WF` on its steps): goroutines are scheduled,
statements end, and every request to a runtime has a timeout (`doJSON`). A session
that lies in the pool with the lock ends (`SF` on `SessionEnds`, because a sync that
borrows it in between disables the action): `SetConnMaxLifetime` gets a positive
duration (`durationEnv`), and the pool hands out no session past it. The same
holds of the collectors of `Telemetry` and of the calls and goroutines of
`SnapshotCollector`. The worker's fairness is that of its ticker and loop, and its
goroutines end, and run their deferred calls, because their context has a timeout. Requests of `Connections` have
strong fairness: PostgreSQL serves the waiters of a row in turn, so one that can
proceed again and again does. Nothing obliges a client, an exporter or a runtime to
do anything.

## Proofs

For every value of the constants, that is any number of calls, agents, skills,
runs, requests, keys, connections, users, sessions, goroutines and records, any
threshold, page size, window and clock:

- `RuntimeSync_proofs`. `TypeCorrect` uses `TypeInv`: the type invariant and that a
  call past `InsertRun` has a run. `ExclusiveCorrect` proves `SyncExclusive`,
  inductive by itself once the state is typed, on the assumption that lock
  sessions are not lost; unlocks may fail. `FailuresLeaveNoTrace`, `AuditCorrect` and `FinishedOnce`
  need no lock, only that a commit reported as failed did fail. They follow from
  `RunInv`: no two calls have the same run (`RunsOwned`), a call that has yet to
  decide its run finds it running and one that goes on to audit finds what it
  audits (`RunsDecided`), and an audited run is nobody's to decide
  (`AuditedRunsClosed`). Without these parts `AuditAgrees` is not inductive: an
  audit event could be about a run that somebody decides later.
- `RuntimeCatalog_proofs`. `KnownForeverCorrect` and `TombstoneYieldsCorrect` hold under
  every fault. The others assume that no lock session and no acknowledgement is
  lost. Because of the lock the call that persists has the latest run, so every row
  it writes is newer (`CatalogMovesForwardCorrect`) and each success is counted by
  exactly the rows that it missed (`MissingCounted`, `StaleIffMissedCorrect`,
  `StaleCoherentCorrect`) and the last statement about the connection row is that of
  the latest run (`ConnectionShowsLatestRunCorrect`). `CatalogImplemented` is the
  refinement: each step of `RuntimeSync` is, under the mapping of `Catalog`, one of
  `RuntimeCatalog` or a stutter.
- `ControlActions_proofs`, under every fault. All of its theorems follow from
  `ActionInv`: the unique index gives a key to one request at most (`KeyOwned`);
  where that request is says what the stored action looks like (`RowAtStep`) and
  whether the runtime was called (`CallsAtStep`); and an action with a final audit
  event has no owner (`AuditedHasNoOwner`). `LedgerImplemented` is the refinement:
  a request that owns an entry finds it open (`OwnerOpen`), and `RowAtStep` and
  `CallsAtStep` say which step of the ledger its statement is; every other step is a
  stutter.
- `SyncWorker_proofs`. Each step adds or removes one slot and one goroutine
  (`SlotsAccounted`), and the wait group's counter is the number of goroutines and of
  those that have given back their slot (`WaitGroupCounts`), from which
  `StoppedIsDrained` follows: `RunReturns` itself sees the counter only.
- `Connections_proofs`, with requests that end anywhere. `ConnInv`: a consolidation that
  has locked a row keeps it active (`Locked`), what a request committed is there when
  it audits (`Committed`), and only archived connections are merged
  (`ActiveIsUnmerged`). So the connection another one is merged into is itself not
  merged at that moment, and no step closes a cycle (`MergesEndCorrect`).
  `RegistryImplemented`: the consolidation is the one step `Merge` of the registry,
  because what it compared before it locked anything, that both connections exist and
  are of one type, cannot change (`SameKind`), and what it has locked stays active.
- `Auth_proofs`. What a signup read under the lock stays true while it writes
  (`WriterAt`), so one user gets the bootstrap organization; `SessionInv` says that
  every write of a session keeps its revocation and stays within its absolute
  expiry; `LimiterInv` bounds the keys of the limiter by its capacity.
  `FailuresEndCorrect` counts: while a key is blocked, the failures told of it and the
  logins under way that may still fail on it are together fewer than the requests
  (`LateInv`), because a failure takes its request off those under way and `Allow`
  lets no other pass. The bound alone is not inductive: it does not say that failures
  use requests up. `AccountsImplemented`: what a request found out about accounts some
  steps before it writes is still so (`WriterAt`, `Found`), and the refresh and the
  logout change their own columns only, of the row as it is by then (`RowRefreshed`,
  `RowRevoked`).
- `Telemetry_proofs`, with failing queries and statements and restarts anywhere, and rows
  whose time changes. No two rows have one key, and an upsert replaces a row but never
  takes a key away (`KeysUnique`, `KeysKept`); of one connection only one source is chosen,
  in whatever range (`CountedOnceCorrect`). `WindowsInv`: what was
  due in a window is stored up to what its collector has left, and of two adjacent
  windows one closes late enough and reaches back far enough for every record
  (`NothingSlipsThroughCorrect`). `PushInv` and `ReadInv` carry what a push has stored and
  what a summary has found over the steps of the others: each key that was found is
  still there, so if the row is within the range, some source of its connection is
  chosen (`DetailUnlessMovedCorrect`).
- `SnapshotCollector_proofs`, under every failure and change. `CollectorInv`: goroutines have
  jobs only while the collection waits for them, every delegation has a ref, and an
  accepted snapshot is as it was validated. So the key
  under which delegations are checked is the agent and the ref, by which they are
  stored (`RowsDistinctCorrect`). `WholeInv` accounts for every job of the pool: filled in, in
  work, or failed (`SnapshotWholeCorrect`). `HiddenByDeletionsCorrect` is about lists
  that move while they are read by offset. Those who stayed all the time (and, for
  threads, were not updated), were not read and stand before the offset of the next
  page are at most as many as were deleted (`AgentsInv`, `ThreadsInv`): a page that is
  full ends where the next one begins, a deletion moves at most one of those who stay
  over that boundary, and a creation none. A page that is not full reaches the end of
  the list, by counting positions, and leaves none of them behind.

Assumptions: the threshold is positive (`NewRuntimeSyncService` replaces others),
runs and ids are numbers in order of creation, runtimes report known statuses
(`StatusDomain` maps everything else to "unknown"), the overlap is no longer than the
window (`NewTelemetryWorker` sets one minute and five) and usage is reported no later
than the overlap, the idle life of a session is no longer than its life, a process
serves finitely many requests and a runtime has finitely many
agents and threads, and the placeholders are not members of the sets they stand
beside.

Model-checked only: liveness (`LockReleased`, `WorkerStops`, `FirstIsServed`, `RequestsEnd`,
`CollectionEnds`, `CollectionReturns`), which is out of the prover's reach. The abstract
specifications promise safety only, so no refinement speaks of fairness.

## Not modelled

Of what the modules are about:

- Executions, diagnostics, inventory, capabilities and access documents, which the
  transaction of `PersistSnapshot` upserts: they have no life cycle. Delegation rows
  age by the rule of `CatalogRows`.
- The checks of `validateRuntimeSnapshot` on single fields, except as the choice to
  refuse a snapshot.
- The connection pool. `TryLock` keeps one connection while the statements of the sync
  ask for another, so as many syncs at once as the pool has connections wait for
  each other until their timeouts; the worker's own syncs are bounded below that
  number, manual ones are not.
- Counts, costs and prices of usage, and the form of a Gantry record that carries
  neither id nor time beyond its being stored once per window.
- The contents of audit events, and the read-only queries.

Whole components, each with its reason in `PROJECT.json`: secrets, inventory and
diagnostics, configuration, the model catalogue, the HTTP API, the command line
client and the web console keep no state over more than one step; the migrator is a
sequential command whose every step commits with its own record.
