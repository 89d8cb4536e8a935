------------------------------ MODULE SyncWorker ------------------------------
(***************************************************************************)
(* The periodic sync worker of a server process: RuntimeSyncWorker.Run and *)
(* schedule, the goroutines it starts, and the shutdown of the process.    *)
(*                                                                         *)
(* A goroutine is known by its runtime: spawned[r] of them have not yet    *)
(* created a run, and at most one, which holds the advisory lock of r, is  *)
(* synchronizing (module RuntimeSync says what it does).  When either ends *)
(* it first gives back its slot and then leaves the wait group, as its     *)
(* deferred calls run in that order.  Time is reduced to which runtimes    *)
(* are due.                                                                *)
(***************************************************************************)
EXTENDS Naturals, FiniteSets

CONSTANTS
    Runtimes,           \* the runtimes, each named by its place in the list
                        \* that List returns, which is sorted
    MaxConcurrency,     \* the capacity of the semaphore
    MaxGoroutines       \* bound: goroutines at once, those about to end included

ASSUME ConcurrencyAssumption == MaxConcurrency \in Nat \ {0}

ASSUME BoundAssumption == MaxGoroutines \in Nat

ASSUME RuntimesAssumption == Runtimes \subseteq Nat

VARIABLES
    enabled,    \* runtimes with sync enabled, a credential and not disabled
    due,        \* runtimes whose last sync started an interval or more ago
    worker,     \* "waiting" for a tick, "scheduling", "draining", "stopped"
    queue,      \* the due runtimes that schedule has yet to visit
    semaphore,  \* slots taken
    spawned,    \* spawned[r]: goroutines of r that have not created a run
    syncing,    \* runtimes with a goroutine between CreateRun and its end
    ending,     \* goroutines without their slot but still in the wait group
    wg,         \* the counter of the wait group
    stopping,   \* the root context is done (a signal has arrived)
    exited      \* the process has returned from main

jobs == <<semaphore, spawned, syncing, ending, wg>>
vars == <<enabled, due, worker, queue, jobs, stopping, exited>>

\* The goroutines without a run, numbered for each runtime.
Waiting == UNION {{r} \X (1 .. spawned[r]) : r \in Runtimes}

\* The goroutines that have yet to end.
Goroutines == Cardinality(syncing) + Cardinality(Waiting)

WorkerTypeOK ==
    /\ enabled \subseteq Runtimes /\ due \subseteq Runtimes /\ syncing \subseteq Runtimes
    /\ worker \in {"waiting", "scheduling", "draining", "stopped"}
    /\ queue \subseteq Runtimes
    /\ semaphore \in 0 .. MaxConcurrency
    /\ spawned \in [Runtimes -> Nat]
    /\ ending \in Nat /\ wg \in Nat
    /\ stopping \in BOOLEAN /\ exited \in BOOLEAN

Init ==
    /\ enabled \in SUBSET Runtimes
    /\ due = Runtimes
    /\ worker = "waiting"
    /\ queue = {}
    /\ semaphore = 0
    /\ spawned = [r \in Runtimes |-> 0]
    /\ syncing = {}
    /\ ending = 0
    /\ wg = 0
    /\ stopping = FALSE
    /\ exited = FALSE

-----------------------------------------------------------------------------
\* Nothing happens any more once the process has ended.
Alive == ~exited

\* A tick: the runtimes are listed and the due ones among them are visited in
\* the order of the list.  Under a finished context List fails and the tick is
\* over at once.
Tick ==
    /\ Alive /\ worker = "waiting" /\ ~stopping
    /\ worker' = "scheduling"
    /\ queue' = enabled \cap due
    /\ UNCHANGED <<enabled, due, jobs, stopping, exited>>

\* Mutant: the runtimes are visited from the end of the list.
First_Last(r) == \A q \in queue : r >= q

First(r) == \A q \in queue : r <= q

\* Mutant: the goroutine joins the wait group itself, once it runs.
Spawn_NoAdd ==
    /\ Alive /\ worker = "scheduling"
    /\ semaphore < MaxConcurrency /\ wg < MaxGoroutines
    /\ \E r \in queue :
          /\ First(r)
          /\ spawned' = [spawned EXCEPT ![r] = @ + 1]
          /\ queue' = queue \ {r}
    /\ semaphore' = semaphore + 1
    /\ UNCHANGED <<enabled, due, worker, syncing, ending, wg, stopping, exited>>

\* There is a free slot for the next runtime: it is counted in the wait group
\* and a goroutine is started.
Spawn ==
    /\ Alive /\ worker = "scheduling"
    /\ semaphore < MaxConcurrency /\ wg < MaxGoroutines
    /\ \E r \in queue :
          /\ First(r)
          /\ spawned' = [spawned EXCEPT ![r] = @ + 1]
          /\ queue' = queue \ {r}
    /\ semaphore' = semaphore + 1
    /\ wg' = wg + 1
    /\ UNCHANGED <<enabled, due, worker, syncing, ending, stopping, exited>>

\* There is none: the rest of the tick is dropped.
Abandon ==
    /\ Alive /\ worker = "scheduling" /\ queue # {}
    /\ semaphore = MaxConcurrency
    /\ worker' = "waiting"
    /\ queue' = {}
    /\ UNCHANGED <<enabled, due, jobs, stopping, exited>>

EndTick ==
    /\ Alive /\ worker = "scheduling" /\ queue = {}
    /\ worker' = "waiting"
    /\ UNCHANGED <<enabled, due, queue, jobs, stopping, exited>>

\* The goroutine gets the lock and creates a run, which sets
\* last_sync_started_at.
StartSync(r) ==
    /\ Alive /\ spawned[r] > 0 /\ r \notin syncing /\ ~stopping
    /\ spawned' = [spawned EXCEPT ![r] = @ - 1]
    /\ syncing' = syncing \cup {r}
    /\ due' = due \ {r}
    /\ UNCHANGED <<enabled, worker, queue, semaphore, ending, wg, stopping, exited>>

\* Mutant: the slot is given back only after a sync.
SkipSync_Leaks(r) ==
    /\ Alive /\ spawned[r] > 0
    /\ spawned' = [spawned EXCEPT ![r] = @ - 1]
    /\ ending' = ending + 1
    /\ UNCHANGED <<enabled, due, worker, queue, semaphore, syncing, wg, stopping, exited>>

\* Or it ends before it has a run: the lock is held, here or elsewhere, the
\* connection is gone, a statement fails, the context is done.
SkipSync(r) ==
    /\ Alive /\ spawned[r] > 0
    /\ spawned' = [spawned EXCEPT ![r] = @ - 1]
    /\ semaphore' = semaphore - 1
    /\ ending' = ending + 1
    /\ UNCHANGED <<enabled, due, worker, queue, syncing, wg, stopping, exited>>

\* The sync ends, well or not; deferred, the slot is given back.
FinishSync(r) ==
    /\ Alive /\ r \in syncing
    /\ syncing' = syncing \ {r}
    /\ semaphore' = semaphore - 1
    /\ ending' = ending + 1
    /\ UNCHANGED <<enabled, due, worker, queue, spawned, wg, stopping, exited>>

\* Then it leaves the wait group and is gone.
Done ==
    /\ Alive /\ ending > 0
    /\ ending' = ending - 1
    /\ wg' = wg - 1
    /\ UNCHANGED <<enabled, due, worker, queue, semaphore, spawned, syncing, stopping, exited>>

\* Mutant: Run listens to its ticker only.
Drain_Missing ==
    /\ FALSE
    /\ UNCHANGED vars

\* Run sees the end of its context and waits for the wait group.
Drain ==
    /\ Alive /\ worker = "waiting" /\ stopping
    /\ worker' = "draining"
    /\ UNCHANGED <<enabled, due, queue, jobs, stopping, exited>>

\* The counter of the wait group is zero.
RunReturns ==
    /\ Alive /\ worker = "draining"
    /\ wg = 0
    /\ worker' = "stopped"
    /\ UNCHANGED <<enabled, due, queue, jobs, stopping, exited>>

-----------------------------------------------------------------------------
\* The interval of a runtime has passed.
BecomesDue(r) ==
    /\ Alive /\ r \notin due
    /\ due' = due \cup {r}
    /\ UNCHANGED <<enabled, worker, queue, jobs, stopping, exited>>

\* A manual or verification sync, or another process, synchronizes r.
SyncedElsewhere(r) ==
    /\ Alive /\ r \in due \ syncing
    /\ due' = due \ {r}
    /\ UNCHANGED <<enabled, worker, queue, jobs, stopping, exited>>

\* The settings of r change, or it is archived.
ChangeSettings(r) ==
    /\ Alive /\ enabled' = IF r \in enabled THEN enabled \ {r} ELSE enabled \cup {r}
    /\ UNCHANGED <<due, worker, queue, jobs, stopping, exited>>

\* SIGINT or SIGTERM.
Signal ==
    /\ Alive /\ ~stopping
    /\ stopping' = TRUE
    /\ UNCHANGED <<enabled, due, worker, queue, jobs, exited>>

\* main returns, after a signal and the shutdown of the HTTP server or at once
\* when that server fails, and its deferred stop ends the root context; the
\* worker runs in a goroutine that main does not wait for.
Exit ==
    /\ Alive /\ exited' = TRUE
    /\ stopping' = TRUE
    /\ UNCHANGED <<enabled, due, worker, queue, jobs>>

Schedule == Spawn \/ Abandon \/ EndTick

Goroutine(r) == StartSync(r) \/ SkipSync(r)

Next ==
    \/ Tick \/ Schedule \/ Drain \/ RunReturns \/ Done \/ Signal \/ Exit
    \/ \E r \in Runtimes : \/ Goroutine(r) \/ FinishSync(r)
                           \/ BecomesDue(r) \/ SyncedElsewhere(r) \/ ChangeSettings(r)

Spec == Init /\ [][Next]_vars

\* The ticker ticks, the worker's loop runs, and a goroutine ends: its context
\* has a timeout.
FairSpec ==
    /\ Spec
    /\ WF_vars(Tick \/ Schedule \/ Drain \/ RunReturns)
    /\ \A r \in Runtimes : WF_vars(Goroutine(r)) /\ WF_vars(FinishSync(r))
    /\ WF_vars(Done)

-----------------------------------------------------------------------------
(***************************************************************************)
(* Properties.                                                             *)
(***************************************************************************)

\* Every slot that is taken belongs to a goroutine that has yet to end and
\* every such goroutine has one: no path through a goroutine leaks a slot or
\* gives it back twice, so the process never runs more than MaxConcurrency
\* scheduled syncs.
SlotsAccounted == semaphore = Goroutines /\ semaphore <= MaxConcurrency

\* When Run has returned, none of the goroutines it started is left, and none
\* will change the database any more: the counter Run waits for has stood for
\* all of them since before they ran and until after their last step.
StoppedIsDrained == worker = "stopped" => Goroutines = 0 /\ ending = 0

\* After a signal the worker stops, unless the process is gone first.
WorkerStops == stopping ~> (worker = "stopped" \/ exited)

Served(r) == spawned[r] > 0 \/ r \notin enabled \/ r \notin due \/ stopping

\* The first runtime of the list is never passed over for ever.
FirstIsServed ==
    \A r \in Runtimes : (\A q \in Runtimes : r <= q) => (~Served(r) ~> Served(r))
=============================================================================
