--------------------------- MODULE SyncWorker_proofs ---------------------------
(***************************************************************************)
(* Proofs about SyncWorker, for any number of runtimes and any             *)
(* concurrency.  The argument: the goroutines are in one-to-one            *)
(* correspondence with the slots, because each step that starts or ends a  *)
(* goroutine adds or removes exactly one element of the sets of the        *)
(* goroutines that wait and of those that synchronize.  The counter of the *)
(* wait group exceeds the number of taken slots by the number of the       *)
(* goroutines that gave theirs back and are still in the group; when Run   *)
(* finds it at zero there are none of either kind, and none is started by  *)
(* a Run that no longer schedules.                                         *)
(***************************************************************************)
EXTENDS SyncWorker, FiniteSetTheorems, TLAPS

\* The wait group counts the goroutines that have yet to end and those that
\* have only to leave it.
WaitGroupCounts == wg = Goroutines + ending

WorkerInv ==
    /\ WorkerTypeOK
    /\ IsFiniteSet(syncing) /\ IsFiniteSet(Waiting)
    /\ SlotsAccounted
    /\ WaitGroupCounts
    /\ StoppedIsDrained

\* One goroutine more, or less, waits.
LEMMA WaitingChanges ==
    ASSUME NEW r \in Runtimes, spawned \in [Runtimes -> Nat]
    PROVE  /\ spawned' = [spawned EXCEPT ![r] = @ + 1] =>
                  /\ <<r, spawned[r] + 1>> \notin Waiting
                  /\ Waiting' = Waiting \cup {<<r, spawned[r] + 1>>}
           /\ spawned[r] > 0 /\ spawned' = [spawned EXCEPT ![r] = @ - 1] =>
                  /\ <<r, spawned[r]>> \in Waiting
                  /\ Waiting' = Waiting \ {<<r, spawned[r]>>}
<1>1. \A w : w \in Waiting <=> \E q \in Runtimes : \E i \in 1 .. spawned[q] : w = <<q, i>>
    BY DEF Waiting
<1>2. \A w : w \in Waiting' <=> \E q \in Runtimes : \E i \in 1 .. spawned'[q] : w = <<q, i>>
    BY DEF Waiting
<1>3. ASSUME spawned' = [spawned EXCEPT ![r] = @ + 1]
      PROVE  /\ <<r, spawned[r] + 1>> \notin Waiting
             /\ Waiting' = Waiting \cup {<<r, spawned[r] + 1>>}
    <2>1. <<r, spawned[r] + 1>> \notin Waiting
        BY <1>1
    <2>2. \A q \in Runtimes : \A i : i \in 1 .. spawned'[q] <=>
              i \in 1 .. spawned[q] \/ (q = r /\ i = spawned[r] + 1)
        BY <1>3
    <2>3. \A w : w \in Waiting' <=> w \in Waiting \/ w = <<r, spawned[r] + 1>>
        BY <1>1, <1>2, <2>2
    <2> QED  BY <2>1, <2>3
<1>4. ASSUME spawned[r] > 0, spawned' = [spawned EXCEPT ![r] = @ - 1]
      PROVE  /\ <<r, spawned[r]>> \in Waiting
             /\ Waiting' = Waiting \ {<<r, spawned[r]>>}
    <2>1. spawned[r] \in 1 .. spawned[r]
        BY <1>4
    <2>2. <<r, spawned[r]>> \in Waiting
        BY <1>1, <2>1
    <2>3. \A q \in Runtimes : \A i : i \in 1 .. spawned'[q] <=>
              i \in 1 .. spawned[q] /\ ~(q = r /\ i = spawned[r])
        BY <1>4
    <2>4. \A w : w \in Waiting' <=> w \in Waiting /\ w # <<r, spawned[r]>>
        BY <1>1, <1>2, <2>3
    <2> QED  BY <2>2, <2>4
<1> QED  BY <1>3, <1>4

\* No goroutine is left exactly if none waits and none synchronizes.
LEMMA NoGoroutine ==
    ASSUME IsFiniteSet(syncing), IsFiniteSet(Waiting)
    PROVE  /\ Goroutines \in Nat
           /\ Goroutines = 0 <=> syncing = {} /\ Waiting = {}
<1>1. Cardinality(syncing) \in Nat /\ Cardinality(Waiting) \in Nat
    BY FS_CardinalityType
<1>2. (Cardinality(syncing) = 0 <=> syncing = {}) /\ (Cardinality(Waiting) = 0 <=> Waiting = {})
    BY FS_EmptySet
<1> QED  BY <1>1, <1>2 DEF Goroutines

\* Initially there is no goroutine.
LEMMA WorkerInit == Init => WorkerInv
<1> SUFFICES ASSUME Init PROVE WorkerInv
    OBVIOUS
<1>1. syncing = {} /\ Waiting = {}
    BY DEF Init, Waiting
<1>2. IsFiniteSet(syncing) /\ IsFiniteSet(Waiting)
    BY <1>1, FS_EmptySet
<1>3. Goroutines = 0
    BY <1>1, <1>2, NoGoroutine
<1>4. WorkerTypeOK
    <2>1. 0 \in 0 .. MaxConcurrency
        BY ConcurrencyAssumption
    <2>2. [r \in Runtimes |-> 0] \in [Runtimes -> Nat]
        OBVIOUS
    <2> QED  BY <2>1, <2>2 DEF Init, WorkerTypeOK
<1>5. SlotsAccounted /\ WaitGroupCounts /\ StoppedIsDrained
    BY <1>3, ConcurrencyAssumption DEF Init, SlotsAccounted, WaitGroupCounts, StoppedIsDrained
<1> QED  BY <1>2, <1>4, <1>5 DEF WorkerInv

\* Every step keeps the goroutines and the slots in correspondence.
LEMMA WorkerStep == WorkerInv /\ [Next]_vars => WorkerInv'
<1> SUFFICES ASSUME WorkerInv, [Next]_vars PROVE WorkerInv'
    OBVIOUS
<1>y. /\ spawned \in [Runtimes -> Nat] /\ semaphore \in 0 .. MaxConcurrency
      /\ syncing \subseteq Runtimes /\ ending \in Nat /\ wg \in Nat
      /\ IsFiniteSet(syncing) /\ IsFiniteSet(Waiting)
    BY DEF WorkerInv, WorkerTypeOK
<1>n. /\ Cardinality(syncing) \in Nat /\ Cardinality(Waiting) \in Nat
      /\ semaphore = Cardinality(syncing) + Cardinality(Waiting)
      /\ wg = Cardinality(syncing) + Cardinality(Waiting) + ending
      /\ MaxConcurrency \in Nat
    BY <1>y, FS_CardinalityType, ConcurrencyAssumption
    DEF WorkerInv, SlotsAccounted, WaitGroupCounts, Goroutines
<1>s. worker = "stopped" => syncing = {} /\ Waiting = {} /\ ending = 0
    BY <1>y, NoGoroutine DEF WorkerInv, StoppedIsDrained
<1>1. ASSUME NEW r \in Runtimes, worker = "scheduling", worker' = worker, semaphore < MaxConcurrency,
             semaphore' = semaphore + 1, wg' = wg + 1, spawned' = [spawned EXCEPT ![r] = @ + 1],
             UNCHANGED <<enabled, due, syncing, ending, stopping, exited>>, queue' \subseteq queue
      PROVE  WorkerInv'
    <2>1. /\ <<r, spawned[r] + 1>> \notin Waiting
          /\ Waiting' = Waiting \cup {<<r, spawned[r] + 1>>}
        BY <1>1, <1>y, WaitingChanges
    <2>2. IsFiniteSet(Waiting') /\ Cardinality(Waiting') = Cardinality(Waiting) + 1
        BY <1>y, <2>1, FS_AddElement
    <2>3. SlotsAccounted' /\ WaitGroupCounts' /\ semaphore' \in 0 .. MaxConcurrency
        BY <1>1, <1>y, <1>n, <2>2 DEF SlotsAccounted, WaitGroupCounts, Goroutines
    <2> QED  BY <1>1, <1>y, <2>2, <2>3 DEF WorkerInv, WorkerTypeOK, StoppedIsDrained
<1>2. ASSUME NEW r \in Runtimes, StartSync(r) PROVE WorkerInv'
    <2>1. <<r, spawned[r]>> \in Waiting /\ Waiting' = Waiting \ {<<r, spawned[r]>>}
        BY <1>2, <1>y, WaitingChanges DEF StartSync
    <2>2. IsFiniteSet(Waiting') /\ Cardinality(Waiting') = Cardinality(Waiting) - 1
        BY <1>y, <2>1, FS_RemoveElement
    <2>3. IsFiniteSet(syncing') /\ Cardinality(syncing') = Cardinality(syncing) + 1
        BY <1>2, <1>y, FS_AddElement DEF StartSync
    <2>4. SlotsAccounted' /\ WaitGroupCounts'
        BY <1>2, <1>y, <1>n, <2>2, <2>3 DEF StartSync, SlotsAccounted, WaitGroupCounts, Goroutines
    <2>5. worker # "stopped"
        BY <1>s, <2>1
    <2>6. spawned' \in [Runtimes -> Nat]
        BY <1>2, <1>y DEF StartSync
    <2> QED  BY <1>2, <2>2, <2>3, <2>4, <2>5, <2>6
             DEF StartSync, WorkerInv, WorkerTypeOK, StoppedIsDrained
<1>3. ASSUME NEW r \in Runtimes, SkipSync(r) PROVE WorkerInv'
    <2>1. <<r, spawned[r]>> \in Waiting /\ Waiting' = Waiting \ {<<r, spawned[r]>>}
        BY <1>3, <1>y, WaitingChanges DEF SkipSync
    <2>2. IsFiniteSet(Waiting') /\ Cardinality(Waiting') = Cardinality(Waiting) - 1
        BY <1>y, <2>1, FS_RemoveElement
    <2>3. Cardinality(Waiting') \in Nat
        BY <2>2, FS_CardinalityType
    <2>4. SlotsAccounted' /\ WaitGroupCounts' /\ semaphore' \in 0 .. MaxConcurrency
        BY <1>3, <1>y, <1>n, <2>2, <2>3 DEF SkipSync, SlotsAccounted, WaitGroupCounts, Goroutines
    <2>5. worker # "stopped"
        BY <1>s, <2>1
    <2>6. spawned' \in [Runtimes -> Nat]
        BY <1>3, <1>y DEF SkipSync
    <2> QED  BY <1>3, <1>y, <2>2, <2>4, <2>5, <2>6
             DEF SkipSync, WorkerInv, WorkerTypeOK, StoppedIsDrained
<1>4. ASSUME NEW r \in Runtimes, FinishSync(r) PROVE WorkerInv'
    <2>1. IsFiniteSet(syncing') /\ Cardinality(syncing') = Cardinality(syncing) - 1
        BY <1>4, <1>y, FS_RemoveElement DEF FinishSync
    <2>2. Cardinality(syncing') \in Nat /\ Waiting' = Waiting
        BY <1>4, <2>1, FS_CardinalityType DEF FinishSync, Waiting
    <2>3. SlotsAccounted' /\ WaitGroupCounts' /\ semaphore' \in 0 .. MaxConcurrency
        BY <1>4, <1>y, <1>n, <2>1, <2>2 DEF FinishSync, SlotsAccounted, WaitGroupCounts, Goroutines
    <2>4. worker # "stopped"
        BY <1>4, <1>s DEF FinishSync
    <2> QED  BY <1>4, <1>y, <2>1, <2>2, <2>3, <2>4
             DEF FinishSync, WorkerInv, WorkerTypeOK, StoppedIsDrained
<1>5. ASSUME UNCHANGED jobs,
             /\ enabled' \subseteq Runtimes /\ due' \subseteq Runtimes /\ queue' \subseteq Runtimes
             /\ worker' \in {"waiting", "scheduling", "draining", "stopped"}
             /\ stopping' \in BOOLEAN /\ exited' \in BOOLEAN,
             worker' = "stopped" => Goroutines = 0 /\ ending = 0
      PROVE  WorkerInv'
    <2>1. Waiting' = Waiting /\ Goroutines' = Goroutines
        BY <1>5 DEF jobs, Waiting, Goroutines
    <2> QED  BY <1>5, <2>1
             DEF jobs, WorkerInv, WorkerTypeOK, SlotsAccounted, WaitGroupCounts, StoppedIsDrained
<1>6. CASE RunReturns
    <2>1. Goroutines \in Nat
        BY <1>y, NoGoroutine
    <2>2. Goroutines = 0 /\ ending = 0
        BY <1>6, <1>y, <2>1 DEF RunReturns, WorkerInv, WaitGroupCounts
    <2> QED  BY <1>5, <1>6, <2>2 DEF RunReturns, WorkerInv, WorkerTypeOK
<1>7. CASE Tick \/ Abandon \/ EndTick \/ Drain \/ Signal \/ Exit
    BY <1>5, <1>7
    DEF Tick, Abandon, EndTick, Drain, Signal, Exit, WorkerInv, WorkerTypeOK, StoppedIsDrained
<1>8. ASSUME NEW r \in Runtimes, BecomesDue(r) \/ SyncedElsewhere(r) \/ ChangeSettings(r)
      PROVE  WorkerInv'
    BY <1>5, <1>8
    DEF BecomesDue, SyncedElsewhere, ChangeSettings, WorkerInv, WorkerTypeOK, StoppedIsDrained
<1>9. CASE Spawn
    <2>1. queue \subseteq Runtimes
        BY DEF WorkerInv, WorkerTypeOK
    <2> QED  BY <1>1, <1>9, <2>1 DEF Spawn
<1>10. CASE UNCHANGED vars
    BY <1>5, <1>10 DEF vars, WorkerInv, WorkerTypeOK, StoppedIsDrained
<1>11. CASE Done
    <2>1. ending' \in Nat /\ wg' \in Nat /\ wg' = Cardinality(syncing) + Cardinality(Waiting) + ending'
        BY <1>11, <1>y, <1>n DEF Done
    <2>2. Waiting' = Waiting /\ syncing' = syncing /\ Goroutines' = Goroutines
        BY <1>11 DEF Done, Waiting, Goroutines
    <2>3. worker # "stopped"
        BY <1>11, <1>s DEF Done
    <2>4. SlotsAccounted' /\ WaitGroupCounts'
        BY <1>11, <2>1, <2>2 DEF Done, WorkerInv, SlotsAccounted, WaitGroupCounts, Goroutines
    <2> QED  BY <1>11, <2>1, <2>2, <2>3, <2>4
             DEF Done, WorkerInv, WorkerTypeOK, StoppedIsDrained
<1> QED
    BY <1>2, <1>3, <1>4, <1>6, <1>7, <1>8, <1>9, <1>10, <1>11 DEF Next, Schedule, Goroutine

LEMMA WorkerInvariant == Spec => []WorkerInv
    BY WorkerInit, WorkerStep, PTL DEF Spec

\* Every reachable state is well typed; the semaphore is never over its capacity
\* and no goroutine gives back a slot that is not there.
THEOREM WorkerTypeCorrect == Spec => []WorkerTypeOK
<1>1. WorkerInv => WorkerTypeOK
    BY DEF WorkerInv
<1> QED  BY <1>1, WorkerInvariant, PTL

\* Each goroutine has one slot and each taken slot one goroutine, whatever number
\* of runtimes, goroutines of one runtime and slots there are.
THEOREM SlotsCorrect == Spec => []SlotsAccounted
<1>1. WorkerInv => SlotsAccounted
    BY DEF WorkerInv
<1> QED  BY <1>1, WorkerInvariant, PTL

\* When Run has returned no goroutine of the worker is left and none is
\* started, for any number of them: a counter that is joined before a goroutine
\* runs and left as its last step is zero only when all are gone.
THEOREM StoppedCorrect == Spec => []StoppedIsDrained
<1>1. WorkerInv => StoppedIsDrained
    BY DEF WorkerInv
<1> QED  BY <1>1, WorkerInvariant, PTL
=============================================================================
