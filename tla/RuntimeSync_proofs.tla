-------------------------- MODULE RuntimeSync_proofs --------------------------
(***************************************************************************)
(* Proofs about RuntimeSync, for any number of calls, agents, skills and   *)
(* runs and any threshold.                                                 *)
(***************************************************************************)
EXTENDS RuntimeSync, TLAPS

-----------------------------------------------------------------------------
(***************************************************************************)
(* The row operators keep rows well formed.                                *)
(***************************************************************************)

\* An upserted agent row is a row, for every status a runtime may report.
LEMMA UpsertAgentType ==
    ASSUME NEW st \in RuntimeStatuses, NEW r \in Runs
    PROVE  UpsertSnapshotAgent(st, r) \in AgentRow
BY StatusAssumption, RunsAssumption DEF UpsertSnapshotAgent, AgentRow, AgentStatus

\* Ageing an agent row gives a row.
LEMMA AdvanceAgentType ==
    ASSUME NEW row \in AgentRow, NEW r \in Runs
    PROVE  AdvanceMissingAgent(row, r) \in AgentRow
BY ThresholdAssumption, RunsAssumption
   DEF AdvanceMissingAgent, AgentRow, AgentStatus, Known

\* Persisting a snapshot keeps the agents table well formed.
LEMMA PersistedAgentsType ==
    ASSUME NEW rows \in [Agents -> AgentRow], NEW sn \in Snapshots, NEW r \in Runs
    PROVE  PersistedAgents(rows, sn, r) \in [Agents -> AgentRow]
<1> SUFFICES ASSUME NEW a \in Agents
             PROVE  AdvanceMissingAgent(
                        IF sn[a] # "absent" THEN UpsertSnapshotAgent(sn[a], r)
                                            ELSE rows[a], r) \in AgentRow
    BY DEF PersistedAgents
<1>1. CASE sn[a] # "absent"
    <2>1. sn[a] \in RuntimeStatuses  BY <1>1 DEF Snapshots
    <2> QED  BY <1>1, <2>1, UpsertAgentType, AdvanceAgentType
<1>2. CASE sn[a] = "absent"
    BY <1>2, AdvanceAgentType
<1> QED  BY <1>1, <1>2

\* Ageing a skill row gives a row.
LEMMA AdvanceSkillType ==
    ASSUME NEW row \in SkillRow, NEW r \in Runs
    PROVE  AdvanceMissingSkill(row, r) \in SkillRow
BY ThresholdAssumption, RunsAssumption DEF AdvanceMissingSkill, SkillRow, Known

\* An upserted skill or binding row is a row.
LEMMA UpsertSkillType ==
    ASSUME NEW r \in Runs
    PROVE  UpsertSnapshotSkill(r) \in SkillRow
BY RunsAssumption DEF UpsertSnapshotSkill, SkillRow

\* Persisting a snapshot keeps the skills table well formed.
LEMMA PersistedSkillsType ==
    ASSUME NEW rows \in [Skills -> SkillRow], NEW asg, NEW r \in Runs
    PROVE  PersistedSkills(rows, asg, r) \in [Skills -> SkillRow]
BY AdvanceSkillType, UpsertSkillType DEF PersistedSkills

\* Persisting a snapshot keeps the bindings table well formed.
LEMMA PersistedBindingsType ==
    ASSUME NEW rows \in [Agents -> [Skills -> SkillRow]], NEW asg, NEW r \in Runs
    PROVE  PersistedBindings(rows, asg, r) \in [Agents -> [Skills -> SkillRow]]
BY AdvanceSkillType, UpsertSkillType DEF PersistedBindings

-----------------------------------------------------------------------------
(***************************************************************************)
(* Type correctness.  The type invariant alone is not inductive: that a    *)
(* call past InsertRun has a run is what makes runs[run[s]] meaningful.    *)
(***************************************************************************)
HasRun == Holding \ {"locked", "releasing"}

\* A call that has inserted its run and not yet begun to release has a run.
RunAssigned == \A s \in Syncers : pc[s] \in HasRun => run[s] \in Runs

TypeInv == TypeOK /\ RunAssigned

\* The initial state is well typed.
LEMMA TypeInit == Init => TypeInv
<1> SUFFICES ASSUME Init PROVE TypeInv
    OBVIOUS
<1>1. NoAgent \in AgentRow /\ NoSkill \in SkillRow /\ NoSnapshot \in SnapshotType
    BY ThresholdAssumption DEF NoAgent, NoSkill, AgentRow, SkillRow, AgentStatus, NoSnapshot,
                               SnapshotType, Snapshots
<1>2. RunAssigned
    BY DEF Init, RunAssigned, HasRun, Holding
<1>3. TypeOK
    BY <1>1 DEF Init, TypeOK, ConnType, Steps
<1> QED  BY <1>2, <1>3 DEF TypeInv

\* Every step keeps the state well typed.
LEMMA TypeStep == TypeInv /\ [Next]_vars => TypeInv'
<1> SUFFICES ASSUME TypeInv, [Next]_vars PROVE TypeInv'
    OBVIOUS
<1> USE DEF TypeInv, TypeOK, RunAssigned, HasRun, Holding, Steps
<1>a. NoSnapshot \in SnapshotType
    BY DEF NoSnapshot, SnapshotType, Snapshots
<1>1. ASSUME NEW s \in Syncers, LoadConnection(s) PROVE TypeInv'
    BY <1>1 DEF LoadConnection, GoTo, world, database, catalog
<1>2. ASSUME NEW s \in Syncers, TryLock(s) PROVE TypeInv'
    BY <1>2 DEF TryLock, GoTo, world, catalog
<1>3. ASSUME NEW s \in Syncers, TryLockFails(s) PROVE TypeInv'
    BY <1>3, <1>a DEF TryLockFails, Return, GoTo, world, database, catalog
<1>4. ASSUME NEW s \in Syncers, InsertRun(s) PROVE TypeInv'
    BY <1>4 DEF InsertRun, GoTo, world, catalog
<1>5. ASSUME NEW s \in Syncers, MarkSyncing(s) PROVE TypeInv'
    BY <1>5 DEF MarkSyncing, GoTo, ConnType, world, catalog
<1>6. ASSUME NEW s \in Syncers, CreateRunFails(s) PROVE TypeInv'
    BY <1>6 DEF CreateRunFails, GoTo, world, database, catalog
<1>7. ASSUME NEW s \in Syncers, ListAgents(s) PROVE TypeInv'
    BY <1>7 DEF ListAgents, GoTo, SnapshotType, world, database, catalog
<1>8. ASSUME NEW s \in Syncers, FetchAgents(s) PROVE TypeInv'
    BY <1>8 DEF FetchAgents, GoTo, SnapshotType, world, database, catalog
<1>9. ASSUME NEW s \in Syncers, CollectFails(s) PROVE TypeInv'
    BY <1>9 DEF CollectFails, GoTo, world, database, catalog
<1>10. ASSUME NEW s \in Syncers, PersistEffect(s),
              \/ GoTo(s, "auditSucceeded") \/ GoTo(s, "failing")
       PROVE TypeInv'
    <2>1. snap[s].agents \in Snapshots /\ run[s] \in Runs
        BY <1>10 DEF PersistEffect, SnapshotType
    <2>2. agents' \in [Agents -> AgentRow]
        BY <1>10, <2>1, PersistedAgentsType DEF PersistEffect
    <2>3. skills' \in [Skills -> SkillRow]
        BY <1>10, <2>1, PersistedSkillsType DEF PersistEffect
    <2>4. bindings' \in [Agents -> [Skills -> SkillRow]]
        BY <1>10, <2>1, PersistedBindingsType DEF PersistEffect
    <2> QED  BY <1>10, <2>1, <2>2, <2>3, <2>4 DEF PersistEffect, GoTo, ConnType, world
<1>11. ASSUME NEW s \in Syncers, PersistFails(s) PROVE TypeInv'
    BY <1>11 DEF PersistFails, GoTo, world, database, catalog
<1>12. ASSUME NEW s \in Syncers, FailRun(s) PROVE TypeInv'
    BY <1>12 DEF FailRun, GoTo, ConnType, world, catalog
<1>13. ASSUME NEW s \in Syncers, FailRunFails(s) PROVE TypeInv'
    BY <1>13 DEF FailRunFails, GoTo, world, database, catalog
<1>14. ASSUME NEW s \in Syncers, AuditSync(s) PROVE TypeInv'
    BY <1>14 DEF AuditSync, AuditResult, GoTo, world, catalog
<1>15. ASSUME NEW s \in Syncers, AuditSyncFails(s) PROVE TypeInv'
    BY <1>15 DEF AuditSyncFails, GoTo, world, database, catalog
<1>16. ASSUME NEW s \in Syncers, Release(s) PROVE TypeInv'
    BY <1>16, <1>a DEF Release, Return, GoTo, world, catalog
<1>26. ASSUME NEW s \in Syncers, ReleaseFails(s) PROVE TypeInv'
    BY <1>26, <1>a DEF ReleaseFails, Return, GoTo, world, catalog
<1>17. ASSUME NEW s \in Syncers, Cancel(s) PROVE TypeInv'
    BY <1>17 DEF Cancel, world, database, catalog
<1>18. ASSUME NEW s \in Syncers, Crash(s) PROVE TypeInv'
    BY <1>18, <1>a DEF Crash, Return, GoTo, world, catalog
<1>19. ASSUME NEW s \in Syncers, LoseSession(s) PROVE TypeInv'
    BY <1>19 DEF LoseSession, world, catalog, call
<1>27. ASSUME SessionEnds PROVE TypeInv'
    BY <1>27 DEF SessionEnds, world, catalog, call
<1>20. ASSUME NEW a \in Agents, RuntimeChanges(a) PROVE TypeInv'
    BY <1>20 DEF RuntimeChanges, Snapshots, database, catalog, call
<1>21. ASSUME NEW a \in Agents, DeleteOnRuntime(a) PROVE TypeInv'
    BY <1>21 DEF DeleteOnRuntime, Snapshots, database, catalog, call
<1>22. ASSUME NEW a \in Agents, MarkAgentDeleted(a) PROVE TypeInv'
    BY <1>22 DEF MarkAgentDeleted, Tombstoned, AgentRow, AgentStatus, world, call
<1>23. ASSUME NEW a \in Agents, MarkAgentDeletedFails(a) PROVE TypeInv'
    BY <1>23 DEF MarkAgentDeletedFails, world, database, catalog, call
<1>24. ASSUME Archive PROVE TypeInv'
    BY <1>24 DEF Archive, ConnType, world, catalog, call
<1>25. CASE UNCHANGED vars
    BY <1>25 DEF vars, world, database, catalog, call
<1> QED
    BY <1>1, <1>2, <1>3, <1>4, <1>5, <1>6, <1>7, <1>8, <1>9, <1>10, <1>11, <1>12, <1>13,
       <1>14, <1>15, <1>16, <1>17, <1>18, <1>19, <1>20, <1>21, <1>22, <1>23, <1>24, <1>25,
       <1>26, <1>27
       DEF Next, Environment, Sync, PersistSnapshot, PersistUnacknowledged

\* Every reachable state of the synchronization is well typed, and every call
\* that reports on a run has one.
THEOREM TypeCorrect == Spec => []TypeOK
<1>1. TypeInv => TypeOK  BY DEF TypeInv
<1> QED  BY TypeInit, TypeStep, <1>1, PTL DEF Spec

-----------------------------------------------------------------------------
(***************************************************************************)
(* Mutual exclusion of syncs.  SyncExclusive is inductive by itself once   *)
(* the state is well typed; it needs that a session keeps its lock.        *)
(***************************************************************************)

\* Steps of one call, and of the environment, keep the syncs exclusive.
LEMMA ExclusiveStep ==
    ASSUME "sessionLost" \notin Faults
    PROVE  TypeInv /\ SyncExclusive /\ [Next]_vars => SyncExclusive'
<1> SUFFICES ASSUME TypeInv, SyncExclusive, [Next]_vars PROVE SyncExclusive'
    OBVIOUS
<1> USE NoSyncerAssumption DEF TypeInv, TypeOK, SyncExclusive, Holding, Steps
<1>1. ASSUME NEW s \in Syncers, TryLock(s) PROVE SyncExclusive'
    BY <1>1 DEF TryLock, GoTo
<1>2. ASSUME NEW s \in Syncers, Release(s) \/ ReleaseFails(s) \/ Crash(s)
      PROVE  SyncExclusive'
    BY <1>2 DEF Release, ReleaseFails, Crash, Return, GoTo
<1>3. ASSUME NEW s \in Syncers, LoadConnection(s) PROVE SyncExclusive'
    BY <1>3 DEF LoadConnection, GoTo, database
<1>4. ASSUME NEW s \in Syncers, TryLockFails(s) PROVE SyncExclusive'
    BY <1>4 DEF TryLockFails, Return, GoTo, database
<1>5. ASSUME NEW s \in Syncers, pc[s] \in Holding, NEW step, GoTo(s, step), UNCHANGED lock
      PROVE  SyncExclusive'
    BY <1>5 DEF GoTo
<1>6. ASSUME NEW s \in Syncers,
             InsertRun(s) \/ MarkSyncing(s) \/ CreateRunFails(s) \/ ListAgents(s) \/ FetchAgents(s)
      PROVE  SyncExclusive'
    BY <1>5, <1>6 DEF InsertRun, MarkSyncing, CreateRunFails, ListAgents, FetchAgents, database
<1>7. ASSUME NEW s \in Syncers,
             CollectFails(s) \/ PersistSnapshot(s) \/ PersistUnacknowledged(s) \/ PersistFails(s)
      PROVE  SyncExclusive'
    BY <1>5, <1>7 DEF CollectFails, PersistSnapshot, PersistUnacknowledged, PersistEffect,
                      PersistFails, database
<1>8. ASSUME NEW s \in Syncers, FailRun(s) \/ FailRunFails(s) \/ AuditSync(s) \/ AuditSyncFails(s)
      PROVE  SyncExclusive'
    BY <1>5, <1>8 DEF FailRun, FailRunFails, AuditSync, AuditSyncFails, database
<1>9. ASSUME UNCHANGED <<lock, pc>> PROVE SyncExclusive'
    BY <1>9
<1>10. ASSUME NEW s \in Syncers, Cancel(s) \/ LoseSession(s) PROVE SyncExclusive'
    BY <1>9, <1>10 DEF Cancel, LoseSession, database
<1>11. ASSUME NEW a \in Agents, \/ RuntimeChanges(a) \/ DeleteOnRuntime(a)
                                \/ MarkAgentDeleted(a) \/ MarkAgentDeletedFails(a)
       PROVE  SyncExclusive'
    BY <1>9, <1>11 DEF RuntimeChanges, DeleteOnRuntime, MarkAgentDeleted, MarkAgentDeletedFails,
                       database, call
<1>12. CASE Archive
    BY <1>9, <1>12 DEF Archive, call
<1>13. CASE UNCHANGED vars
    BY <1>9, <1>13 DEF vars, database, call
<1>14. CASE SessionEnds
    BY <1>14 DEF SessionEnds, call
<1> QED
    BY <1>1, <1>2, <1>3, <1>4, <1>6, <1>7, <1>8, <1>10, <1>11, <1>12, <1>13, <1>14
       DEF Next, Environment, Sync

\* Unless the database closes the session that holds the advisory lock, at
\* most one call of Sync is ever between TryLock and its release; a lock that
\* an unlock left behind lets nobody in but a call on the very same session.
THEOREM ExclusiveCorrect ==
    ASSUME "sessionLost" \notin Faults
    PROVE  Spec => []SyncExclusive
<1>1. Init => SyncExclusive
    BY DEF Init, SyncExclusive, Holding
<1>2. TypeInv /\ SyncExclusive /\ [Next]_vars => SyncExclusive'
    BY ExclusiveStep
<1> QED  BY TypeInit, TypeStep, <1>1, <1>2, PTL DEF Spec

-----------------------------------------------------------------------------
(***************************************************************************)
(* The run table, the imported rows and the audit trail agree.  No lock is *)
(* needed for this, only that a commit the call is told has failed did     *)
(* fail: a call owns its run from InsertRun on, the run of a call that has *)
(* not finished it is still running, and nobody else's audit event or row  *)
(* refers to it.                                                           *)
(***************************************************************************)

\* The steps at which the run of a call is still undecided.
Undecided == {"inserted", "listing", "fetching", "collected", "failing"}

\* Two calls never have the same run, and a call's run is in the table.
RunsOwned ==
    /\ \A s, t \in Syncers :
          pc[s] \in HasRun /\ pc[t] \in HasRun /\ run[s] = run[t] => s = t
    /\ \A s \in Syncers : pc[s] \in HasRun => runs[run[s]] # "none"

\* The run of a call that has yet to decide it is running; afterwards it is
\* what the call goes on to write in the audit trail.
RunsDecided ==
    \A s \in Syncers :
        /\ pc[s] \in Undecided => runs[run[s]] = "running"
        /\ pc[s] = "auditSucceeded" => runs[run[s]] = "succeeded"
        /\ pc[s] = "auditFailed" => runs[run[s]] # "succeeded"

\* An audited run is in the table and no call may decide it any more.
AuditedRunsClosed ==
    \A e \in audit :
        /\ runs[e[1]] # "none"
        /\ \A s \in Syncers : pc[s] \in Undecided => run[s] # e[1]

RunInv ==
    /\ TypeInv /\ RunsOwned /\ RunsDecided /\ AuditedRunsClosed
    /\ FailedRunsLeaveNoTrace /\ AuditAgrees

\* A row a snapshot is persisted over was last seen by that run, or by the one
\* that had last seen it before.
LEMMA PersistedLastSeen ==
    ASSUME NEW sn, NEW asg, NEW r
    PROVE  /\ \A a \in Agents :
                  PersistedAgents(agents, sn, r)[a].lastSeen \in {r, agents[a].lastSeen}
           /\ \A k \in Skills :
                  PersistedSkills(skills, asg, r)[k].lastSeen \in {r, skills[k].lastSeen}
           /\ \A a \in Agents, k \in Skills :
                  PersistedBindings(bindings, asg, r)[a][k].lastSeen \in {r, bindings[a][k].lastSeen}
<1>1. ASSUME NEW a \in Agents
      PROVE  PersistedAgents(agents, sn, r)[a].lastSeen \in {r, agents[a].lastSeen}
    BY DEF PersistedAgents, AdvanceMissingAgent, UpsertSnapshotAgent
<1>2. ASSUME NEW k \in Skills
      PROVE  PersistedSkills(skills, asg, r)[k].lastSeen \in {r, skills[k].lastSeen}
    BY DEF PersistedSkills, AdvanceMissingSkill, UpsertSnapshotSkill
<1>3. ASSUME NEW a \in Agents, NEW k \in Skills
      PROVE  PersistedBindings(bindings, asg, r)[a][k].lastSeen \in {r, bindings[a][k].lastSeen}
    BY DEF PersistedBindings, AdvanceMissingSkill, UpsertSnapshotSkill
<1> QED  BY <1>1, <1>2, <1>3

\* The initial state has no runs, no rows and no audit events.
LEMMA RunInit == Init => RunInv
<1> SUFFICES ASSUME Init PROVE RunInv
    OBVIOUS
<1>1. TypeInv
    BY TypeInit
<1>2. RunsOwned /\ RunsDecided /\ AuditedRunsClosed /\ AuditAgrees
    BY DEF Init, RunsOwned, RunsDecided, AuditedRunsClosed, AuditAgrees, HasRun, Undecided, Holding
<1>3. FailedRunsLeaveNoTrace
    BY RunsAssumption DEF Init, FailedRunsLeaveNoTrace, NoAgent, NoSkill
<1> QED  BY <1>1, <1>2, <1>3 DEF RunInv

\* Every step of a call and of the environment keeps run table, rows and audit
\* trail in agreement.
LEMMA RunStep ==
    ASSUME "ackLost" \notin Faults
    PROVE  RunInv /\ [Next]_vars => RunInv'
<1> SUFFICES ASSUME RunInv, [Next]_vars PROVE RunInv'
    OBVIOUS
<1>t. TypeInv /\ TypeInv'
    BY TypeStep DEF RunInv
<1> DEFINE Facts == /\ RunsOwned /\ RunsDecided /\ AuditedRunsClosed
                    /\ FailedRunsLeaveNoTrace /\ AuditAgrees
<1>f. Facts
    BY DEF RunInv
<1>g. SUFFICES Facts'
    BY <1>t DEF RunInv
<1>y. /\ runs \in [Runs -> {"none", "running", "succeeded", "failed"}]
      /\ run \in [Syncers -> Runs \cup {0}] /\ pc \in [Syncers -> Steps]
      /\ audit \subseteq Runs \X {"succeeded", "failed"}
      /\ \A s \in Syncers : pc[s] \in HasRun => run[s] \in Runs
    BY <1>t DEF TypeInv, TypeOK, RunAssigned
<1> HIDE DEF Facts
<1> USE DEF HasRun, Holding, Steps, Undecided
<1>1. ASSUME UNCHANGED <<runs, catalog, audit, pc, run>> PROVE Facts'
    BY <1>1, <1>f DEF Facts, RunsOwned, RunsDecided, AuditedRunsClosed, FailedRunsLeaveNoTrace,
                      AuditAgrees, catalog
<1>2. ASSUME NEW s \in Syncers, NEW step \in Steps, GoTo(s, step),
             UNCHANGED <<runs, catalog, audit, run>>,
             \/ step \notin HasRun
             \/ pc[s] \in Undecided /\ step \in Undecided
             \/ pc[s] \in Undecided /\ step = "auditFailed"
      PROVE  Facts'
    BY <1>2, <1>f, <1>y DEF Facts, RunsOwned, RunsDecided, AuditedRunsClosed, FailedRunsLeaveNoTrace,
                      AuditAgrees, catalog, GoTo
<1>3. ASSUME NEW s \in Syncers, Return(s), UNCHANGED <<runs, catalog, audit>> PROVE Facts'
    BY <1>3, <1>f, <1>y DEF Facts, RunsOwned, RunsDecided, AuditedRunsClosed, FailedRunsLeaveNoTrace,
                      AuditAgrees, catalog, GoTo, Return
<1>4. ASSUME NEW s \in Syncers, InsertRun(s) PROVE Facts'
    <2>1. PICK r \in Runs : /\ \A q \in Runs : runs[q] = "none" <=> q >= r
                            /\ runs' = [runs EXCEPT ![r] = "running"]
                            /\ run' = [run EXCEPT ![s] = r]
        BY <1>4 DEF InsertRun
    <2>2. runs[r] = "none"
        BY <2>1, RunsAssumption
    <2>3. pc' = [pc EXCEPT ![s] = "inserted"] /\ UNCHANGED <<agents, skills, bindings, audit>>
        BY <1>4 DEF InsertRun, GoTo, catalog
    <2>4. \A q \in Runs : runs[q] # "none" => q # r /\ runs'[q] = runs[q]
        BY <2>1, <2>2, <1>y
    <2>5. RunsOwned' /\ RunsDecided' /\ AuditedRunsClosed'
        BY <2>1, <2>2, <2>3, <2>4, <1>f, <1>y
           DEF Facts, RunsOwned, RunsDecided, AuditedRunsClosed
    <2>6. FailedRunsLeaveNoTrace'
        BY <2>1, <2>2, <2>3, <1>f, <1>y DEF Facts, FailedRunsLeaveNoTrace
    <2>7. AuditAgrees'
        BY <2>1, <2>2, <2>3, <2>4, <1>f, <1>y DEF Facts, AuditAgrees, AuditedRunsClosed
    <2> QED  BY <2>5, <2>6, <2>7 DEF Facts
<1>5. ASSUME NEW s \in Syncers, PersistSnapshot(s) PROVE Facts'
    <2>1. /\ pc[s] = "collected" /\ pc' = [pc EXCEPT ![s] = "auditSucceeded"]
          /\ runs' = [runs EXCEPT ![run[s]] = "succeeded"] /\ run' = run /\ audit' = audit
        BY <1>5 DEF PersistSnapshot, PersistEffect, GoTo
    <2>2. RunsOwned' /\ RunsDecided' /\ AuditedRunsClosed' /\ AuditAgrees'
        BY <2>1, <1>f, <1>y DEF Facts, RunsOwned, RunsDecided, AuditedRunsClosed, AuditAgrees
    <2>3. FailedRunsLeaveNoTrace'
        BY <1>5, <2>1, <1>f, <1>y, PersistedLastSeen
           DEF Facts, FailedRunsLeaveNoTrace, PersistSnapshot, PersistEffect
    <2> QED  BY <2>2, <2>3 DEF Facts
<1>6. ASSUME NEW s \in Syncers, FailRun(s) PROVE Facts'
    BY <1>6, <1>f, <1>y DEF Facts, RunsOwned, RunsDecided, AuditedRunsClosed, FailedRunsLeaveNoTrace,
                      AuditAgrees, catalog, GoTo, FailRun
<1>7. ASSUME NEW s \in Syncers, AuditSync(s) PROVE Facts'
    BY <1>7, <1>f, <1>y DEF Facts, RunsOwned, RunsDecided, AuditedRunsClosed, FailedRunsLeaveNoTrace,
                      AuditAgrees, catalog, GoTo, AuditSync, AuditResult
<1>8. ASSUME NEW a \in Agents, MarkAgentDeleted(a) PROVE Facts'
    <2>1. \A b \in Agents : agents'[b].lastSeen = agents[b].lastSeen
        BY <1>8, <1>t DEF MarkAgentDeleted, Tombstoned, TypeInv, TypeOK, AgentRow
    <2>2. UNCHANGED <<runs, skills, bindings, audit, pc, run>>
        BY <1>8 DEF MarkAgentDeleted, call
    <2> QED
        BY <2>1, <2>2, <1>f DEF Facts, RunsOwned, RunsDecided, AuditedRunsClosed,
                                FailedRunsLeaveNoTrace, AuditAgrees
<1>9. ASSUME NEW s \in Syncers,
             LoadConnection(s) \/ TryLock(s) \/ CreateRunFails(s) \/ AuditSyncFails(s)
      PROVE  Facts'
    BY <1>2, <1>9 DEF LoadConnection, TryLock, CreateRunFails, AuditSyncFails, database
<1>10. ASSUME NEW s \in Syncers,
              MarkSyncing(s) \/ ListAgents(s) \/ FetchAgents(s) \/ CollectFails(s)
       PROVE  Facts'
    BY <1>2, <1>10 DEF MarkSyncing, ListAgents, FetchAgents, CollectFails, database
<1>11. ASSUME NEW s \in Syncers, PersistFails(s) \/ FailRunFails(s) PROVE Facts'
    BY <1>2, <1>11 DEF PersistFails, FailRunFails, database
<1>12. ASSUME NEW s \in Syncers, TryLockFails(s) \/ Release(s) \/ ReleaseFails(s) \/ Crash(s)
       PROVE  Facts'
    BY <1>3, <1>12 DEF TryLockFails, Release, ReleaseFails, Crash, database
<1>13. ASSUME NEW s \in Syncers, Cancel(s) \/ LoseSession(s) PROVE Facts'
    BY <1>1, <1>13 DEF Cancel, LoseSession, database, call
<1>14. ASSUME NEW a \in Agents, RuntimeChanges(a) \/ DeleteOnRuntime(a) \/ MarkAgentDeletedFails(a)
       PROVE  Facts'
    BY <1>1, <1>14 DEF RuntimeChanges, DeleteOnRuntime, MarkAgentDeletedFails, database, call
<1>15. CASE SessionEnds \/ Archive
    BY <1>1, <1>15 DEF SessionEnds, Archive, call
<1>16. CASE UNCHANGED vars
    BY <1>1, <1>16 DEF vars, database, call
<1> QED
    BY <1>4, <1>5, <1>6, <1>7, <1>8, <1>9, <1>10, <1>11, <1>12, <1>13, <1>14, <1>15, <1>16
       DEF Next, Environment, Sync, PersistUnacknowledged

\* A run that is not recorded as successful has left no row behind, for any
\* number of overlapping calls, cancellations, crashes and failed statements,
\* as long as a commit reported as failed has failed.
THEOREM FailuresLeaveNoTrace ==
    ASSUME "ackLost" \notin Faults
    PROVE  Spec => []FailedRunsLeaveNoTrace
<1>1. RunInv /\ [Next]_vars => RunInv'
    BY RunStep
<1>2. RunInv => FailedRunsLeaveNoTrace
    BY DEF RunInv
<1> QED  BY RunInit, <1>1, <1>2, PTL DEF Spec

\* Under the same assumption the audit trail never contradicts the run table.
THEOREM AuditCorrect ==
    ASSUME "ackLost" \notin Faults
    PROVE  Spec => []AuditAgrees
<1>1. RunInv /\ [Next]_vars => RunInv'
    BY RunStep
<1>2. RunInv => AuditAgrees
    BY DEF RunInv
<1> QED  BY RunInit, <1>1, <1>2, PTL DEF Spec

\* A run that has succeeded or failed is never reopened and never decided
\* again: only the call that owns a running run writes its result.
THEOREM FinishedOnce ==
    ASSUME "ackLost" \notin Faults
    PROVE  Spec => RunsFinishOnce
<1> DEFINE Kept == \A r \in Runs : runs[r] \in {"succeeded", "failed"} => runs'[r] = runs[r]
<1>1. RunInv /\ [Next]_vars => RunInv'
    BY RunStep
<1>2. RunInv /\ [Next]_vars => [Kept]_runs
    <2> SUFFICES ASSUME RunInv, [Next]_vars, runs' # runs PROVE Kept
        OBVIOUS
    <2>y. /\ runs \in [Runs -> {"none", "running", "succeeded", "failed"}]
          /\ \A s \in Syncers : pc[s] \in Undecided => run[s] \in Runs /\ runs[run[s]] = "running"
        BY DEF RunInv, TypeInv, TypeOK, RunAssigned, RunsDecided, HasRun, Holding, Steps, Undecided
    <2>1. PICK s \in Syncers : InsertRun(s) \/ PersistEffect(s) \/ FailRun(s)
        BY DEF Next, Environment, Sync, vars, database, LoadConnection, TryLock, TryLockFails,
               MarkSyncing, CreateRunFails, ListAgents, FetchAgents, CollectFails, PersistSnapshot,
               PersistUnacknowledged, PersistFails, FailRunFails, AuditSync, AuditSyncFails, Release,
               ReleaseFails, Cancel, Crash, LoseSession, SessionEnds, RuntimeChanges,
               DeleteOnRuntime, MarkAgentDeleted,
               MarkAgentDeletedFails, Archive
    <2>2. CASE InsertRun(s)
        <3>1. PICK r \in Runs : /\ \A q \in Runs : runs[q] = "none" <=> q >= r
                                /\ runs' = [runs EXCEPT ![r] = "running"]
            BY <2>2 DEF InsertRun
        <3>2. runs[r] = "none"
            BY <3>1, RunsAssumption
        <3> QED  BY <3>1, <3>2, <2>y
    <2>3. CASE PersistEffect(s)
        BY <2>3, <2>y DEF PersistEffect, Undecided
    <2>4. CASE FailRun(s)
        BY <2>4, <2>y DEF FailRun, Undecided
    <2> QED  BY <2>1, <2>2, <2>3, <2>4
<1> QED  BY RunInit, <1>1, <1>2, PTL DEF Spec, RunsFinishOnce
=============================================================================
