------------------------ MODULE RuntimeCatalog_proofs ------------------------
(***************************************************************************)
(* Proofs about the imported rows of RuntimeSync: what one row may become, *)
(* what the counters of the rows count, and that the synchronization       *)
(* implements RuntimeCatalog.                                              *)
(***************************************************************************)
EXTENDS RuntimeSync_proofs, FiniteSetTheorems

-----------------------------------------------------------------------------
(***************************************************************************)
(* What a persisted snapshot makes of one row.                             *)
(***************************************************************************)

\* The row of a known agent, or skill, that one more successful sync has missed.
OlderAgent(row) ==
    [status |-> IF row.missing + 1 >= MissingThreshold THEN "stale" ELSE row.status,
     deleted |-> row.deleted, missing |-> row.missing + 1, lastSeen |-> row.lastSeen]

OlderSkill(row) ==
    [status |-> IF row.missing + 1 >= MissingThreshold THEN "stale" ELSE row.status,
     missing |-> row.missing + 1, lastSeen |-> row.lastSeen]

\* An agent of the snapshot is fresh, another known one is a sync older.
LEMMA AgentAfter ==
    ASSUME NEW rows \in [Agents -> AgentRow], NEW sn \in Snapshots, NEW r \in Runs, NEW a \in Agents
    PROVE  /\ sn[a] # "absent" => PersistedAgents(rows, sn, r)[a] = UpsertSnapshotAgent(sn[a], r)
           /\ sn[a] = "absent" /\ ~Known(rows[a]) => PersistedAgents(rows, sn, r)[a] = rows[a]
           /\ sn[a] = "absent" /\ Known(rows[a]) /\ rows[a].lastSeen # r =>
                  PersistedAgents(rows, sn, r)[a] = OlderAgent(rows[a])
<1>1. CASE sn[a] # "absent"
    <2>1. sn[a] \in {"unknown", "enabled", "disabled"}
        BY <1>1, StatusAssumption DEF Snapshots
    <2> DEFINE up == UpsertSnapshotAgent(sn[a], r)
    <2>2. PersistedAgents(rows, sn, r)[a] = AdvanceMissingAgent(up, r)
        BY <1>1 DEF PersistedAgents
    <2>3. up = [status |-> sn[a], deleted |-> FALSE, missing |-> 0, lastSeen |-> r]
        BY DEF UpsertSnapshotAgent
    <2> HIDE DEF up
    <2>4. Known(up) /\ up.lastSeen = r /\ up.missing = 0 /\ ~(0 + 0 >= MissingThreshold)
        BY <2>1, <2>3, ThresholdAssumption DEF Known
    <2>5. AdvanceMissingAgent(up, r) = [status |-> up.status, deleted |-> up.deleted,
                                        missing |-> 0, lastSeen |-> up.lastSeen]
        BY <2>4 DEF AdvanceMissingAgent
    <2>6. AdvanceMissingAgent(up, r) = up
        BY <2>3, <2>5
    <2> QED  BY <1>1, <2>2, <2>6 DEF up
<1>2. CASE sn[a] = "absent"
    BY <1>2, ThresholdAssumption DEF PersistedAgents, AdvanceMissingAgent, AgentRow, OlderAgent
<1> QED  BY <1>1, <1>2

\* A binding of the snapshot is fresh, another known one is a sync older.
LEMMA BindingAfter ==
    ASSUME NEW rows \in [Agents -> [Skills -> SkillRow]], NEW asg, NEW r \in Runs,
           NEW a \in Agents, NEW k \in Skills
    PROVE  /\ k \in asg[a] => PersistedBindings(rows, asg, r)[a][k] = UpsertSnapshotSkill(r)
           /\ k \notin asg[a] /\ ~Known(rows[a][k]) =>
                  PersistedBindings(rows, asg, r)[a][k] = rows[a][k]
           /\ k \notin asg[a] /\ Known(rows[a][k]) /\ rows[a][k].lastSeen # r =>
                  PersistedBindings(rows, asg, r)[a][k] = OlderSkill(rows[a][k])
BY DEF PersistedBindings, AdvanceMissingSkill, UpsertSnapshotSkill, Known, OlderSkill

\* So is a skill, which is in the snapshot when some agent carries it.
LEMMA SkillAfter ==
    ASSUME NEW rows \in [Skills -> SkillRow], NEW asg, NEW r \in Runs, NEW k \in Skills
    PROVE  /\ (\E a \in Agents : k \in asg[a]) =>
                  PersistedSkills(rows, asg, r)[k] = UpsertSnapshotSkill(r)
           /\ (\A a \in Agents : k \notin asg[a]) /\ ~Known(rows[k]) =>
                  PersistedSkills(rows, asg, r)[k] = rows[k]
           /\ (\A a \in Agents : k \notin asg[a]) /\ Known(rows[k]) /\ rows[k].lastSeen # r =>
                  PersistedSkills(rows, asg, r)[k] = OlderSkill(rows[k])
BY DEF PersistedSkills, AdvanceMissingSkill, UpsertSnapshotSkill, Known, OlderSkill

-----------------------------------------------------------------------------
(***************************************************************************)
(* Single agent rows, under every fault.                                   *)
(***************************************************************************)

\* The age, the status and the tombstone of a row agree.
AgeShown(row) ==
    /\ ~Known(row) => row.missing = 0 /\ ~row.deleted
    /\ row.status = "stale" => row.missing >= MissingThreshold
    /\ Known(row) /\ row.missing >= MissingThreshold => row.status = "stale" \/ row.deleted
    /\ row.deleted => row.status = "disabled" \/ row.missing >= MissingThreshold

\* Only known agents are deleted, and the row of every agent shows its age.
AgentsInv ==
    /\ TypeInv
    /\ \A a \in deleting : Known(agents[a])
    /\ \A a \in Agents : AgeShown(agents[a])

\* An aged row stays known and shows its age.
LEMMA AdvanceAgeShown ==
    ASSUME NEW row \in AgentRow, NEW r, AgeShown(row)
    PROVE  /\ AgeShown(AdvanceMissingAgent(row, r))
           /\ Known(row) => Known(AdvanceMissingAgent(row, r))
BY ThresholdAssumption DEF AgeShown, AdvanceMissingAgent, AgentRow, AgentStatus, Known

\* The rows after a snapshot stay known and show their age.
LEMMA PersistedAgeShown ==
    ASSUME NEW rows \in [Agents -> AgentRow], NEW sn \in Snapshots, NEW r \in Runs,
           \A a \in Agents : AgeShown(rows[a])
    PROVE  \A a \in Agents : /\ AgeShown(PersistedAgents(rows, sn, r)[a])
                             /\ Known(rows[a]) => Known(PersistedAgents(rows, sn, r)[a])
<1> SUFFICES ASSUME NEW a \in Agents
             PROVE  /\ AgeShown(PersistedAgents(rows, sn, r)[a])
                    /\ Known(rows[a]) => Known(PersistedAgents(rows, sn, r)[a])
    OBVIOUS
<1>1. CASE sn[a] # "absent"
    <2>1. sn[a] \in {"unknown", "enabled", "disabled"}
        BY <1>1, StatusAssumption DEF Snapshots
    <2>2. PersistedAgents(rows, sn, r)[a] = [status |-> sn[a], deleted |-> FALSE,
                                             missing |-> 0, lastSeen |-> r]
        BY <1>1, AgentAfter DEF UpsertSnapshotAgent
    <2> QED  BY <2>1, <2>2, ThresholdAssumption DEF AgeShown, Known
<1>2. CASE sn[a] = "absent"
    <2>1. PersistedAgents(rows, sn, r)[a] = AdvanceMissingAgent(rows[a], r)
        BY <1>2 DEF PersistedAgents
    <2> QED  BY <2>1, AdvanceAgeShown
<1> QED  BY <1>1, <1>2

\* The agents table changes only with a snapshot that commits and a tombstone.
LEMMA AgentsChange ==
    ASSUME [Next]_vars
    PROVE  \/ \E s \in Syncers : PersistEffect(s)
           \/ \E a \in Agents : MarkAgentDeleted(a)
           \/ /\ agents' = agents
              /\ \A a \in deleting' : a \in deleting \/ Known(agents[a])
BY DEF Next, Environment, Sync, vars, world, database, catalog, call, LoadConnection, TryLock,
       TryLockFails, InsertRun, MarkSyncing, CreateRunFails, ListAgents, FetchAgents, CollectFails,
       PersistSnapshot, PersistUnacknowledged, PersistFails, FailRun, FailRunFails, AuditSync,
       AuditSyncFails, Release, ReleaseFails, Cancel, Crash, LoseSession, SessionEnds, RuntimeChanges,
       DeleteOnRuntime, MarkAgentDeletedFails, Archive

\* Initially there is no row.
LEMMA AgentsInit == Init => AgentsInv
BY TypeInit, ThresholdAssumption DEF Init, AgentsInv, AgeShown, Known, NoAgent

\* Every step keeps the rows known and their ages shown.
LEMMA AgentsStep ==
    AgentsInv /\ [Next]_vars => AgentsInv' /\ \A a \in Agents : Known(agents[a]) => Known(agents'[a])
<1> SUFFICES ASSUME AgentsInv, [Next]_vars
             PROVE  AgentsInv' /\ \A a \in Agents : Known(agents[a]) => Known(agents'[a])
    OBVIOUS
<1>t. TypeInv /\ TypeInv'
    BY TypeStep DEF AgentsInv
<1>y. agents \in [Agents -> AgentRow] /\ deleting \in SUBSET Agents
    BY <1>t DEF TypeInv, TypeOK
<1>1. ASSUME NEW s \in Syncers, PersistEffect(s)
      PROVE  AgentsInv' /\ \A a \in Agents : Known(agents[a]) => Known(agents'[a])
    <2>1. /\ run[s] \in Runs /\ snap[s].agents \in Snapshots
          /\ agents' = PersistedAgents(agents, snap[s].agents, run[s]) /\ deleting' = deleting
        BY <1>1, <1>t DEF PersistEffect, TypeInv, TypeOK, RunAssigned, HasRun, Holding, Steps,
                          SnapshotType
    <2>2. \A a \in Agents : AgeShown(agents'[a]) /\ (Known(agents[a]) => Known(agents'[a]))
        BY <2>1, <1>y, PersistedAgeShown DEF AgentsInv
    <2> QED  BY <2>1, <2>2, <1>t, <1>y DEF AgentsInv
<1>2. ASSUME NEW a \in Agents, MarkAgentDeleted(a)
      PROVE  AgentsInv' /\ \A b \in Agents : Known(agents[b]) => Known(agents'[b])
    <2>1. /\ Known(agents[a]) /\ AgeShown(agents[a]) /\ agents[a] \in AgentRow
          /\ agents' = [agents EXCEPT ![a] = Tombstoned(@)] /\ deleting' = deleting \ {a}
        BY <1>2, <1>y DEF MarkAgentDeleted, AgentsInv
    <2>2. Known(Tombstoned(agents[a])) /\ AgeShown(Tombstoned(agents[a]))
        BY <2>1 DEF Tombstoned, AgeShown, Known, AgentRow
    <2> QED  BY <2>1, <2>2, <1>t, <1>y DEF AgentsInv
<1>3. ASSUME agents' = agents, \A a \in deleting' : a \in deleting \/ Known(agents[a])
      PROVE  AgentsInv' /\ \A a \in Agents : Known(agents[a]) => Known(agents'[a])
    BY <1>3, <1>t DEF AgentsInv
<1> QED  BY <1>1, <1>2, <1>3, AgentsChange

\* An imported agent is never forgotten, under every fault: snapshots are merged
\* into the table and a deletion leaves a tombstone.
THEOREM KnownForeverCorrect == Spec => KnownForever
<1>1. AgentsInv /\ [Next]_vars => [\A a \in Agents : Known(agents[a]) => Known(agents'[a])]_agents
    BY AgentsStep
<1>2. AgentsInv /\ [Next]_vars => AgentsInv'
    BY AgentsStep
<1> QED  BY AgentsInit, <1>1, <1>2, PTL DEF Spec, KnownForever

\* Under every fault the tombstone of a deleted agent yields only to a snapshot
\* that lists the agent, and ages like any other row.
THEOREM TombstoneYieldsCorrect == Spec => TombstoneYields
<1> DEFINE Kept ==
        \A a \in Agents : agents[a].deleted =>
            \/ \E s \in Syncers : pc[s] = "collected" /\ snap[s].agents[a] # "absent"
            \/ /\ agents'[a].deleted
               /\ agents'[a].status = "disabled" \/ agents'[a].missing >= MissingThreshold
<1>1. AgentsInv /\ [Next]_vars => [Kept]_agents
    <2> SUFFICES ASSUME AgentsInv, [Next]_vars, NEW a \in Agents, agents[a].deleted,
                        \A s \in Syncers : pc[s] = "collected" => snap[s].agents[a] = "absent"
                 PROVE  /\ agents'[a].deleted
                        /\ agents'[a].status = "disabled" \/ agents'[a].missing >= MissingThreshold
        OBVIOUS
    <2>x. AgeShown(agents'[a])
        BY AgentsStep DEF AgentsInv
    <2>y. agents \in [Agents -> AgentRow] /\ Known(agents[a])
        BY DEF AgentsInv, AgeShown, TypeInv, TypeOK
    <2>1. ASSUME NEW s \in Syncers, PersistEffect(s) PROVE agents'[a].deleted
        <3>1. agents'[a] = AdvanceMissingAgent(agents[a], run[s])
            BY <2>1 DEF PersistEffect, PersistedAgents
        <3> QED  BY <3>1, <2>y DEF AdvanceMissingAgent
    <2>2. ASSUME NEW b \in Agents, MarkAgentDeleted(b) PROVE agents'[a].deleted
        BY <2>2, <2>y DEF MarkAgentDeleted, Tombstoned, AgentRow
    <2> QED  BY <2>1, <2>2, <2>x, AgentsChange DEF AgeShown
<1>2. AgentsInv /\ [Next]_vars => AgentsInv'
    BY AgentsStep
<1> QED  BY AgentsInit, <1>1, <1>2, PTL DEF Spec, TombstoneYields

-----------------------------------------------------------------------------
(***************************************************************************)
(* The order of the runs.  From here on a session keeps its lock and a     *)
(* commit reported as failed has failed: then runs are decided in the      *)
(* order in which they were inserted, and a call at work has the newest.   *)
(***************************************************************************)

\* No run is inserted after that of a call that has not begun to release.
NewestRun == \A s \in Syncers : pc[s] \in HasRun => \A r \in Runs : r > run[s] => runs[r] = "none"

Begun == {r \in Runs : runs[r] # "none"}

OrderInv ==
    /\ RunInv /\ SyncExclusive /\ AgentsInv /\ NewestRun
    /\ IsFiniteSet(Begun)
    /\ \A a \in Agents : agents[a].lastSeen \in Runs \cup {0}

\* Every step keeps the run of a call at work the newest.
LEMMA NewestStep ==
    TypeInv /\ SyncExclusive /\ NewestRun /\ [Next]_vars => NewestRun'
<1> SUFFICES ASSUME TypeInv, SyncExclusive, NewestRun, [Next]_vars PROVE NewestRun'
    OBVIOUS
<1> USE DEF HasRun, Holding, Steps
<1>y. /\ runs \in [Runs -> {"none", "running", "succeeded", "failed"}]
      /\ run \in [Syncers -> Runs \cup {0}] /\ pc \in [Syncers -> Steps]
      /\ \A s \in Syncers : pc[s] \in HasRun => run[s] \in Runs
    BY DEF TypeInv, TypeOK, RunAssigned
<1>e. \A s, t \in Syncers : pc[s] \in Holding /\ pc[t] \in Holding => s = t
    BY DEF SyncExclusive
<1>1. ASSUME UNCHANGED <<runs, pc, run>> PROVE NewestRun'
    BY <1>1 DEF NewestRun
<1>2. ASSUME NEW s \in Syncers, NEW step \in Steps, GoTo(s, step), UNCHANGED <<runs, run>>,
             pc[s] \in HasRun \/ step \notin HasRun
      PROVE  NewestRun'
    BY <1>2, <1>y DEF NewestRun, GoTo
<1>3. ASSUME NEW s \in Syncers, Return(s), UNCHANGED runs PROVE NewestRun'
    BY <1>3, <1>y DEF NewestRun, GoTo, Return
<1>4. ASSUME NEW s \in Syncers, InsertRun(s) PROVE NewestRun'
    <2>1. PICK r \in Runs : /\ \A q \in Runs : runs[q] = "none" <=> q >= r
                            /\ runs' = [runs EXCEPT ![r] = "running"]
                            /\ run' = [run EXCEPT ![s] = r]
        BY <1>4 DEF InsertRun
    <2>2. pc[s] \in Holding /\ pc' = [pc EXCEPT ![s] = "inserted"]
        BY <1>4 DEF InsertRun, GoTo
    <2>3. \A q \in Runs : q > r => runs'[q] = "none"
        BY <2>1, <1>y, RunsAssumption
    <2>4. \A t \in Syncers : t # s => pc'[t] \notin HasRun
        BY <2>2, <1>e, <1>y
    <2> QED  BY <2>1, <2>2, <2>3, <2>4, <1>y DEF NewestRun
<1>5. ASSUME NEW s \in Syncers, NEW step \in Steps, GoTo(s, step), run' = run, pc[s] \in HasRun,
             NEW x, runs' = [runs EXCEPT ![run[s]] = x]
      PROVE  NewestRun'
    <2>1. \A r \in Runs : r > run[s] => runs'[r] = runs[r]
        BY <1>5, <1>y, RunsAssumption
    <2>2. \A t \in Syncers : pc'[t] \in HasRun => t = s
        BY <1>5, <1>e, <1>y DEF GoTo
    <2> QED  BY <1>5, <2>1, <2>2 DEF NewestRun
<1>6. ASSUME NEW s \in Syncers, LoadConnection(s) \/ TryLock(s) \/ CreateRunFails(s) \/ AuditSyncFails(s)
                                \/ AuditSync(s)
      PROVE  NewestRun'
    BY <1>2, <1>6 DEF LoadConnection, TryLock, CreateRunFails, AuditSyncFails, AuditSync, database
<1>7. ASSUME NEW s \in Syncers,
             MarkSyncing(s) \/ ListAgents(s) \/ FetchAgents(s) \/ CollectFails(s)
      PROVE  NewestRun'
    BY <1>2, <1>7 DEF MarkSyncing, ListAgents, FetchAgents, CollectFails, database
<1>8. ASSUME NEW s \in Syncers, PersistFails(s) \/ FailRunFails(s) PROVE NewestRun'
    BY <1>2, <1>8 DEF PersistFails, FailRunFails, database
<1>9. ASSUME NEW s \in Syncers, PersistSnapshot(s) \/ PersistUnacknowledged(s) PROVE NewestRun'
    BY <1>5, <1>9 DEF PersistSnapshot, PersistUnacknowledged, PersistEffect
<1>10. ASSUME NEW s \in Syncers, FailRun(s) PROVE NewestRun'
    BY <1>5, <1>10 DEF FailRun
<1>11. ASSUME NEW s \in Syncers, TryLockFails(s) \/ Release(s) \/ ReleaseFails(s) \/ Crash(s)
      PROVE  NewestRun'
    BY <1>3, <1>11 DEF TryLockFails, Release, ReleaseFails, Crash, database
<1>12. ASSUME NEW s \in Syncers, Cancel(s) \/ LoseSession(s) PROVE NewestRun'
    BY <1>1, <1>12 DEF Cancel, LoseSession, database, call
<1>13. ASSUME NEW a \in Agents, \/ RuntimeChanges(a) \/ DeleteOnRuntime(a)
                                \/ MarkAgentDeleted(a) \/ MarkAgentDeletedFails(a)
       PROVE  NewestRun'
    BY <1>1, <1>13 DEF RuntimeChanges, DeleteOnRuntime, MarkAgentDeleted, MarkAgentDeletedFails,
                       database, call
<1>14. CASE SessionEnds \/ Archive
    BY <1>1, <1>14 DEF SessionEnds, Archive, call
<1>15. CASE UNCHANGED vars
    BY <1>1, <1>15 DEF vars, database, call
<1> QED
    BY <1>4, <1>6, <1>7, <1>8, <1>9, <1>10, <1>11, <1>12, <1>13, <1>14, <1>15
       DEF Next, Environment, Sync

\* Run table, connection row and catalogue change only in these steps.
LEMMA TablesChange ==
    ASSUME [Next]_vars
    PROVE  \/ \E s \in Syncers : InsertRun(s) \/ MarkSyncing(s) \/ PersistEffect(s) \/ FailRun(s)
           \/ \E a \in Agents : MarkAgentDeleted(a)
           \/ Archive
           \/ UNCHANGED <<runs, conn, catalog>>
BY DEF Next, Environment, Sync, vars, world, database, catalog, call, LoadConnection, TryLock,
       TryLockFails, CreateRunFails, ListAgents, FetchAgents, CollectFails, PersistSnapshot,
       PersistUnacknowledged, PersistFails, FailRunFails, AuditSync, AuditSyncFails, Release,
       ReleaseFails, Cancel, Crash, LoseSession, SessionEnds, RuntimeChanges, DeleteOnRuntime, MarkAgentDeletedFails

\* A call that inserts its run takes one that is in no row yet.
LEMMA InsertFacts ==
    ASSUME TypeInv, NEW s \in Syncers, InsertRun(s)
    PROVE  \E r \in Runs : /\ runs[r] = "none" /\ runs' = [runs EXCEPT ![r] = "running"]
                           /\ \A q \in Runs : q > r => runs[q] = "none"
                           /\ UNCHANGED <<conn, agents, skills, bindings>>
<1>1. PICK r \in Runs : /\ \A q \in Runs : runs[q] = "none" <=> q >= r
                        /\ runs' = [runs EXCEPT ![r] = "running"]
    BY DEF InsertRun
<1>2. runs[r] = "none" /\ \A q \in Runs : q > r => runs[q] = "none"
    BY <1>1, RunsAssumption
<1> QED  BY <1>1, <1>2 DEF InsertRun, catalog

\* The run of a call that writes to the catalogue or to the run is running, is
\* the newest, and is in no row.
LEMMA WriterFacts ==
    ASSUME OrderInv, NEW s \in Syncers, pc[s] \in Undecided
    PROVE  /\ run[s] \in Runs /\ runs[run[s]] = "running"
           /\ \A q \in Runs : q > run[s] => runs[q] = "none"
           /\ \A a \in Agents : agents[a].lastSeen \in Nat /\ agents[a].lastSeen < run[s]
           /\ \A k \in Skills : skills[k].lastSeen # run[s]
           /\ \A a \in Agents, k \in Skills : bindings[a][k].lastSeen # run[s]
<1>1. run[s] \in Runs /\ runs[run[s]] = "running"
    BY DEF OrderInv, RunInv, TypeInv, RunAssigned, RunsDecided, Undecided, HasRun, Holding, Steps
<1>2. \A q \in Runs : q > run[s] => runs[q] = "none"
    BY DEF OrderInv, NewestRun, Undecided, HasRun, Holding, Steps
<1>3. /\ \A k \in Skills : skills[k].lastSeen # run[s]
      /\ \A a \in Agents, k \in Skills : bindings[a][k].lastSeen # run[s]
    BY <1>1 DEF OrderInv, RunInv, FailedRunsLeaveNoTrace
<1>4. ASSUME NEW a \in Agents PROVE agents[a].lastSeen \in Nat /\ agents[a].lastSeen < run[s]
    <2>1. agents[a].lastSeen \in Runs \cup {0} /\ agents[a].lastSeen # run[s]
        BY <1>1 DEF OrderInv, RunInv, FailedRunsLeaveNoTrace
    <2>2. agents[a].lastSeen \in Runs => runs[agents[a].lastSeen] # "none"
        BY DEF OrderInv, RunInv, FailedRunsLeaveNoTrace
    <2>r. \A r \in Runs : r \in Nat /\ r # 0
        BY RunsAssumption
    <2>3. run[s] \in Nat /\ run[s] # 0 /\ agents[a].lastSeen \in Nat
        BY <2>1, <2>r, <1>1
    <2>4. ~(agents[a].lastSeen > run[s])
        BY <2>1, <2>2, <2>3, <1>2
    <2> QED  BY <2>1, <2>3, <2>4
<1> QED  BY <1>1, <1>2, <1>3, <1>4

\* Initially there is no run.
LEMMA OrderInit == Init => OrderInv
<1> SUFFICES ASSUME Init PROVE OrderInv
    OBVIOUS
<1>1. RunInv /\ AgentsInv
    BY RunInit, AgentsInit
<1>2. SyncExclusive /\ NewestRun
    BY DEF Init, SyncExclusive, NewestRun, HasRun, Holding
<1>3. Begun = {}
    BY DEF Init, Begun
<1>4. \A a \in Agents : agents[a].lastSeen = 0
    BY DEF Init, NoAgent
<1> QED  BY <1>1, <1>2, <1>3, <1>4, FS_EmptySet DEF OrderInv

\* Every step keeps the runs in order and finite in number.
LEMMA OrderStep ==
    ASSUME "ackLost" \notin Faults, "sessionLost" \notin Faults
    PROVE  OrderInv /\ [Next]_vars => OrderInv'
<1> SUFFICES ASSUME OrderInv, [Next]_vars PROVE OrderInv'
    OBVIOUS
<1>1. RunInv' /\ SyncExclusive' /\ AgentsInv' /\ NewestRun'
    BY RunStep, ExclusiveStep, AgentsStep, NewestStep DEF OrderInv, RunInv
<1>t. TypeInv
    BY DEF OrderInv, RunInv
<1>y. /\ runs \in [Runs -> {"none", "running", "succeeded", "failed"}]
      /\ agents \in [Agents -> AgentRow]
    BY <1>t DEF TypeInv, TypeOK
<1>2. IsFiniteSet(Begun')
    <2>1. ASSUME NEW s \in Syncers, InsertRun(s) PROVE IsFiniteSet(Begun')
        <3>1. PICK r \in Runs : runs[r] = "none" /\ runs' = [runs EXCEPT ![r] = "running"]
            BY <2>1, <1>t, InsertFacts
        <3>2. Begun' = Begun \cup {r}
            BY <3>1, <1>y DEF Begun
        <3> QED  BY <3>2, FS_AddElement DEF OrderInv
    <2>2. ASSUME NEW s \in Syncers, PersistEffect(s) \/ FailRun(s) PROVE Begun' = Begun
        <3>1. run[s] \in Runs /\ runs[run[s]] = "running"
            BY <2>2, WriterFacts DEF PersistEffect, FailRun, Undecided
        <3> QED  BY <2>2, <3>1, <1>y DEF PersistEffect, FailRun, Begun
    <2>3. ASSUME runs' = runs PROVE Begun' = Begun
        BY <2>3 DEF Begun
    <2>4. ASSUME NEW s \in Syncers, MarkSyncing(s) PROVE runs' = runs
        BY <2>4 DEF MarkSyncing
    <2>5. ASSUME NEW a \in Agents, MarkAgentDeleted(a) PROVE runs' = runs
        BY <2>5 DEF MarkAgentDeleted
    <2>6. ASSUME Archive PROVE runs' = runs
        BY <2>6 DEF Archive
    <2> QED  BY <2>1, <2>2, <2>3, <2>4, <2>5, <2>6, TablesChange DEF OrderInv
<1>3. ASSUME NEW a \in Agents PROVE agents'[a].lastSeen \in Runs \cup {0}
    <2>0. agents[a].lastSeen \in Runs \cup {0} /\ agents[a] \in AgentRow
        BY <1>y DEF OrderInv
    <2>1. ASSUME NEW s \in Syncers, PersistEffect(s) PROVE agents'[a].lastSeen \in Runs \cup {0}
        <3>1. run[s] \in Runs /\ agents' = PersistedAgents(agents, snap[s].agents, run[s])
            BY <2>1, WriterFacts DEF PersistEffect, Undecided
        <3>2. agents'[a].lastSeen \in {run[s], agents[a].lastSeen}
            BY <3>1, PersistedLastSeen
        <3> QED  BY <2>0, <3>1, <3>2
    <2>2. ASSUME NEW b \in Agents, MarkAgentDeleted(b) PROVE agents'[a].lastSeen \in Runs \cup {0}
        BY <2>0, <2>2, <1>y DEF MarkAgentDeleted, Tombstoned, AgentRow
    <2> QED  BY <2>0, <2>1, <2>2, AgentsChange
<1> QED  BY <1>1, <1>2, <1>3 DEF OrderInv

\* An older snapshot never overwrites a newer one, for any number of overlapping
\* syncs, cancellations, crashes and failed statements.
THEOREM CatalogMovesForwardCorrect ==
    ASSUME "ackLost" \notin Faults, "sessionLost" \notin Faults
    PROVE  Spec => CatalogMovesForward
<1> DEFINE Forward == \A a \in Agents : agents'[a].lastSeen >= agents[a].lastSeen
<1>1. OrderInv /\ [Next]_vars => [Forward]_agents
    <2> SUFFICES ASSUME OrderInv, [Next]_vars, agents' # agents, NEW a \in Agents
                 PROVE  agents'[a].lastSeen >= agents[a].lastSeen
        OBVIOUS
    <2>y. agents \in [Agents -> AgentRow] /\ agents[a].lastSeen \in Nat
        BY DEF OrderInv, RunInv, TypeInv, TypeOK, AgentRow
    <2>1. ASSUME NEW s \in Syncers, PersistEffect(s) PROVE agents'[a].lastSeen >= agents[a].lastSeen
        <3>1. run[s] \in Runs /\ agents[a].lastSeen < run[s]
            BY <2>1, WriterFacts DEF PersistEffect, Undecided
        <3>2. agents'[a].lastSeen \in {run[s], agents[a].lastSeen}
            BY <2>1, PersistedLastSeen DEF PersistEffect
        <3>3. run[s] \in Nat
            BY <3>1, RunsAssumption
        <3> QED  BY <2>y, <3>1, <3>2, <3>3
    <2>2. ASSUME NEW b \in Agents, MarkAgentDeleted(b) PROVE agents'[a].lastSeen >= agents[a].lastSeen
        BY <2>y, <2>2 DEF MarkAgentDeleted, Tombstoned, AgentRow
    <2> QED  BY <2>1, <2>2, AgentsChange
<1>2. OrderInv /\ [Next]_vars => OrderInv'
    BY OrderStep
<1> QED  BY OrderInit, <1>1, <1>2, PTL DEF Spec, CatalogMovesForward

-----------------------------------------------------------------------------
(***************************************************************************)
(* The counters.  A successful run is one more for every row it misses,    *)
(* and nothing else changes which runs are successful.                     *)
(***************************************************************************)

\* The set of successful runs after a given one is finite.
LEMMA SuccessesFinite ==
    ASSUME OrderInv, NEW l \in Nat
    PROVE  LET S == {q \in Runs : q > l /\ runs[q] = "succeeded"}
           IN  IsFiniteSet(S) /\ Cardinality(S) \in Nat
<1> DEFINE S == {q \in Runs : q > l /\ runs[q] = "succeeded"}
<1>1. S \in SUBSET Begun
    BY DEF Begun
<1>2. IsFiniteSet(Begun)
    BY DEF OrderInv
<1>3. IsFiniteSet(S)
    BY <1>1, <1>2, FS_Subset
<1> QED  BY <1>3, FS_CardinalityType

\* A snapshot that commits is one more success after every earlier run.
LEMMA SuccessesGrow ==
    ASSUME OrderInv, NEW s \in Syncers, PersistEffect(s), NEW l \in Nat, l < run[s]
    PROVE  Cardinality({q \in Runs : q > l /\ runs'[q] = "succeeded"})
               = Cardinality({q \in Runs : q > l /\ runs[q] = "succeeded"}) + 1
<1> DEFINE S == {q \in Runs : q > l /\ runs[q] = "succeeded"}
           T == {q \in Runs : q > l /\ runs'[q] = "succeeded"}
<1>1. run[s] \in Runs /\ runs[run[s]] = "running"
    BY WriterFacts DEF PersistEffect, Undecided
<1>2. runs' = [runs EXCEPT ![run[s]] = "succeeded"]
    BY DEF PersistEffect
<1>3. DOMAIN runs = Runs
    BY DEF OrderInv, RunInv, TypeInv, TypeOK
<1>4. T = S \cup {run[s]} /\ run[s] \notin S
    <2>1. run[s] > l
        BY <1>1, RunsAssumption
    <2> QED  BY <2>1, <1>1, <1>2, <1>3
<1>5. IsFiniteSet(S)
    BY SuccessesFinite
<1> HIDE DEF S, T
<1>6. Cardinality(T) = Cardinality(S) + 1
    BY <1>4, <1>5, FS_AddElement
<1> QED  BY <1>6 DEF S, T

\* No other step makes a run successful.
LEMMA SuccessesKept ==
    ASSUME OrderInv, [Next]_vars, \A s \in Syncers : ~PersistEffect(s)
    PROVE  \A q \in Runs : runs'[q] = "succeeded" <=> runs[q] = "succeeded"
<1>y. runs \in [Runs -> {"none", "running", "succeeded", "failed"}] /\ TypeInv
    BY DEF OrderInv, RunInv, TypeInv, TypeOK
<1>1. ASSUME NEW s \in Syncers, InsertRun(s)
      PROVE  \A q \in Runs : runs'[q] = "succeeded" <=> runs[q] = "succeeded"
    BY <1>1, <1>y, InsertFacts
<1>2. ASSUME NEW s \in Syncers, FailRun(s)
      PROVE  \A q \in Runs : runs'[q] = "succeeded" <=> runs[q] = "succeeded"
    <2>1. run[s] \in Runs /\ runs[run[s]] = "running"
        BY <1>2, WriterFacts DEF FailRun, Undecided
    <2> QED  BY <2>1, <1>2, <1>y DEF FailRun
<1>3. ASSUME NEW s \in Syncers, MarkSyncing(s) PROVE runs' = runs
    BY <1>3 DEF MarkSyncing
<1>4. ASSUME NEW a \in Agents, MarkAgentDeleted(a) PROVE runs' = runs
    BY <1>4 DEF MarkAgentDeleted
<1>5. ASSUME Archive PROVE runs' = runs
    BY <1>5 DEF Archive
<1> QED  BY <1>1, <1>2, <1>3, <1>4, <1>5, TablesChange

\* The counters stay exact.
LEMMA CountStep ==
    OrderInv /\ MissingCountsSuccesses /\ [Next]_vars => MissingCountsSuccesses'
<1> SUFFICES ASSUME OrderInv, MissingCountsSuccesses, [Next]_vars, NEW a \in Agents, Known(agents'[a])
             PROVE  agents'[a].missing
                        = Cardinality({q \in Runs : q > agents'[a].lastSeen /\ runs'[q] = "succeeded"})
    BY DEF MissingCountsSuccesses, MissedRuns
<1>y. /\ agents \in [Agents -> AgentRow] /\ runs \in [Runs -> {"none", "running", "succeeded", "failed"}]
      /\ TypeInv
    BY DEF OrderInv, RunInv, TypeInv, TypeOK
<1>l. agents[a].lastSeen \in Nat
    BY <1>y DEF AgentRow
<1>n. \A q \in Runs : q \in Nat
    BY RunsAssumption
<1> DEFINE Missed == Cardinality({q \in Runs : q > agents[a].lastSeen /\ runs[q] = "succeeded"})
<1>c. Known(agents[a]) => agents[a].missing = Missed
    BY DEF MissingCountsSuccesses, MissedRuns
<1>1. ASSUME NEW s \in Syncers, PersistEffect(s)
      PROVE  agents'[a].missing
                 = Cardinality({q \in Runs : q > agents'[a].lastSeen /\ runs'[q] = "succeeded"})
    <2> DEFINE sn == snap[s].agents
               r == run[s]
    <2>1. /\ agents' = PersistedAgents(agents, sn, r) /\ runs' = [runs EXCEPT ![r] = "succeeded"]
          /\ sn \in Snapshots
        BY <1>1, <1>y DEF PersistEffect, TypeInv, TypeOK, SnapshotType
    <2>2. /\ r \in Runs /\ \A q \in Runs : q > r => runs[q] = "none"
          /\ agents[a].lastSeen < r
        BY <1>1, WriterFacts DEF PersistEffect, Undecided
    <2>r. /\ agents[a].lastSeen # r
          /\ \A q \in Runs : q > r => q # r
        BY <2>2, <1>l, <1>n
    <2>3. CASE sn[a] # "absent"
        <3>1. agents'[a] = UpsertSnapshotAgent(sn[a], r)
            BY <2>1, <2>2, <2>3, <1>y, AgentAfter
        <3>2. agents'[a].missing = 0 /\ agents'[a].lastSeen = r
            BY <3>1 DEF UpsertSnapshotAgent
        <3>3. {q \in Runs : q > r /\ runs'[q] = "succeeded"} = {}
            BY <2>1, <2>2, <2>r, <1>y
        <3> QED  BY <3>2, <3>3, FS_EmptySet
    <2>4. CASE sn[a] = "absent"
        <3>1. Known(agents[a])
            BY <2>1, <2>2, <2>4, <1>y, AgentAfter
        <3>2. agents'[a] = OlderAgent(agents[a])
            BY <2>1, <2>2, <2>r, <2>4, <3>1, <1>y, AgentAfter
        <3>3. agents'[a].missing = agents[a].missing + 1 /\ agents'[a].lastSeen = agents[a].lastSeen
            BY <3>2 DEF OlderAgent
        <3>4. Cardinality({q \in Runs : q > agents[a].lastSeen /\ runs'[q] = "succeeded"}) = Missed + 1
            BY <1>1, <1>l, <2>2, SuccessesGrow
        <3> QED  BY <3>1, <3>3, <3>4, <1>c
    <2> QED  BY <2>3, <2>4
<1>2. ASSUME \A s \in Syncers : ~PersistEffect(s),
             agents'[a].missing = agents[a].missing, agents'[a].lastSeen = agents[a].lastSeen,
             Known(agents[a])
      PROVE  agents'[a].missing
                 = Cardinality({q \in Runs : q > agents'[a].lastSeen /\ runs'[q] = "succeeded"})
    <2>1. {q \in Runs : q > agents[a].lastSeen /\ runs'[q] = "succeeded"}
             = {q \in Runs : q > agents[a].lastSeen /\ runs[q] = "succeeded"}
        BY <1>2, SuccessesKept
    <2> QED  BY <1>2, <1>c, <2>1
<1>3. ASSUME \A s \in Syncers : ~PersistEffect(s), NEW b \in Agents, MarkAgentDeleted(b)
      PROVE  agents'[a].missing
                 = Cardinality({q \in Runs : q > agents'[a].lastSeen /\ runs'[q] = "succeeded"})
    <2>1. Known(agents[b])
        BY <1>3 DEF MarkAgentDeleted, OrderInv, AgentsInv
    <2>2. /\ agents'[a].missing = agents[a].missing /\ agents'[a].lastSeen = agents[a].lastSeen
          /\ Known(agents[a])
        BY <1>3, <2>1, <1>y DEF MarkAgentDeleted, Tombstoned, AgentRow, Known
    <2> QED  BY <1>2, <1>3, <2>2
<1> QED  BY <1>1, <1>2, <1>3, AgentsChange

\* The missing counter of an imported agent is exactly the number of successful
\* runs since it was last seen, for any number of runs and calls, whatever fails.
THEOREM MissingCounted ==
    ASSUME "ackLost" \notin Faults, "sessionLost" \notin Faults
    PROVE  Spec => []MissingCountsSuccesses
<1>1. Init => MissingCountsSuccesses
    BY DEF Init, MissingCountsSuccesses, NoAgent, Known
<1>2. OrderInv /\ [Next]_vars => OrderInv'
    BY OrderStep
<1> QED  BY OrderInit, <1>1, <1>2, CountStep, PTL DEF Spec

\* An agent is stale only after MissingThreshold successful runs without it, and
\* then always, unless a control action deleted it.
THEOREM StaleIffMissedCorrect ==
    ASSUME "ackLost" \notin Faults, "sessionLost" \notin Faults
    PROVE  Spec => []StaleIffMissed
<1>1. Init => MissingCountsSuccesses
    BY DEF Init, MissingCountsSuccesses, NoAgent, Known
<1>2. OrderInv /\ [Next]_vars => OrderInv'
    BY OrderStep
<1>3. OrderInv /\ MissingCountsSuccesses => StaleIffMissed
    BY DEF OrderInv, AgentsInv, AgeShown, MissingCountsSuccesses, StaleIffMissed, Known
<1> QED  BY OrderInit, <1>1, <1>2, <1>3, CountStep, PTL DEF Spec

-----------------------------------------------------------------------------
(***************************************************************************)
(* The sync state of the connection row.                                   *)
(***************************************************************************)

\* Every step keeps the connection row in agreement with the latest run.
LEMMA ConnStep ==
    OrderInv /\ ConnectionShowsLatestRun /\ [Next]_vars => ConnectionShowsLatestRun'
<1> SUFFICES ASSUME OrderInv, ConnectionShowsLatestRun, [Next]_vars PROVE ConnectionShowsLatestRun'
    OBVIOUS
<1>y. /\ runs \in [Runs -> {"none", "running", "succeeded", "failed"}]
      /\ conn \in ConnType /\ TypeInv
    BY DEF OrderInv, RunInv, TypeInv, TypeOK
<1>n. \A q \in Runs : q \in Nat
    BY RunsAssumption
<1>1. ASSUME NEW s \in Syncers, InsertRun(s) PROVE ConnectionShowsLatestRun'
    <2>1. PICK r \in Runs : /\ runs[r] = "none" /\ runs' = [runs EXCEPT ![r] = "running"]
                            /\ \A q \in Runs : q > r => runs[q] = "none"
                            /\ conn' = conn
        BY <1>1, <1>y, InsertFacts
    <2>2. \A q \in Runs : q # r /\ LatestRun(q)' => runs[q] = "none"
        BY <2>1, <1>y, <1>n DEF LatestRun
    <2> QED  BY <2>1, <2>2, <1>y DEF ConnectionShowsLatestRun, LatestRun
<1>2. ASSUME NEW s \in Syncers, pc[s] \in Undecided, NEW st \in {"running", "succeeded", "failed"},
             runs' = [runs EXCEPT ![run[s]] = st], conn'.lastSync = st,
             \/ st = "running"
             \/ conn'.archived
             \/ conn'.status = IF st = "succeeded" THEN "active" ELSE "degraded"
      PROVE  ConnectionShowsLatestRun'
    <2>1. /\ run[s] \in Runs /\ runs[run[s]] = "running"
          /\ \A q \in Runs : q > run[s] => runs[q] = "none"
        BY <1>2, WriterFacts
    <2>2. \A q \in Runs : LatestRun(q)' => q = run[s]
        BY <1>2, <2>1, <1>y, <1>n DEF LatestRun
    <2> QED  BY <1>2, <2>1, <2>2, <1>y DEF ConnectionShowsLatestRun
<1>3. ASSUME NEW s \in Syncers, MarkSyncing(s) PROVE ConnectionShowsLatestRun'
    <2>1. run[s] \in Runs /\ runs[run[s]] = "running"
        BY <1>3, WriterFacts DEF MarkSyncing, Undecided
    <2>2. pc[s] \in Undecided /\ runs' = [runs EXCEPT ![run[s]] = "running"] /\ conn'.lastSync = "running"
        BY <1>3, <1>y, <2>1 DEF MarkSyncing, Undecided, ConnType
    <2> QED  BY <1>2, <2>2
<1>4. ASSUME NEW s \in Syncers, PersistEffect(s) PROVE ConnectionShowsLatestRun'
    <2>1. /\ pc[s] \in Undecided /\ runs' = [runs EXCEPT ![run[s]] = "succeeded"]
          /\ conn'.lastSync = "succeeded" /\ conn'.status = "active"
        BY <1>4, <1>y DEF PersistEffect, Undecided, ConnType
    <2> QED  BY <1>2, <2>1
<1>5. ASSUME NEW s \in Syncers, FailRun(s) PROVE ConnectionShowsLatestRun'
    <2>1. /\ pc[s] \in Undecided /\ runs' = [runs EXCEPT ![run[s]] = "failed"]
          /\ conn'.lastSync = "failed" /\ conn'.status = "degraded"
        BY <1>5, <1>y DEF FailRun, Undecided, ConnType
    <2> QED  BY <1>2, <2>1
<1>6. ASSUME UNCHANGED runs, conn'.lastSync = conn.lastSync, conn'.archived \/ conn' = conn
      PROVE  ConnectionShowsLatestRun'
    BY <1>6 DEF ConnectionShowsLatestRun, LatestRun
<1>7. ASSUME Archive PROVE ConnectionShowsLatestRun'
    BY <1>6, <1>7, <1>y DEF Archive, ConnType
<1>8. ASSUME NEW a \in Agents, MarkAgentDeleted(a) PROVE ConnectionShowsLatestRun'
    BY <1>6, <1>8 DEF MarkAgentDeleted
<1> QED  BY <1>1, <1>3, <1>4, <1>5, <1>6, <1>7, <1>8, TablesChange

\* The sync state on the connection row is that of the latest finished run.
THEOREM ConnectionShowsLatestRunCorrect ==
    ASSUME "ackLost" \notin Faults, "sessionLost" \notin Faults
    PROVE  Spec => []ConnectionShowsLatestRun
<1>1. Init => ConnectionShowsLatestRun
    BY DEF Init, ConnectionShowsLatestRun, LatestRun
<1>2. OrderInv /\ [Next]_vars => OrderInv'
    BY OrderStep
<1> QED  BY OrderInit, <1>1, <1>2, ConnStep, PTL DEF Spec

-----------------------------------------------------------------------------
(***************************************************************************)
(* Agents, bindings and skills age apart, in three statements, yet become  *)
(* stale together: an agent is never older than its bindings, and a skill  *)
(* is as old as the youngest of them.                                      *)
(***************************************************************************)

\* An agent that a snapshot does not list has no skills in it.
SnapshotsCoherent ==
    \A s \in Syncers :
        /\ pc[s] \in {"idle", "loaded", "locked", "inserted", "listing", "fetching"} =>
               \A a \in Agents : snap[s].skills[a] = {}
        /\ pc[s] = "collected" =>
               \A a \in Agents : snap[s].agents[a] = "absent" => snap[s].skills[a] = {}

SkillAgeShown(row) == Known(row) => (row.status = "stale" <=> row.missing >= MissingThreshold)

AgesCoherent ==
    /\ \A k \in Skills : SkillAgeShown(skills[k])
    /\ \A a \in Agents, k \in Skills : SkillAgeShown(bindings[a][k])
    /\ \A a \in Agents, k \in Skills :
          Known(bindings[a][k]) =>
              /\ Known(agents[a]) /\ agents[a].missing <= bindings[a][k].missing
              /\ Known(skills[k]) /\ skills[k].missing <= bindings[a][k].missing
    /\ \A k \in Skills :
          Known(skills[k]) =>
              \E a \in Agents : Known(bindings[a][k]) /\ bindings[a][k].missing = skills[k].missing

\* Every step keeps the snapshots under way coherent.
LEMMA SnapshotsStep == TypeInv /\ SnapshotsCoherent /\ [Next]_vars => SnapshotsCoherent'
<1> SUFFICES ASSUME TypeInv, SnapshotsCoherent, [Next]_vars PROVE SnapshotsCoherent'
    OBVIOUS
<1>y. pc \in [Syncers -> Steps] /\ snap \in [Syncers -> SnapshotType]
    BY DEF TypeInv, TypeOK
<1>1. ASSUME UNCHANGED <<pc, snap>> PROVE SnapshotsCoherent'
    BY <1>1 DEF SnapshotsCoherent
<1>2. ASSUME NEW s \in Syncers, NEW step \in Steps \ {"idle", "collected"}, GoTo(s, step), snap' = snap,
             pc[s] \in {"idle", "loaded", "locked", "inserted"}
                 \/ step \in {"failing", "auditFailed", "auditSucceeded", "releasing"}
      PROVE  SnapshotsCoherent'
    BY <1>2, <1>y DEF SnapshotsCoherent, GoTo, Steps
<1>3. ASSUME NEW s \in Syncers, Return(s) PROVE SnapshotsCoherent'
    BY <1>3, <1>y DEF SnapshotsCoherent, Return, GoTo, NoSnapshot
<1>4. ASSUME NEW s \in Syncers, ListAgents(s) PROVE SnapshotsCoherent'
    BY <1>4, <1>y DEF SnapshotsCoherent, ListAgents, GoTo, SnapshotType
<1>5. ASSUME NEW s \in Syncers, FetchAgents(s) PROVE SnapshotsCoherent'
    BY <1>5, <1>y DEF SnapshotsCoherent, FetchAgents, GoTo, SnapshotType
<1>6. ASSUME NEW s \in Syncers, LoadConnection(s) \/ TryLock(s) \/ InsertRun(s) \/ MarkSyncing(s)
                                \/ CreateRunFails(s)
      PROVE  SnapshotsCoherent'
    BY <1>2, <1>6 DEF LoadConnection, TryLock, InsertRun, MarkSyncing, CreateRunFails, Steps
<1>7. ASSUME NEW s \in Syncers, CollectFails(s) \/ PersistSnapshot(s) \/ PersistUnacknowledged(s)
                                \/ PersistFails(s)
      PROVE  SnapshotsCoherent'
    BY <1>2, <1>7 DEF CollectFails, PersistSnapshot, PersistUnacknowledged, PersistEffect,
                      PersistFails, Steps
<1>8. ASSUME NEW s \in Syncers, FailRun(s) \/ FailRunFails(s) \/ AuditSync(s) \/ AuditSyncFails(s)
      PROVE  SnapshotsCoherent'
    BY <1>2, <1>8 DEF FailRun, FailRunFails, AuditSync, AuditSyncFails, Steps
<1>9. ASSUME NEW s \in Syncers, TryLockFails(s) \/ Release(s) \/ ReleaseFails(s) \/ Crash(s)
      PROVE  SnapshotsCoherent'
    BY <1>3, <1>9 DEF TryLockFails, Release, ReleaseFails, Crash
<1>10. ASSUME NEW s \in Syncers, Cancel(s) \/ LoseSession(s) PROVE SnapshotsCoherent'
    BY <1>1, <1>10 DEF Cancel, LoseSession, call
<1>11. ASSUME NEW a \in Agents, \/ RuntimeChanges(a) \/ DeleteOnRuntime(a)
                                \/ MarkAgentDeleted(a) \/ MarkAgentDeletedFails(a)
       PROVE  SnapshotsCoherent'
    BY <1>1, <1>11 DEF RuntimeChanges, DeleteOnRuntime, MarkAgentDeleted, MarkAgentDeletedFails, call
<1>12. CASE SessionEnds \/ Archive
    BY <1>1, <1>12 DEF SessionEnds, Archive, call
<1>13. CASE UNCHANGED vars
    BY <1>1, <1>13 DEF vars, call
<1> QED
    BY <1>4, <1>5, <1>6, <1>7, <1>8, <1>9, <1>10, <1>11, <1>12, <1>13 DEF Next, Environment, Sync

\* Initially there is nothing to disagree.
LEMMA AgesInit == Init => SnapshotsCoherent /\ AgesCoherent
<1>1. Init => SnapshotsCoherent
    BY DEF Init, SnapshotsCoherent, NoSnapshot
<1>2. Init => AgesCoherent
    BY DEF Init, AgesCoherent, SkillAgeShown, Known, NoSkill, NoAgent
<1> QED  BY <1>1, <1>2

\* An upserted row and an older one show their age.
LEMMA SkillAges ==
    ASSUME NEW row \in SkillRow, SkillAgeShown(row), NEW r
    PROVE  /\ SkillAgeShown(UpsertSnapshotSkill(r)) /\ Known(UpsertSnapshotSkill(r))
           /\ UpsertSnapshotSkill(r).missing = 0
           /\ Known(row) => SkillAgeShown(OlderSkill(row)) /\ Known(OlderSkill(row))
           /\ OlderSkill(row).missing = row.missing + 1
BY ThresholdAssumption DEF SkillAgeShown, UpsertSnapshotSkill, OlderSkill, Known, SkillRow

\* A snapshot that commits keeps the ages in order.
LEMMA AgesPersist ==
    ASSUME OrderInv, SnapshotsCoherent, AgesCoherent, NEW s \in Syncers, PersistEffect(s)
    PROVE  AgesCoherent'
<1> DEFINE sn == snap[s].agents
           asg == snap[s].skills
           r == run[s]
<1>y. /\ agents \in [Agents -> AgentRow] /\ skills \in [Skills -> SkillRow]
      /\ bindings \in [Agents -> [Skills -> SkillRow]]
      /\ sn \in Snapshots
    BY DEF OrderInv, AgentsInv, TypeInv, TypeOK, SnapshotType
<1>1. /\ agents' = PersistedAgents(agents, sn, r)
      /\ skills' = PersistedSkills(skills, asg, r)
      /\ bindings' = PersistedBindings(bindings, asg, r)
      /\ pc[s] \in Undecided
    BY DEF PersistEffect, Undecided
<1>2. /\ r \in Runs
      /\ \A a \in Agents : agents[a].lastSeen # r
      /\ \A k \in Skills : skills[k].lastSeen # r
      /\ \A a \in Agents, k \in Skills : bindings[a][k].lastSeen # r
    <2>1. \A q \in Runs : q \in Nat
        BY RunsAssumption
    <2> QED  BY <1>1, <2>1, WriterFacts
<1>3. \A a \in Agents : sn[a] = "absent" => asg[a] = {}
    BY DEF SnapshotsCoherent, PersistEffect
<1> HIDE DEF sn, asg, r
<1> DEFINE fresh == UpsertSnapshotSkill(r)
           Fresh(k) == \E a \in Agents : k \in asg[a]
<1>f. SkillAgeShown(fresh) /\ Known(fresh) /\ fresh.missing = 0
    BY ThresholdAssumption DEF SkillAgeShown, UpsertSnapshotSkill, Known
<1>a. ASSUME NEW a \in Agents
      PROVE  /\ sn[a] # "absent" => Known(agents'[a]) /\ agents'[a].missing = 0
             /\ sn[a] = "absent" /\ Known(agents[a]) =>
                    Known(agents'[a]) /\ agents'[a].missing = agents[a].missing + 1
    <2>1. CASE sn[a] # "absent"
        <3>1. agents'[a] = UpsertSnapshotAgent(sn[a], r) /\ sn[a] # "none"
            BY <2>1, <1>1, <1>2, <1>y, AgentAfter, StatusAssumption DEF Snapshots
        <3> QED  BY <2>1, <3>1 DEF UpsertSnapshotAgent, Known
    <2>2. CASE sn[a] = "absent" /\ Known(agents[a])
        <3>1. agents'[a] = OlderAgent(agents[a])
            BY <2>2, <1>1, <1>2, <1>y, AgentAfter
        <3> QED  BY <2>2, <3>1 DEF OlderAgent, Known
    <2> QED  BY <2>1, <2>2
<1>b. ASSUME NEW a \in Agents, NEW k \in Skills
      PROVE  /\ k \in asg[a] => bindings'[a][k] = fresh
             /\ k \notin asg[a] /\ Known(bindings[a][k]) =>
                    bindings'[a][k] = OlderSkill(bindings[a][k])
             /\ k \notin asg[a] /\ ~Known(bindings[a][k]) => bindings'[a][k] = bindings[a][k]
    <2>1. bindings'[a][k] = PersistedBindings(bindings, asg, r)[a][k]
        BY <1>1
    <2>2. bindings[a][k].lastSeen # r
        BY <1>2
    <2> HIDE DEF fresh
    <2>3. UpsertSnapshotSkill(r) = fresh
        BY DEF fresh
    <2>4. /\ k \in asg[a] => PersistedBindings(bindings, asg, r)[a][k] = UpsertSnapshotSkill(r)
          /\ k \notin asg[a] /\ ~Known(bindings[a][k]) =>
                 PersistedBindings(bindings, asg, r)[a][k] = bindings[a][k]
          /\ k \notin asg[a] /\ Known(bindings[a][k]) /\ bindings[a][k].lastSeen # r =>
                 PersistedBindings(bindings, asg, r)[a][k] = OlderSkill(bindings[a][k])
        BY DEF PersistedBindings, AdvanceMissingSkill, UpsertSnapshotSkill, Known, OlderSkill
    <2> QED  BY <2>1, <2>2, <2>3, <2>4
<1>k. ASSUME NEW k \in Skills
      PROVE  /\ Fresh(k) => skills'[k] = fresh
             /\ ~Fresh(k) /\ Known(skills[k]) => skills'[k] = OlderSkill(skills[k])
             /\ ~Fresh(k) /\ ~Known(skills[k]) => skills'[k] = skills[k]
    BY <1>1, <1>2, <1>y, SkillAfter
<1>o. ASSUME NEW row \in SkillRow, SkillAgeShown(row), Known(row)
      PROVE  /\ SkillAgeShown(OlderSkill(row)) /\ Known(OlderSkill(row))
             /\ OlderSkill(row).missing = row.missing + 1
    BY <1>o, SkillAges
<1> HIDE DEF fresh, Fresh
<1>4. ASSUME NEW k \in Skills PROVE SkillAgeShown(skills'[k])
    <2>1. skills[k] \in SkillRow /\ SkillAgeShown(skills[k])
        BY <1>y DEF AgesCoherent
    <2> QED  BY <2>1, <1>k, <1>f, <1>o
<1>5. ASSUME NEW a \in Agents, NEW k \in Skills PROVE SkillAgeShown(bindings'[a][k])
    <2>1. bindings[a][k] \in SkillRow /\ SkillAgeShown(bindings[a][k])
        BY <1>y DEF AgesCoherent
    <2> QED  BY <2>1, <1>b, <1>f, <1>o
<1>6. ASSUME NEW a \in Agents, NEW k \in Skills, Known(bindings'[a][k])
      PROVE  /\ Known(agents'[a]) /\ agents'[a].missing <= bindings'[a][k].missing
             /\ Known(skills'[k]) /\ skills'[k].missing <= bindings'[a][k].missing
    <2>y. /\ agents[a].missing \in Nat /\ bindings[a][k].missing \in Nat /\ skills[k].missing \in Nat
          /\ bindings[a][k] \in SkillRow /\ skills[k] \in SkillRow
        BY <1>y DEF AgentRow, SkillRow
    <2>s. SkillAgeShown(bindings[a][k]) /\ SkillAgeShown(skills[k])
        BY DEF AgesCoherent
    <2>1. CASE k \in asg[a]
        <3>1. sn[a] # "absent" /\ Fresh(k)
            BY <2>1, <1>3 DEF Fresh
        <3> QED  BY <2>1, <3>1, <1>a, <1>b, <1>k, <1>f
    <2>2. CASE k \notin asg[a]
        <3>1. Known(bindings[a][k])
            BY <2>2, <1>6, <1>b
        <3>2. bindings'[a][k].missing = bindings[a][k].missing + 1
            BY <2>2, <3>1, <2>y, <2>s, <1>b, <1>o
        <3>3. /\ Known(agents[a]) /\ agents[a].missing <= bindings[a][k].missing
              /\ Known(skills[k]) /\ skills[k].missing <= bindings[a][k].missing
            BY <3>1 DEF AgesCoherent
        <3>4. /\ Known(agents'[a])
              /\ agents'[a].missing = 0 \/ agents'[a].missing = agents[a].missing + 1
            BY <3>3, <1>a
        <3>5. /\ Known(skills'[k])
              /\ skills'[k].missing = 0 \/ skills'[k].missing = skills[k].missing + 1
            BY <3>3, <2>y, <2>s, <1>k, <1>f, <1>o
        <3> QED  BY <3>2, <3>3, <3>4, <3>5, <2>y
    <2> QED  BY <2>1, <2>2
<1>7. ASSUME NEW k \in Skills, Known(skills'[k])
      PROVE  \E a \in Agents : Known(bindings'[a][k]) /\ bindings'[a][k].missing = skills'[k].missing
    <2>1. CASE Fresh(k)
        <3>1. PICK a \in Agents : k \in asg[a]
            BY <2>1 DEF Fresh
        <3> QED  BY <2>1, <3>1, <1>b, <1>k, <1>f
    <2>2. CASE ~Fresh(k)
        <3>1. Known(skills[k])
            BY <2>2, <1>7, <1>k
        <3>2. PICK a \in Agents : Known(bindings[a][k]) /\ bindings[a][k].missing = skills[k].missing
            BY <3>1 DEF AgesCoherent
        <3>3. /\ bindings[a][k] \in SkillRow /\ skills[k] \in SkillRow
              /\ SkillAgeShown(bindings[a][k]) /\ SkillAgeShown(skills[k])
            BY <1>y DEF AgesCoherent
        <3>4. k \notin asg[a]
            BY <2>2 DEF Fresh
        <3>5. /\ Known(bindings'[a][k]) /\ bindings'[a][k].missing = bindings[a][k].missing + 1
              /\ skills'[k].missing = skills[k].missing + 1
            BY <2>2, <3>1, <3>2, <3>3, <3>4, <1>b, <1>k, <1>o
        <3> QED  BY <3>2, <3>5
    <2> QED  BY <2>1, <2>2
<1> QED  BY <1>4, <1>5, <1>6, <1>7 DEF AgesCoherent

\* So does every other step.
LEMMA AgesStep ==
    OrderInv /\ SnapshotsCoherent /\ AgesCoherent /\ [Next]_vars => AgesCoherent'
<1> SUFFICES ASSUME OrderInv, SnapshotsCoherent, AgesCoherent, [Next]_vars PROVE AgesCoherent'
    OBVIOUS
<1>1. ASSUME NEW s \in Syncers, PersistEffect(s) PROVE AgesCoherent'
    BY <1>1, AgesPersist
<1>2. ASSUME UNCHANGED <<skills, bindings>>,
             \A a \in Agents : /\ agents'[a].missing = agents[a].missing
                               /\ Known(agents[a]) => Known(agents'[a])
      PROVE  AgesCoherent'
    BY <1>2 DEF AgesCoherent
<1>3. ASSUME NEW a \in Agents, MarkAgentDeleted(a) PROVE AgesCoherent'
    <2>1. agents \in [Agents -> AgentRow]
        BY DEF OrderInv, AgentsInv, TypeInv, TypeOK
    <2>2. \A b \in Agents : agents'[b].missing = agents[b].missing
        BY <1>3, <2>1 DEF MarkAgentDeleted, Tombstoned, AgentRow
    <2>3. \A b \in Agents : Known(agents[b]) => Known(agents'[b])
        BY AgentsStep DEF OrderInv
    <2> QED  BY <1>2, <1>3, <2>2, <2>3 DEF MarkAgentDeleted
<1>4. ASSUME UNCHANGED <<agents, skills, bindings>> PROVE AgesCoherent'
    BY <1>2, <1>4
<1>5. ASSUME NEW s \in Syncers, InsertRun(s) \/ MarkSyncing(s) \/ FailRun(s) PROVE AgesCoherent'
    BY <1>4, <1>5 DEF InsertRun, MarkSyncing, FailRun, catalog
<1>6. ASSUME Archive PROVE AgesCoherent'
    BY <1>4, <1>6 DEF Archive, catalog
<1> QED  BY <1>1, <1>3, <1>4, <1>5, <1>6, TablesChange DEF catalog

\* Agents, bindings and skills, aged in three statements, are stale together.
THEOREM StaleCoherentCorrect ==
    ASSUME "ackLost" \notin Faults, "sessionLost" \notin Faults
    PROVE  Spec => []StaleCoherent
<1>1. OrderInv /\ [Next]_vars => OrderInv'
    BY OrderStep
<1>2. OrderInv => TypeInv
    BY DEF OrderInv, AgentsInv
<1>3. OrderInv /\ AgesCoherent => StaleCoherent
    <2> SUFFICES ASSUME OrderInv, AgesCoherent PROVE StaleCoherent
        OBVIOUS
    <2>y. /\ agents \in [Agents -> AgentRow] /\ skills \in [Skills -> SkillRow]
          /\ bindings \in [Agents -> [Skills -> SkillRow]]
        BY <1>2 DEF TypeInv, TypeOK
    <2>m. /\ \A k \in Skills : skills[k].missing \in Nat
          /\ \A a \in Agents : agents[a].missing \in Nat
          /\ \A a \in Agents, k \in Skills :
                bindings[a][k].missing \in Nat /\ bindings[a][k].status \in {"none", "active", "stale"}
        BY <2>y DEF AgentRow, SkillRow
    <2>1. ASSUME NEW a \in Agents, NEW k \in Skills, agents[a].status = "stale"
          PROVE  bindings[a][k].status # "active"
        <3>1. agents[a].missing >= MissingThreshold
            BY <2>1 DEF OrderInv, AgentsInv, AgeShown
        <3>2. Known(bindings[a][k]) => bindings[a][k].missing >= MissingThreshold
            BY <3>1, <2>m, ThresholdAssumption DEF AgesCoherent
        <3> QED  BY <3>2 DEF AgesCoherent, SkillAgeShown, Known
    <2>2. ASSUME NEW k \in Skills, skills[k].status = "stale", NEW a \in Agents
          PROVE  Known(skills[k]) /\ bindings[a][k].status # "active"
        <3>1. Known(skills[k]) /\ skills[k].missing >= MissingThreshold
            BY <2>2 DEF AgesCoherent, SkillAgeShown, Known
        <3>2. Known(bindings[a][k]) => bindings[a][k].missing >= MissingThreshold
            BY <3>1, <2>m, ThresholdAssumption DEF AgesCoherent
        <3> QED  BY <3>1, <3>2 DEF AgesCoherent, SkillAgeShown, Known
    <2>3. ASSUME NEW k \in Skills, Known(skills[k]), \A a \in Agents : bindings[a][k].status # "active"
          PROVE  skills[k].status = "stale"
        <3>1. PICK a \in Agents : Known(bindings[a][k]) /\ bindings[a][k].missing = skills[k].missing
            BY <2>3 DEF AgesCoherent
        <3>2. bindings[a][k].status = "stale"
            BY <3>1, <2>3, <2>m DEF Known
        <3> QED  BY <3>1, <3>2, <2>3 DEF AgesCoherent, SkillAgeShown
    <2>4. \A k \in Skills : skills[k].status = "stale" => Known(skills[k])
        BY DEF Known
    <2> QED  BY <2>1, <2>2, <2>3, <2>4 DEF StaleCoherent
<1> QED
    BY OrderInit, AgesInit, <1>1, <1>2, <1>3, SnapshotsStep, AgesStep, PTL DEF Spec

-----------------------------------------------------------------------------
(***************************************************************************)
(* The refinement: RuntimeSync implements RuntimeCatalog.                  *)
(***************************************************************************)

Successes == Cardinality({r \in Runs : runs[r] = "succeeded"})

\* A snapshot that commits is a step of the catalogue.
LEMMA PersistRefines ==
    ASSUME OrderInv, NEW s \in Syncers, PersistEffect(s)
    PROVE  Catalog!ApplySnapshot
<1> DEFINE sn == snap[s].agents
           r == run[s]
           seen == {a \in Agents : sn[a] # "absent"}
<1>y. agents \in [Agents -> AgentRow] /\ sn \in Snapshots
    BY DEF OrderInv, AgentsInv, TypeInv, TypeOK, SnapshotType
<1>n. \A q \in Runs : q \in Nat /\ q > 0
    BY RunsAssumption
<1>1. r \in Runs /\ \A a \in Agents : agents[a].lastSeen # r
    BY <1>n, WriterFacts DEF PersistEffect, Undecided
<1>2. agents' = PersistedAgents(agents, sn, r)
    BY DEF PersistEffect
<1>3. Cardinality({q \in Runs : runs'[q] = "succeeded"})
          = Cardinality({q \in Runs : runs[q] = "succeeded"}) + 1
    <2>1. /\ {q \in Runs : q > 0 /\ runs[q] = "succeeded"} = {q \in Runs : runs[q] = "succeeded"}
          /\ {q \in Runs : q > 0 /\ runs'[q] = "succeeded"} = {q \in Runs : runs'[q] = "succeeded"}
        BY <1>n
    <2>2. 0 \in Nat /\ 0 < r
        BY <1>1, <1>n
    <2>3. Cardinality({q \in Runs : q > 0 /\ runs'[q] = "succeeded"})
              = Cardinality({q \in Runs : q > 0 /\ runs[q] = "succeeded"}) + 1
        BY <2>2, SuccessesGrow
    <2> QED  BY <2>1, <2>3
<1> HIDE DEF sn, r
<1>4. ASSUME NEW a \in Agents
      PROVE  /\ a \in seen => agents'[a].missing = 0 /\ agents'[a].status \in RuntimeStatuses
             /\ a \notin seen /\ agents[a].status = "none" =>
                    agents'[a].missing = 0 /\ agents'[a].status = agents[a].status
             /\ a \notin seen /\ agents[a].status # "none" =>
                    /\ agents'[a].missing = agents[a].missing + 1
                    /\ agents'[a].status = IF agents'[a].missing >= MissingThreshold
                                           THEN "stale" ELSE agents[a].status
    <2>1. CASE a \in seen
        <3>1. agents'[a] = UpsertSnapshotAgent(sn[a], r)
            BY <2>1, <1>1, <1>2, <1>y, AgentAfter
        <3>2. sn[a] \in RuntimeStatuses
            BY <2>1, <1>y DEF Snapshots
        <3> QED  BY <2>1, <3>1, <3>2 DEF UpsertSnapshotAgent
    <2>2. CASE a \notin seen /\ agents[a].status = "none"
        <3>1. agents'[a] = agents[a]
            BY <2>2, <1>1, <1>2, <1>y, AgentAfter DEF Known
        <3>2. agents[a].missing = 0
            BY <2>2 DEF OrderInv, AgentsInv, AgeShown, Known
        <3> QED  BY <2>2, <3>1, <3>2
    <2>3. CASE a \notin seen /\ agents[a].status # "none"
        <3>1. agents'[a] = OlderAgent(agents[a])
            BY <2>3, <1>1, <1>2, <1>y, AgentAfter DEF Known
        <3> QED  BY <2>3, <3>1 DEF OlderAgent
    <2> QED  BY <2>1, <2>2, <2>3
<1>5. \A a \in Agents : a \notin seen /\ agents[a].status = "none" => ~(agents'[a].missing >= MissingThreshold)
    BY <1>4, ThresholdAssumption
<1> HIDE DEF seen
<1>6. seen \in SUBSET Agents
    BY DEF seen
<1>7. [a \in Agents |-> agents'[a].missing]
          = [a \in Agents |-> IF a \in seen \/ [b \in Agents |-> agents[b].status][a] = "none"
                              THEN 0 ELSE [b \in Agents |-> agents[b].missing][a] + 1]
    BY <1>4
<1>8. \A a \in seen : [b \in Agents |-> agents'[b].status][a] \in RuntimeStatuses
    BY <1>4, <1>6
<1>9. \A a \in Agents \ seen :
          [b \in Agents |-> agents'[b].status][a]
              = IF [b \in Agents |-> agents'[b].missing][a] >= MissingThreshold
                THEN "stale" ELSE [b \in Agents |-> agents[b].status][a]
    BY <1>4, <1>5
<1> QED  BY <1>3, <1>6, <1>7, <1>8, <1>9 DEF Catalog!ApplySnapshot

\* So is a tombstone.
LEMMA TombstoneRefines ==
    ASSUME OrderInv, [Next]_vars, NEW a \in Agents, MarkAgentDeleted(a)
    PROVE  Catalog!Tombstone(a)
<1>1. agents \in [Agents -> AgentRow] /\ Known(agents[a])
    BY DEF OrderInv, AgentsInv, TypeInv, TypeOK, MarkAgentDeleted
<1>2. agents' = [agents EXCEPT ![a] = Tombstoned(@)] /\ runs' = runs
    BY DEF MarkAgentDeleted
<1>3. \A b \in Agents : /\ agents'[b].missing = agents[b].missing
                        /\ agents'[b].status = IF b = a THEN "disabled" ELSE agents[b].status
    BY <1>1, <1>2 DEF Tombstoned, AgentRow
<1>4. [b \in Agents |-> agents'[b].missing] = [b \in Agents |-> agents[b].missing]
    BY <1>3
<1>5. [b \in Agents |-> agents'[b].status]
          = [[b \in Agents |-> agents[b].status] EXCEPT ![a] = "disabled"]
    BY <1>3
<1>6. [b \in Agents |-> agents[b].status][a] # "none"
    BY <1>1 DEF Known
<1> QED  BY <1>2, <1>4, <1>5, <1>6 DEF Catalog!Tombstone

\* And every other step leaves the catalogue alone.
LEMMA OtherStepsStutter ==
    ASSUME OrderInv, [Next]_vars, \A s \in Syncers : ~PersistEffect(s), agents' = agents
    PROVE  UNCHANGED <<[a \in Agents |-> agents[a].status], [a \in Agents |-> agents[a].missing], Successes>>
<1>1. {q \in Runs : runs'[q] = "succeeded"} = {q \in Runs : runs[q] = "succeeded"}
    BY SuccessesKept
<1> QED  BY <1>1 DEF Successes

\* The synchronization implements the catalogue it promises, for any agents,
\* skills, calls and runs: every commit is one whole snapshot, and cancelled
\* calls, crashes and failed statements are invisible.
THEOREM CatalogImplemented ==
    ASSUME "ackLost" \notin Faults, "sessionLost" \notin Faults
    PROVE  Spec => CatalogSpec
<1>1. Init => Catalog!Init
    <2> SUFFICES ASSUME Init PROVE Catalog!Init
        OBVIOUS
    <2>1. {r \in Runs : runs[r] = "succeeded"} = {}
        BY DEF Init
    <2>2. Cardinality({r \in Runs : runs[r] = "succeeded"}) = 0
        BY <2>1, FS_EmptySet
    <2>3. /\ [a \in Agents |-> agents[a].status] = [a \in Agents |-> "none"]
          /\ [a \in Agents |-> agents[a].missing] = [a \in Agents |-> 0]
        BY DEF Init, NoAgent
    <2> QED  BY <2>2, <2>3 DEF Catalog!Init
<1>2. OrderInv /\ [Next]_vars => OrderInv'
    BY OrderStep
<1>3. OrderInv /\ [Next]_vars =>
          [Catalog!Next]_<<[a \in Agents |-> agents[a].status], [a \in Agents |-> agents[a].missing],
                           Cardinality({r \in Runs : runs[r] = "succeeded"})>>
    <2> SUFFICES ASSUME OrderInv, [Next]_vars
                 PROVE  \/ Catalog!Next
                        \/ UNCHANGED <<[a \in Agents |-> agents[a].status],
                                       [a \in Agents |-> agents[a].missing], Successes>>
        BY DEF Successes
    <2>1. ASSUME NEW s \in Syncers, PersistEffect(s) PROVE Catalog!Next
        BY <2>1, PersistRefines DEF Catalog!Next
    <2>2. ASSUME NEW a \in Agents, MarkAgentDeleted(a) PROVE Catalog!Next
        BY <2>2, TombstoneRefines DEF Catalog!Next
    <2> QED  BY <2>1, <2>2, AgentsChange, OtherStepsStutter
<1> QED  BY OrderInit, <1>1, <1>2, <1>3, PTL DEF Spec, CatalogSpec, Catalog!Spec
=============================================================================
