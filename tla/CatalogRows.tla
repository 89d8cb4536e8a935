----------------------------- MODULE CatalogRows -----------------------------
(***************************************************************************)
(* The rows of the imported catalogue and what one successful sync does to *)
(* each: the row updates of the store's PersistSnapshot transaction and of *)
(* MarkAgentDeleted.  RuntimeCatalog (the promise) and RuntimeSync (the    *)
(* implementation) are both built from these operators.                    *)
(***************************************************************************)
EXTENDS Naturals

CONSTANTS
    Agents,             \* runtime agent identifiers
    Skills,             \* runtime skill identifiers
    Runs,               \* sync run identifiers, in the order they are created
    RuntimeStatuses,    \* the statuses a runtime reports for its agents
    MissingThreshold    \* successful absences after which an agent is stale

ASSUME ThresholdAssumption == MissingThreshold \in Nat \ {0}

ASSUME RunsAssumption == Runs \subseteq Nat \ {0}

ASSUME StatusAssumption ==
    RuntimeStatuses \subseteq {"unknown", "enabled", "disabled"}

AgentStatus == {"unknown", "enabled", "disabled", "stale"}

\* No row: the agent has never been imported.
NoAgent == [status |-> "none", deleted |-> FALSE, missing |-> 0, lastSeen |-> 0]

AgentRow == [status : AgentStatus \cup {"none"}, deleted : BOOLEAN,
             missing : Nat, lastSeen : Nat]

Known(row) == row.status # "none"

\* An observed agent is inserted or overwritten, metadata (and with it the
\* tombstone flag) included, and its missing counter is reset.
UpsertSnapshotAgent(status, r) ==
    [status |-> status, deleted |-> FALSE, missing |-> 0, lastSeen |-> r]

\* Mutant: every row is counted as missed, observed or not.
AdvanceMissingAgent_EveryRow(row, r) ==
    IF Known(row) THEN [row EXCEPT !.missing = @ + 1] ELSE row

\* Mutant: stale one sync too late.
AdvanceMissingAgent_Late(row, r) ==
    LET missed == row.missing + (IF row.lastSeen # r THEN 1 ELSE 0)
    IN  IF Known(row)
        THEN [row EXCEPT !.missing = missed,
                         !.status = IF missed > MissingThreshold THEN "stale" ELSE @]
        ELSE row

\* Every row the run has not seen misses one more successful sync; a row at
\* the threshold becomes stale.
AdvanceMissingAgent(row, r) ==
    LET missed == row.missing + (IF row.lastSeen # r THEN 1 ELSE 0)
    IN  IF Known(row)
        THEN [status |-> IF missed >= MissingThreshold THEN "stale" ELSE row.status,
              deleted |-> row.deleted, missing |-> missed, lastSeen |-> row.lastSeen]
        ELSE row

\* A snapshot maps each agent to its reported status, or to "absent".
Snapshots == [Agents -> RuntimeStatuses \cup {"absent"}]

\* Mutant: the snapshot replaces the agents instead of being merged.
PersistedAgents_Replaced(rows, sn, r) ==
    [a \in Agents |-> IF sn[a] # "absent" THEN UpsertSnapshotAgent(sn[a], r) ELSE NoAgent]

\* The agent rows after run r has persisted snapshot sn.
PersistedAgents(rows, sn, r) ==
    [a \in Agents |->
        AdvanceMissingAgent(
            IF sn[a] # "absent" THEN UpsertSnapshotAgent(sn[a], r) ELSE rows[a], r)]

\* The row of an agent deleted through Capcom: disabled, flagged, kept.
Tombstoned(row) == [row EXCEPT !.status = "disabled", !.deleted = TRUE]

-----------------------------------------------------------------------------
\* Rows of runtime_skills and agent_skill_bindings (agent_delegations rows age
\* the same way).  "active" stands for every status that is not Capcom's own
\* "stale": the one the runtime reports for a skill, 'active' for a binding.
NoSkill == [status |-> "none", missing |-> 0, lastSeen |-> 0]

SkillRow == [status : {"none", "active", "stale"}, missing : Nat, lastSeen : Nat]

UpsertSnapshotSkill(r) == [status |-> "active", missing |-> 0, lastSeen |-> r]

AdvanceMissingSkill(row, r) ==
    IF Known(row) /\ row.lastSeen # r
    THEN [status |-> IF row.missing + 1 >= MissingThreshold THEN "stale" ELSE row.status,
          missing |-> row.missing + 1, lastSeen |-> row.lastSeen]
    ELSE row

\* Mutant: only the bindings of agents that are in the snapshot age.
PersistedBindings_ObservedOnly(rows, assigned, r) ==
    [a \in Agents |-> [k \in Skills |->
        IF k \in assigned[a] THEN UpsertSnapshotSkill(r)
        ELSE IF assigned[a] = {} THEN rows[a][k] ELSE AdvanceMissingSkill(rows[a][k], r)]]

\* Bindings and skills after run r has persisted a snapshot in which agent a
\* carries the skills assigned[a]; an absent agent carries none.
PersistedBindings(rows, assigned, r) ==
    [a \in Agents |-> [k \in Skills |->
        AdvanceMissingSkill(
            IF k \in assigned[a] THEN UpsertSnapshotSkill(r) ELSE rows[a][k], r)]]

PersistedSkills(rows, assigned, r) ==
    [k \in Skills |->
        AdvanceMissingSkill(
            IF \E a \in Agents : k \in assigned[a] THEN UpsertSnapshotSkill(r) ELSE rows[k], r)]
=============================================================================
