---------------------------- MODULE ControlActions ----------------------------
(***************************************************************************)
(* Control actions on the agents and executions of one runtime:            *)
(* ControlActionService (ReconcileAccess, SetAgentStatus, DeleteAgent,     *)
(* CancelExecution) and the ControlActionRepository, in one organization.  *)
(*                                                                         *)
(* The four operations share one course, which is modelled once: look the  *)
(* idempotency key up, load the target and its connection, refuse or store *)
(* the action, audit, call the runtime, store the outcome, verify by a     *)
(* sync, audit.  Requests are concurrent, may carry the same key (a client *)
(* that retries, a double click) and may be cut short between any two      *)
(* steps.  One action is one statement or one exchange with the runtime.   *)
(***************************************************************************)
EXTENDS Naturals

CONSTANTS
    Requests,   \* concurrent calls of the service
    Keys,       \* idempotency keys
    Operations, \* the action types that are requested
    NoRequest,  \* no input
    Faults      \* the faults the environment may inject

ActionTypes == {"replace_agent_access", "enable_agent", "disable_agent",
                "delete_agent", "cancel_execution"}

ASSUME OperationsAssumption == Operations \subseteq ActionTypes

(***************************************************************************)
(*  cancel   the request context ends; every later statement fails         *)
(*  crash    the process dies                                              *)
(*  dbError  a statement fails and changes nothing                         *)
(*  ackLost  a statement takes effect but its caller sees an error         *)
(***************************************************************************)
ASSUME ActionFaultsAssumption == Faults \subseteq {"cancel", "crash", "dbError", "ackLost"}

\* What a client sends.  A padded key has blanks around it, which the lookup
\* keeps and the stored action does not.
Inputs == [op : Operations, key : Keys, dryRun : BOOLEAN, padded : BOOLEAN]

ASSUME NoRequestAssumption == NoRequest \notin Inputs

VARIABLES
    mode,       \* the connection: its mode, or "archived"
    rows,       \* control_actions, by the unique key
    calls,      \* calls[k]: how often the runtime was changed for key k
    tombstones, \* the keys for which MarkAgentDeleted has been done
    audit,      \* audit_events: <<key, event>>
    pc,         \* pc[q]: the next step of request q
    ctx,        \* ctx[q]: "live" or "cancelled"
    req,        \* req[q]: the input of request q
    seen        \* seen[q]: the mode of the connection when q loaded it

actionDb == <<mode, rows, tombstones, audit>>
actionVars == <<actionDb, calls, pc, ctx, req, seen>>

Modes == {"control_enabled", "read_only"}

Terminal == {"succeeded", "failed", "rejected"}

NoRow == [status |-> "none", op |-> "none", dryRun |-> FALSE]

ActionRow == [status : {"none", "queued", "running"} \cup Terminal,
              op : Operations \cup {"none"}, dryRun : BOOLEAN]

\* The audit steps, and the event each of them writes.
AuditSteps == {"auditRequested", "auditRejected", "auditDryRun", "auditFailed", "auditSucceeded"}

Events == {"requested", "rejected", "dry_run_succeeded", "failed", "succeeded"}

AuditEvent(step) ==
    CASE step = "auditRequested" -> "requested"
      [] step = "auditRejected"  -> "rejected"
      [] step = "auditDryRun"    -> "dry_run_succeeded"
      [] step = "auditFailed"    -> "failed"
      [] step = "auditSucceeded" -> "succeeded"

ActionSteps == {"idle", "finding", "loading", "deciding", "dryRun", "starting", "calling",
                "failing", "tombstoning", "succeeding", "verifying"} \cup AuditSteps

ActionTypeOK ==
    /\ mode \in Modes \cup {"archived"}
    /\ rows \in [Keys -> ActionRow]
    /\ calls \in [Keys -> Nat]
    /\ tombstones \subseteq Keys
    /\ audit \subseteq Keys \X Events
    /\ pc \in [Requests -> ActionSteps]
    /\ ctx \in [Requests -> {"live", "cancelled"}]
    /\ req \in [Requests -> Inputs \cup {NoRequest}]
    /\ seen \in [Requests -> Modes]

Init ==
    /\ mode \in Modes
    /\ rows = [k \in Keys |-> NoRow]
    /\ calls = [k \in Keys |-> 0]
    /\ tombstones = {}
    /\ audit = {}
    /\ pc = [q \in Requests |-> "idle"]
    /\ ctx = [q \in Requests |-> "live"]
    /\ req = [q \in Requests |-> NoRequest]
    /\ seen = [q \in Requests |-> "read_only"]

-----------------------------------------------------------------------------
StatementRuns(q) == ctx[q] = "live"
StatementFails(q) == ctx[q] = "cancelled" \/ "dbError" \in Faults

GoTo(q, step) ==
    /\ pc' = [pc EXCEPT ![q] = step]
    /\ UNCHANGED <<ctx, req, seen>>

Return(q) ==
    /\ pc' = [pc EXCEPT ![q] = "idle"]
    /\ ctx' = [ctx EXCEPT ![q] = "live"]
    /\ req' = [req EXCEPT ![q] = NoRequest]
    /\ seen' = [seen EXCEPT ![q] = "read_only"]

\* After a write whose error ends the request.
ThenGoTo(q, step) == GoTo(q, step) \/ ("ackLost" \in Faults /\ Return(q))

Key(q) == req[q].key

\* The stored action of request q gets a new status.
SetStatus(q, status) == rows' = [rows EXCEPT ![Key(q)].status = status]

-----------------------------------------------------------------------------
\* A request arrives with all its required fields.
Begin(q) ==
    /\ pc[q] = "idle"
    /\ \E in \in Inputs : req' = [req EXCEPT ![q] = in]
    /\ pc' = [pc EXCEPT ![q] = "finding"]
    /\ UNCHANGED <<actionDb, calls, ctx, seen>>

Found(q) == rows[Key(q)].status # "none" /\ ~req[q].padded

\* FindByIdempotencyKey finds an action: it is the answer, whatever it is.
Replay(q) ==
    /\ pc[q] = "finding"
    /\ StatementRuns(q)
    /\ Found(q)
    /\ Return(q)
    /\ UNCHANGED <<actionDb, calls>>

NotFound(q) ==
    /\ pc[q] = "finding"
    /\ StatementRuns(q)
    /\ ~Found(q)
    /\ GoTo(q, "loading")
    /\ UNCHANGED <<actionDb, calls>>

FindFails(q) ==
    /\ pc[q] = "finding"
    /\ StatementFails(q)
    /\ Return(q)
    /\ UNCHANGED <<actionDb, calls>>

\* The agent or execution and its connection are read.
LoadTarget(q) ==
    /\ pc[q] = "loading"
    /\ StatementRuns(q)
    /\ mode # "archived"
    /\ seen' = [seen EXCEPT ![q] = mode]
    /\ pc' = [pc EXCEPT ![q] = "deciding"]
    /\ UNCHANGED <<actionDb, calls, ctx, req>>

\* The target does not exist, or its connection is archived.
LoadTargetFails(q) ==
    /\ pc[q] = "loading"
    /\ Return(q)
    /\ UNCHANGED <<actionDb, calls>>

\* Mutant: no unique index.
InsertAction_Duplicates(q, status) ==
    rows' = [rows EXCEPT ![Key(q)] =
                [status |-> status, op |-> req[q].op, dryRun |-> req[q].dryRun]]

\* The insert of Create: the index on (organization_id, idempotency_key)
\* admits one action per key.
InsertAction(q, status) ==
    /\ rows[Key(q)].status = "none"
    /\ rows' = [rows EXCEPT ![Key(q)] =
                  [status |-> status, op |-> req[q].op, dryRun |-> req[q].dryRun]]

\* Refused: read-only, no adapter, runtime unreachable, action unsupported,
\* deletion not confirmed or system-managed, execution not cancellable.
Reject(q) ==
    /\ pc[q] = "deciding"
    /\ StatementRuns(q)
    /\ InsertAction(q, "rejected")
    /\ ThenGoTo(q, "auditRejected")
    /\ UNCHANGED <<mode, tombstones, audit, calls>>

\* Accepted, which needs a connection that was control-enabled when loaded.
Create(q) ==
    /\ pc[q] = "deciding"
    /\ seen[q] = "control_enabled"
    /\ StatementRuns(q)
    /\ InsertAction(q, "queued")
    /\ ThenGoTo(q, "auditRequested")
    /\ UNCHANGED <<mode, tombstones, audit, calls>>

\* The key is taken, the insert fails, or the agent of the execution is not
\* known and its empty identifier is refused.
CreateFails(q) ==
    /\ pc[q] = "deciding"
    /\ \/ rows[Key(q)].status # "none"
       \/ StatementFails(q)
       \/ req[q].op = "cancel_execution"
    /\ Return(q)
    /\ UNCHANGED <<actionDb, calls>>

\* A dry run is recorded as succeeded; it is audited as such also when the
\* update fails.
FinishDryRun(q) ==
    /\ pc[q] = "dryRun"
    /\ StatementRuns(q)
    /\ SetStatus(q, "succeeded")
    /\ GoTo(q, "auditDryRun")
    /\ UNCHANGED <<mode, tombstones, audit, calls>>

FinishDryRunFails(q) ==
    /\ pc[q] = "dryRun"
    /\ StatementFails(q)
    /\ GoTo(q, "auditDryRun")
    /\ UNCHANGED <<actionDb, calls>>

\* The action is marked as running before the runtime is called.
Start(q) ==
    /\ pc[q] = "starting"
    /\ StatementRuns(q)
    /\ SetStatus(q, "running")
    /\ ThenGoTo(q, "calling")
    /\ UNCHANGED <<mode, tombstones, audit, calls>>

\* Mutant: the error of the update to running is ignored.
StartFails_Ignored(q) ==
    /\ pc[q] = "starting"
    /\ StatementFails(q)
    /\ GoTo(q, "calling")
    /\ UNCHANGED <<actionDb, calls>>

StartFails(q) ==
    /\ pc[q] = "starting"
    /\ StatementFails(q)
    /\ Return(q)
    /\ UNCHANGED <<actionDb, calls>>

\* The runtime carries the change out and says so, or its answer is lost.
CallApplies(q) ==
    /\ pc[q] = "calling"
    /\ StatementRuns(q)
    /\ calls' = [calls EXCEPT ![Key(q)] = @ + 1]
    /\ \/ GoTo(q, IF req[q].op = "delete_agent" THEN "tombstoning" ELSE "succeeding")
       \/ GoTo(q, "failing")
    /\ UNCHANGED actionDb

\* Mutant: an error of the runtime is taken for success.
CallFails_Swallowed(q) ==
    /\ pc[q] = "calling"
    /\ GoTo(q, "succeeding")
    /\ UNCHANGED <<actionDb, calls>>

\* The runtime refuses or is not reached.
CallFails(q) ==
    /\ pc[q] = "calling"
    /\ GoTo(q, "failing")
    /\ UNCHANGED <<actionDb, calls>>

RecordFailure(q) ==
    /\ pc[q] = "failing"
    /\ StatementRuns(q)
    /\ SetStatus(q, "failed")
    /\ GoTo(q, "auditFailed")
    /\ UNCHANGED <<mode, tombstones, audit, calls>>

\* The error of this update is ignored.
RecordFailureFails(q) ==
    /\ pc[q] = "failing"
    /\ StatementFails(q)
    /\ GoTo(q, "auditFailed")
    /\ UNCHANGED <<actionDb, calls>>

\* A deleted agent becomes a tombstone; a failure is only noted in the result.
MarkDeleted(q) ==
    /\ pc[q] = "tombstoning"
    /\ \/ StatementRuns(q) /\ tombstones' = tombstones \cup {Key(q)}
       \/ StatementFails(q) /\ UNCHANGED tombstones
    /\ GoTo(q, "succeeding")
    /\ UNCHANGED <<mode, rows, audit, calls>>

RecordSuccess(q) ==
    /\ pc[q] = "succeeding"
    /\ StatementRuns(q)
    /\ SetStatus(q, "succeeded")
    /\ ThenGoTo(q, "verifying")
    /\ UNCHANGED <<mode, tombstones, audit, calls>>

\* The request ends here: no verification, no audit event.
RecordSuccessFails(q) ==
    /\ pc[q] = "succeeding"
    /\ StatementFails(q)
    /\ Return(q)
    /\ UNCHANGED <<actionDb, calls>>

\* The verification sync (module RuntimeSync); its error is only noted.
Verify(q) ==
    /\ pc[q] = "verifying"
    /\ GoTo(q, "auditSucceeded")
    /\ UNCHANGED <<actionDb, calls>>

\* Mutant: a dry run goes on like any other action.
Audit_NoDryRun(q) ==
    /\ pc[q] \in AuditSteps
    /\ \/ StatementRuns(q) /\ audit' = audit \cup {<<Key(q), AuditEvent(pc[q])>>}
       \/ StatementFails(q) /\ UNCHANGED audit
    /\ IF pc[q] = "auditRequested" THEN GoTo(q, "starting") ELSE Return(q)
    /\ UNCHANGED <<mode, rows, tombstones, calls>>

\* An audit event is written, or its error is ignored; then the request goes
\* on, or returns.
Audit(q) ==
    /\ pc[q] \in AuditSteps
    /\ \/ StatementRuns(q) /\ audit' = audit \cup {<<Key(q), AuditEvent(pc[q])>>}
       \/ StatementFails(q) /\ UNCHANGED audit
    /\ IF pc[q] = "auditRequested"
       THEN GoTo(q, IF req[q].dryRun THEN "dryRun" ELSE "starting")
       ELSE Return(q)
    /\ UNCHANGED <<mode, rows, tombstones, calls>>

Handle(q) ==
    \/ Replay(q) \/ NotFound(q) \/ FindFails(q)
    \/ LoadTarget(q) \/ LoadTargetFails(q)
    \/ Reject(q) \/ Create(q) \/ CreateFails(q)
    \/ FinishDryRun(q) \/ FinishDryRunFails(q)
    \/ Start(q) \/ StartFails(q) \/ CallApplies(q) \/ CallFails(q)
    \/ RecordFailure(q) \/ RecordFailureFails(q)
    \/ MarkDeleted(q) \/ RecordSuccess(q) \/ RecordSuccessFails(q)
    \/ Verify(q) \/ Audit(q)

Cancel(q) ==
    /\ "cancel" \in Faults
    /\ pc[q] # "idle" /\ ctx[q] = "live"
    /\ ctx' = [ctx EXCEPT ![q] = "cancelled"]
    /\ UNCHANGED <<actionDb, calls, pc, req, seen>>

Crash(q) ==
    /\ "crash" \in Faults
    /\ pc[q] # "idle"
    /\ Return(q)
    /\ UNCHANGED <<actionDb, calls>>

\* UpdateSettings changes the mode of a connection, Archive removes it.
ChangeConnection ==
    /\ mode # "archived"
    /\ mode' \in (Modes \cup {"archived"}) \ {mode}
    /\ UNCHANGED <<rows, tombstones, audit, calls, pc, ctx, req, seen>>

Next ==
    \/ \E q \in Requests : Begin(q) \/ Handle(q) \/ Cancel(q) \/ Crash(q)
    \/ ChangeConnection

Spec == Init /\ [][Next]_actionVars

-----------------------------------------------------------------------------
(***************************************************************************)
(* Properties.                                                             *)
(***************************************************************************)

\* The runtime is changed at most once for an idempotency key, whatever
\* duplicates, retries, crashes and lost answers there are.
AtMostOncePerKey == \A k \in Keys : calls[k] <= 1

\* Write-ahead: the runtime is changed only for an action that is stored as
\* running or already finished by the call, never for a rejected one and never
\* for a dry run; and an agent is a tombstone only if the runtime deleted it.
MutationsAreStored ==
    /\ \A k \in Keys : calls[k] > 0 =>
          rows[k].status \in {"running", "succeeded", "failed"} /\ ~rows[k].dryRun
    /\ \A k \in tombstones : calls[k] > 0 /\ rows[k].op = "delete_agent"

\* An action stored as succeeded has changed the runtime, unless a dry run.
SucceededMeansApplied ==
    \A k \in Keys : rows[k].status = "succeeded" /\ ~rows[k].dryRun => calls[k] = 1

\* The audit trail never contradicts the stored action.
ActionAuditAgrees ==
    \A e \in audit :
        LET row == rows[e[1]]
        IN  /\ row.status # "none"
            /\ e[2] = "rejected" <=> row.status = "rejected"
            /\ e[2] = "succeeded" => row.status = "succeeded" /\ ~row.dryRun
            /\ e[2] = "failed" => row.status \in {"running", "failed"}
            /\ e[2] = "dry_run_succeeded" => row.dryRun /\ calls[e[1]] = 0

\* A finished action is never changed, nor is what was asked for.
FinishedIsFinal ==
    [][\A k \in Keys :
          /\ rows[k].status \in Terminal => rows'[k] = rows[k]
          /\ rows[k].status # "none" => rows'[k].op = rows[k].op /\ rows'[k].dryRun = rows[k].dryRun]_rows

Ledger == INSTANCE ActionLedger

\* The requests together keep one ledger: each of their statements and calls of the
\* runtime is a step of it or leaves it alone, whoever races, retries or dies
\* (ReconcileAccess, SetAgentStatus, DeleteAgent, CancelExecution).
LedgerSpec == Ledger!Spec
=============================================================================
