------------------------- MODULE ControlActions_proofs -------------------------
(***************************************************************************)
(* Proofs about ControlActions, for any number of requests and keys, and   *)
(* for every fault.  The argument: the unique index gives each key to at   *)
(* most one request, which alone moves the stored action along; where that *)
(* request is says what the action's status is and whether the runtime has *)
(* been called.  Nothing final has been audited of an action that still    *)
(* has an owner, so what the owner does is a step of the ledger.           *)
(***************************************************************************)
EXTENDS ControlActions, TLAPS

\* A request in progress has an input.
HasInput == \A q \in Requests : pc[q] # "idle" => req[q] \in Inputs

ActionTypeInv == ActionTypeOK /\ HasInput

\* The steps after the action of the request has been stored.
Owning == AuditSteps \cup {"dryRun", "starting", "calling", "failing",
                           "tombstoning", "succeeding", "verifying"}

\* No two requests own the same key.
KeyOwned ==
    \A p, q \in Requests :
        pc[p] \in Owning /\ pc[q] \in Owning /\ req[p].key = req[q].key => p = q

\* What the owner's step says about its stored action.
RowAt(q) ==
    LET row == rows[req[q].key] IN
    /\ pc[q] \in Owning => row.op = req[q].op /\ row.dryRun = req[q].dryRun
    /\ pc[q] \in {"auditRequested", "dryRun", "starting"} => row.status = "queued"
    /\ pc[q] \in {"calling", "failing", "tombstoning", "succeeding"} => row.status = "running"
    /\ pc[q] \in {"verifying", "auditSucceeded"} => row.status = "succeeded"
    /\ pc[q] = "auditRejected" => row.status = "rejected"
    /\ pc[q] = "auditFailed" => row.status \in {"running", "failed"}
    /\ pc[q] = "auditDryRun" => row.status \in {"queued", "succeeded"}
    /\ pc[q] \in {"dryRun", "auditDryRun"} => req[q].dryRun
    /\ pc[q] \in {"starting", "calling", "failing", "tombstoning", "succeeding", "verifying",
                  "auditFailed", "auditSucceeded"} => ~req[q].dryRun
    /\ pc[q] = "tombstoning" => req[q].op = "delete_agent"

RowAtStep == \A q \in Requests : RowAt(q)

\* What the owner's step says about the calls of the runtime.
CallsAtStep ==
    \A q \in Requests :
        /\ pc[q] = "calling" => calls[req[q].key] = 0
        /\ pc[q] \in {"tombstoning", "succeeding", "verifying", "auditSucceeded"} =>
              calls[req[q].key] = 1

\* After its last audit event an action has no owner any more.
AuditedHasNoOwner ==
    \A e \in audit : e[2] # "requested" =>
        \A q \in Requests : pc[q] \in Owning => req[q].key # e[1]

ActionInv ==
    /\ ActionTypeInv /\ KeyOwned /\ RowAtStep /\ CallsAtStep /\ AuditedHasNoOwner
    /\ AtMostOncePerKey /\ MutationsAreStored /\ SucceededMeansApplied /\ ActionAuditAgrees

-----------------------------------------------------------------------------
\* The initial state satisfies every part of the invariant.
LEMMA ActionInit == Init => ActionInv
<1> SUFFICES ASSUME Init PROVE ActionInv
    OBVIOUS
<1>1. ActionTypeInv
    BY DEF Init, ActionTypeInv, ActionTypeOK, HasInput, Modes, ActionRow, NoRow, ActionSteps
<1>2. KeyOwned /\ RowAtStep /\ CallsAtStep /\ AuditedHasNoOwner
    BY DEF Init, KeyOwned, RowAtStep, RowAt, CallsAtStep, AuditedHasNoOwner, Owning, AuditSteps
<1>3. AtMostOncePerKey /\ MutationsAreStored /\ SucceededMeansApplied /\ ActionAuditAgrees
    BY DEF Init, AtMostOncePerKey, MutationsAreStored, SucceededMeansApplied, ActionAuditAgrees, NoRow
<1> QED  BY <1>1, <1>2, <1>3 DEF ActionInv

\* Every step keeps the state well typed.
LEMMA ActionTypeStep == ActionTypeInv /\ [Next]_actionVars => ActionTypeInv'
<1> SUFFICES ASSUME ActionTypeInv, [Next]_actionVars PROVE ActionTypeInv'
    OBVIOUS
<1> USE DEF ActionTypeInv, ActionTypeOK, HasInput, ActionSteps, AuditSteps, Modes
<1>k. \A q \in Requests : pc[q] # "idle" => Key(q) \in Keys /\ req[q].op \in Operations
                                            /\ req[q].dryRun \in BOOLEAN
    BY DEF Key, Inputs
<1>r. ASSUME NEW q \in Requests, Return(q), UNCHANGED <<actionDb, calls>> PROVE ActionTypeInv'
    BY <1>r DEF Return, actionDb
<1>g. ASSUME NEW q \in Requests, pc[q] # "idle", NEW step \in ActionSteps, GoTo(q, step),
             UNCHANGED <<actionDb, calls>>
      PROVE  ActionTypeInv'
    BY <1>g DEF GoTo, actionDb
<1>w. ASSUME NEW q \in Requests, pc[q] # "idle", NEW step \in ActionSteps,
             GoTo(q, step) \/ Return(q), UNCHANGED <<mode, tombstones, audit, calls>>,
             rows' \in [Keys -> ActionRow]
      PROVE  ActionTypeInv'
    BY <1>w DEF GoTo, Return
<1>s. ASSUME NEW q \in Requests, pc[q] # "idle",
             NEW st \in {"running", "succeeded", "failed"}, SetStatus(q, st)
      PROVE  rows' \in [Keys -> ActionRow]
    BY <1>s, <1>k DEF SetStatus, ActionRow, Terminal
<1>i. ASSUME NEW q \in Requests, pc[q] # "idle",
             NEW st \in {"queued", "rejected"}, InsertAction(q, st)
      PROVE  rows' \in [Keys -> ActionRow]
    BY <1>i, <1>k DEF InsertAction, ActionRow, Terminal
<1>1. ASSUME NEW q \in Requests, Begin(q) PROVE ActionTypeInv'
    BY <1>1 DEF Begin, actionDb
<1>2. ASSUME NEW q \in Requests,
             Replay(q) \/ FindFails(q) \/ LoadTargetFails(q) \/ CreateFails(q) \/ StartFails(q)
             \/ RecordSuccessFails(q) \/ Crash(q)
      PROVE  ActionTypeInv'
    BY <1>2, <1>r DEF Replay, FindFails, LoadTargetFails, CreateFails, StartFails,
                      RecordSuccessFails, Crash
<1>3. ASSUME NEW q \in Requests,
             NotFound(q) \/ FinishDryRunFails(q) \/ CallFails(q) \/ RecordFailureFails(q) \/ Verify(q)
      PROVE  ActionTypeInv'
    BY <1>3, <1>g DEF NotFound, FinishDryRunFails, CallFails, RecordFailureFails, Verify
<1>4. ASSUME NEW q \in Requests, LoadTarget(q) PROVE ActionTypeInv'
    BY <1>4 DEF LoadTarget, actionDb
<1>5. ASSUME NEW q \in Requests, Reject(q) \/ Create(q) PROVE ActionTypeInv'
    BY <1>5, <1>i, <1>w DEF Reject, Create, ThenGoTo
<1>6. ASSUME NEW q \in Requests, FinishDryRun(q) \/ Start(q) \/ RecordFailure(q) \/ RecordSuccess(q)
      PROVE  ActionTypeInv'
    BY <1>6, <1>s, <1>w DEF FinishDryRun, Start, RecordFailure, RecordSuccess, ThenGoTo
<1>7. ASSUME NEW q \in Requests, CallApplies(q) PROVE ActionTypeInv'
    <2>1. calls' \in [Keys -> Nat]
        BY <1>7, <1>k DEF CallApplies
    <2>2. PICK step \in {"tombstoning", "succeeding", "failing"} : GoTo(q, step)
        BY <1>7 DEF CallApplies
    <2> QED  BY <1>7, <2>1, <2>2 DEF CallApplies, GoTo, actionDb
<1>8. ASSUME NEW q \in Requests, MarkDeleted(q) PROVE ActionTypeInv'
    BY <1>8, <1>k DEF MarkDeleted, GoTo
<1>9. ASSUME NEW q \in Requests, Audit(q) PROVE ActionTypeInv'
    <2>1. audit' \subseteq Keys \X Events
        BY <1>9, <1>k DEF Audit, AuditEvent, Events
    <2>2. \/ \E step \in {"dryRun", "starting"} : GoTo(q, step)
          \/ Return(q)
        BY <1>9 DEF Audit
    <2> QED  BY <1>9, <2>1, <2>2 DEF Audit, GoTo, Return
<1>10. ASSUME NEW q \in Requests, Cancel(q) PROVE ActionTypeInv'
    BY <1>10 DEF Cancel, actionDb
<1>11. CASE ChangeConnection
    BY <1>11 DEF ChangeConnection
<1>12. CASE UNCHANGED actionVars
    BY <1>12 DEF actionVars, actionDb
<1> QED
    BY <1>1, <1>2, <1>3, <1>4, <1>5, <1>6, <1>7, <1>8, <1>9, <1>10, <1>11, <1>12 DEF Next, Handle

-----------------------------------------------------------------------------
\* Every step of a request, and every fault, keeps the owner's step, the
\* stored action, the calls and the audit trail in agreement.
LEMMA ActionStep == ActionInv /\ [Next]_actionVars => ActionInv'
<1> SUFFICES ASSUME ActionInv, [Next]_actionVars PROVE ActionInv'
    OBVIOUS
<1>t. ActionTypeInv /\ ActionTypeInv'
    BY ActionTypeStep DEF ActionInv
<1> DEFINE Owned == KeyOwned /\ RowAtStep /\ CallsAtStep /\ AuditedHasNoOwner
           Outer == AtMostOncePerKey /\ MutationsAreStored /\ SucceededMeansApplied /\ ActionAuditAgrees
<1>f. Owned /\ Outer
    BY DEF ActionInv
<1>x. SUFFICES Owned' /\ Outer'
    BY <1>t DEF ActionInv
<1>y. /\ rows \in [Keys -> ActionRow] /\ calls \in [Keys -> Nat]
      /\ pc \in [Requests -> ActionSteps] /\ req \in [Requests -> Inputs \cup {NoRequest}]
      /\ audit \subseteq Keys \X Events /\ tombstones \subseteq Keys
      /\ \A q \in Requests : pc[q] \in Owning => req[q].key \in Keys
      /\ \A q \in Requests : pc[q] # "idle" => req[q] \in Inputs
    BY <1>t DEF ActionTypeInv, ActionTypeOK, HasInput, Inputs, Owning, AuditSteps
<1> HIDE DEF Owned, Outer
\* A step after which q owns nothing, and which stores nothing.
<1>1. ASSUME NEW q \in Requests, UNCHANGED <<rows, calls, tombstones, audit>>,
             pc'[q] \notin Owning, \A p \in Requests \ {q} : pc'[p] = pc[p] /\ req'[p] = req[p]
      PROVE  Owned' /\ Outer'
    <2>1. Outer'
        BY <1>1, <1>f DEF Outer, AtMostOncePerKey, MutationsAreStored, SucceededMeansApplied,
                          ActionAuditAgrees
    <2>2. Owned'
        BY <1>1, <1>f DEF Owned, KeyOwned, RowAtStep, RowAt, CallsAtStep, AuditedHasNoOwner, Owning, AuditSteps
    <2> QED  BY <2>1, <2>2
\* The requests other than q own other keys.
<1>2. ASSUME NEW q \in Requests, pc[q] \in Owning
      PROVE  /\ \A p \in Requests : pc[p] \in Owning /\ p # q => req[p].key # req[q].key
             /\ \A e \in audit : e[2] # "requested" => e[1] # req[q].key
    BY <1>2, <1>f DEF Owned, KeyOwned, AuditedHasNoOwner
\* The owner changes the status of its action.
<1>3. ASSUME NEW q \in Requests, pc[q] \in Owning,
             NEW st \in {"running", "succeeded", "failed"}, SetStatus(q, st),
             UNCHANGED <<calls, tombstones, audit>>, pc'[q] # "idle" => req'[q] = req[q],
             \A p \in Requests \ {q} : pc'[p] = pc[p] /\ req'[p] = req[p],
             \/ /\ pc[q] = "dryRun" /\ st = "succeeded" /\ pc'[q] = "auditDryRun"
             \/ /\ pc[q] = "starting" /\ st = "running" /\ pc'[q] \in {"calling", "idle"}
             \/ /\ pc[q] = "failing" /\ st = "failed" /\ pc'[q] = "auditFailed"
             \/ /\ pc[q] = "succeeding" /\ st = "succeeded" /\ pc'[q] \in {"verifying", "idle"}
      PROVE  Owned' /\ Outer'
    <2> DEFINE k == req[q].key
    <2>0. k \in Keys
        BY <1>3, <1>y
    <2>1. /\ rows'[k].status = st /\ rows'[k].op = rows[k].op /\ rows'[k].dryRun = rows[k].dryRun
          /\ \A j \in Keys \ {k} : rows'[j] = rows[j]
        BY <1>3, <1>y, <2>0 DEF SetStatus, Key, ActionRow
    <2>2. Outer'
        <3>1. AtMostOncePerKey' /\ MutationsAreStored'
            BY <1>3, <1>f, <1>y, <2>0, <2>1
               DEF Outer, Owned, AtMostOncePerKey, MutationsAreStored, RowAtStep, RowAt
        <3>2. SucceededMeansApplied'
            BY <1>3, <1>f, <1>y, <2>0, <2>1
               DEF Outer, Owned, SucceededMeansApplied, RowAtStep, RowAt, CallsAtStep, Owning
        <3>3. ActionAuditAgrees'
            BY <1>2, <1>3, <1>f, <1>y, <2>0, <2>1
               DEF Outer, Owned, ActionAuditAgrees, RowAtStep, RowAt
        <3> QED  BY <3>1, <3>2, <3>3 DEF Outer
    <2>3. KeyOwned' /\ AuditedHasNoOwner'
        BY <1>2, <1>3, <1>f, <2>0 DEF Owned, KeyOwned, AuditedHasNoOwner, Owning, AuditSteps
    <2>4. CallsAtStep'
        BY <1>3, <1>f, <1>y, <2>0
           DEF Owned, Outer, CallsAtStep, RowAtStep, RowAt, MutationsAreStored, Owning, AuditSteps
    <2>5. RowAtStep'
        <3> SUFFICES ASSUME NEW p \in Requests, pc'[p] \in Owning
                     PROVE  RowAt(p)'
            BY DEF RowAtStep, RowAt, Owning, AuditSteps
        <3>1. CASE p = q
            BY <3>1, <1>3, <1>f, <2>0, <2>1 DEF Owned, RowAtStep, RowAt, Owning, AuditSteps
        <3>2. CASE p # q
            BY <3>2, <1>2, <1>3, <1>f, <1>y, <2>0, <2>1 DEF Owned, RowAtStep, RowAt, Owning, AuditSteps
        <3> QED  BY <3>1, <3>2
    <2> QED  BY <2>2, <2>3, <2>4, <2>5 DEF Owned
\* The owner's step is stored.
<1>4. ASSUME NEW q \in Requests, Reject(q) \/ Create(q) PROVE Owned' /\ Outer'
    <2> DEFINE k == req[q].key
    <2>0. /\ k \in Keys /\ pc[q] = "deciding" /\ UNCHANGED <<calls, tombstones, audit>>
          /\ req[q].op \in Operations /\ req[q].dryRun \in BOOLEAN
        BY <1>4, <1>y DEF Reject, Create, Inputs
    <2>1. PICK st \in {"queued", "rejected"} :
             /\ InsertAction(q, st)
             /\ \/ Return(q)
                \/ st = "queued" /\ GoTo(q, "auditRequested")
                \/ st = "rejected" /\ GoTo(q, "auditRejected")
        BY <1>4 DEF Reject, Create, ThenGoTo
    <2>2. /\ rows[k].status = "none" /\ rows'[k].status = st
          /\ rows'[k].op = req[q].op /\ rows'[k].dryRun = req[q].dryRun
          /\ \A j \in Keys \ {k} : rows'[j] = rows[j]
        BY <2>0, <2>1, <1>y DEF InsertAction, Key
    <2>3. calls[k] = 0 /\ k \notin tombstones /\ \A e \in audit : e[1] # k
        BY <1>f, <1>y, <2>0, <2>2 DEF Outer, MutationsAreStored, ActionAuditAgrees
    <2>4. \A p \in Requests : pc[p] \in Owning => req[p].key # k
        BY <1>f, <2>2 DEF Owned, RowAtStep, RowAt, Owning, AuditSteps
    <2>5. \A p \in Requests \ {q} : pc'[p] = pc[p] /\ req'[p] = req[p]
        BY <2>1, <1>y DEF GoTo, Return
    <2>6. \/ pc'[q] = "idle"
          \/ req'[q] = req[q] /\ st = "queued" /\ pc'[q] = "auditRequested"
          \/ req'[q] = req[q] /\ st = "rejected" /\ pc'[q] = "auditRejected"
        BY <2>1, <1>y DEF GoTo, Return
    <2>7. Outer'
        BY <1>f, <1>y, <2>0, <2>2, <2>3
           DEF Outer, AtMostOncePerKey, MutationsAreStored, SucceededMeansApplied, ActionAuditAgrees
    <2>8. KeyOwned' /\ AuditedHasNoOwner' /\ CallsAtStep'
        BY <1>f, <2>0, <2>3, <2>4, <2>5, <2>6
           DEF Owned, KeyOwned, AuditedHasNoOwner, CallsAtStep, Owning, AuditSteps
    <2>9. RowAtStep'
        BY <1>f, <1>y, <2>0, <2>2, <2>4, <2>5, <2>6 DEF Owned, RowAtStep, RowAt, Owning, AuditSteps
    <2> QED  BY <2>7, <2>8, <2>9 DEF Owned
\* The runtime is called by the owner of a running action, once.
<1>5. ASSUME NEW q \in Requests, CallApplies(q) PROVE Owned' /\ Outer'
    <2> DEFINE k == req[q].key
    <2>0. /\ pc[q] = "calling" /\ pc[q] \in Owning /\ k \in Keys
          /\ UNCHANGED <<rows, tombstones, audit, req>>
        BY <1>5, <1>y DEF CallApplies, Owning, actionDb, GoTo
    <2>1. calls[k] = 0 /\ rows[k].status = "running" /\ ~rows[k].dryRun /\ rows[k].op = req[q].op
        BY <1>f, <2>0 DEF Owned, CallsAtStep, RowAtStep, RowAt
    <2>2. calls'[k] = 1 /\ \A j \in Keys \ {k} : calls'[j] = calls[j]
        BY <1>5, <1>y, <2>0, <2>1 DEF CallApplies, Key
    <2>3. /\ \/ pc'[q] = "tombstoning" /\ req[q].op = "delete_agent"
             \/ pc'[q] \in {"succeeding", "failing"}
          /\ \A p \in Requests \ {q} : pc'[p] = pc[p]
        BY <1>5, <1>y DEF CallApplies, GoTo
    <2>4. Outer'
        BY <1>2, <1>f, <1>y, <2>0, <2>1, <2>2
           DEF Outer, AtMostOncePerKey, MutationsAreStored, SucceededMeansApplied, ActionAuditAgrees
    <2>5. KeyOwned' /\ AuditedHasNoOwner' /\ RowAtStep'
        BY <1>f, <2>0, <2>1, <2>3
           DEF Owned, KeyOwned, AuditedHasNoOwner, RowAtStep, RowAt, Owning, AuditSteps
    <2>6. CallsAtStep'
        BY <1>2, <1>f, <1>y, <2>0, <2>2, <2>3 DEF Owned, CallsAtStep, Owning, AuditSteps
    <2> QED  BY <2>4, <2>5, <2>6 DEF Owned
\* The owner goes on without storing anything.
<1>6. ASSUME NEW q \in Requests, UNCHANGED <<rows, calls, tombstones, audit, req>>,
             \A p \in Requests \ {q} : pc'[p] = pc[p],
             \/ pc[q] = "dryRun" /\ pc'[q] = "auditDryRun"
             \/ pc[q] = "calling" /\ pc'[q] = "failing"
             \/ pc[q] = "failing" /\ pc'[q] = "auditFailed"
             \/ pc[q] = "verifying" /\ pc'[q] = "auditSucceeded"
      PROVE  Owned' /\ Outer'
    <2>1. Outer'
        BY <1>6, <1>f DEF Outer, AtMostOncePerKey, MutationsAreStored, SucceededMeansApplied,
                          ActionAuditAgrees
    <2>2. Owned'
        BY <1>6, <1>f DEF Owned, KeyOwned, RowAtStep, RowAt, CallsAtStep, AuditedHasNoOwner,
                          Owning, AuditSteps
    <2> QED  BY <2>1, <2>2
\* Only a delete the runtime has carried out leaves a tombstone.
<1>7. ASSUME NEW q \in Requests, MarkDeleted(q) PROVE Owned' /\ Outer'
    <2>1. /\ pc[q] = "tombstoning" /\ pc'[q] = "succeeding" /\ tombstones' \subseteq tombstones \cup {req[q].key}
          /\ UNCHANGED <<rows, calls, audit, req>> /\ \A p \in Requests \ {q} : pc'[p] = pc[p]
        BY <1>7, <1>y DEF MarkDeleted, GoTo, Key
    <2>2. req[q].key \in Keys /\ calls[req[q].key] = 1 /\ rows[req[q].key].op = "delete_agent"
        BY <1>f, <1>y, <2>1 DEF Owned, CallsAtStep, RowAtStep, RowAt, Owning
    <2>3. Outer'
        BY <1>f, <1>y, <2>1, <2>2 DEF Outer, AtMostOncePerKey, MutationsAreStored, SucceededMeansApplied,
                                      ActionAuditAgrees
    <2>4. Owned'
        BY <2>1, <1>f DEF Owned, KeyOwned, RowAtStep, RowAt, CallsAtStep, AuditedHasNoOwner,
                          Owning, AuditSteps
    <2> QED  BY <2>3, <2>4
\* Audit events.
<1>8. ASSUME NEW q \in Requests, Audit(q) PROVE Owned' /\ Outer'
    <2> DEFINE k == req[q].key
    <2>0. /\ pc[q] \in Owning /\ k \in Keys /\ UNCHANGED <<rows, tombstones, calls>>
          /\ audit' \subseteq audit \cup {<<k, AuditEvent(pc[q])>>}
        BY <1>8, <1>y DEF Audit, Owning, Key
    <2>1. \A p \in Requests \ {q} : pc'[p] = pc[p] /\ req'[p] = req[p]
        BY <1>8, <1>y DEF Audit, GoTo, Return
    <2>2. \/ /\ pc[q] = "auditRequested" /\ req'[q] = req[q]
             /\ \/ pc'[q] = "dryRun" /\ req[q].dryRun
                \/ pc'[q] = "starting" /\ ~req[q].dryRun
          \/ pc[q] \in AuditSteps \ {"auditRequested"} /\ pc'[q] = "idle"
        BY <1>8, <1>y DEF Audit, GoTo, Return
    <2>3. AtMostOncePerKey' /\ MutationsAreStored' /\ SucceededMeansApplied'
        BY <2>0, <1>f DEF Outer, AtMostOncePerKey, MutationsAreStored, SucceededMeansApplied
    <2>4. ActionAuditAgrees'
        <3>1. \A e \in audit : /\ rows'[e[1]] = rows[e[1]] /\ calls'[e[1]] = calls[e[1]]
            BY <2>0
        <3>2. \/ pc[q] = "auditRequested" /\ AuditEvent(pc[q]) = "requested" /\ rows[k].status = "queued"
              \/ pc[q] = "auditRejected" /\ AuditEvent(pc[q]) = "rejected" /\ rows[k].status = "rejected"
              \/ pc[q] = "auditDryRun" /\ AuditEvent(pc[q]) = "dry_run_succeeded" /\ rows[k].dryRun
                 /\ rows[k].status \in {"queued", "succeeded"}
              \/ pc[q] = "auditFailed" /\ AuditEvent(pc[q]) = "failed"
                 /\ rows[k].status \in {"running", "failed"}
              \/ pc[q] = "auditSucceeded" /\ AuditEvent(pc[q]) = "succeeded" /\ ~rows[k].dryRun
                 /\ rows[k].status = "succeeded"
            BY <2>0, <2>2, <1>f DEF Owned, RowAtStep, RowAt, AuditEvent, AuditSteps
        <3>3. rows[k].dryRun => calls[k] = 0
            BY <2>0, <1>f, <1>y DEF Outer, MutationsAreStored
        <3> QED  BY <2>0, <3>2, <3>3, <1>f DEF Outer, ActionAuditAgrees
    <2>5. KeyOwned' /\ RowAtStep' /\ CallsAtStep'
        BY <2>0, <2>1, <2>2, <1>f
           DEF Owned, KeyOwned, RowAtStep, RowAt, CallsAtStep, Owning, AuditSteps
    <2>6. AuditedHasNoOwner'
        <3>1. AuditEvent(pc[q]) # "requested" => pc'[q] = "idle"
            BY <2>2 DEF AuditEvent, AuditSteps
        <3> QED  BY <1>2, <2>0, <2>1, <2>2, <3>1, <1>f DEF Owned, AuditedHasNoOwner, Owning, AuditSteps
    <2> QED  BY <2>3, <2>4, <2>5, <2>6 DEF Owned, Outer
<1>9. ASSUME NEW q \in Requests, Begin(q) \/ NotFound(q) \/ LoadTarget(q) PROVE Owned' /\ Outer'
    BY <1>1, <1>9, <1>y DEF Begin, NotFound, LoadTarget, GoTo, actionDb, Owning, AuditSteps
<1>10. ASSUME NEW q \in Requests,
              Replay(q) \/ FindFails(q) \/ LoadTargetFails(q) \/ CreateFails(q) \/ StartFails(q)
              \/ RecordSuccessFails(q) \/ Crash(q)
       PROVE  Owned' /\ Outer'
    BY <1>1, <1>10, <1>y DEF Replay, FindFails, LoadTargetFails, CreateFails, StartFails,
                       RecordSuccessFails, Crash, Return, actionDb, Owning, AuditSteps
<1>11. ASSUME NEW q \in Requests,
              FinishDryRunFails(q) \/ CallFails(q) \/ RecordFailureFails(q) \/ Verify(q)
       PROVE  Owned' /\ Outer'
    BY <1>6, <1>11, <1>y DEF FinishDryRunFails, CallFails, RecordFailureFails, Verify, GoTo, actionDb
<1>12. ASSUME NEW q \in Requests, FinishDryRun(q) \/ Start(q) \/ RecordFailure(q) \/ RecordSuccess(q)
       PROVE  Owned' /\ Outer'
    BY <1>3, <1>12, <1>y DEF FinishDryRun, Start, RecordFailure, RecordSuccess, ThenGoTo, GoTo, Return,
                             Owning
<1>13. ASSUME UNCHANGED <<rows, calls, tombstones, audit, pc, req>> PROVE Owned' /\ Outer'
    BY <1>13, <1>f DEF Owned, Outer, KeyOwned, RowAtStep, RowAt, CallsAtStep, AuditedHasNoOwner,
                       AtMostOncePerKey, MutationsAreStored, SucceededMeansApplied, ActionAuditAgrees
<1>14. ASSUME NEW q \in Requests, Cancel(q) PROVE Owned' /\ Outer'
    BY <1>13, <1>14 DEF Cancel, actionDb
<1>15. CASE ChangeConnection
    BY <1>13, <1>15 DEF ChangeConnection
<1>16. CASE UNCHANGED actionVars
    BY <1>13, <1>16 DEF actionVars, actionDb
<1> QED
    BY <1>4, <1>5, <1>7, <1>8, <1>9, <1>10, <1>11, <1>12, <1>14, <1>15, <1>16 DEF Next, Handle

-----------------------------------------------------------------------------
\* Every reachable state of the control actions is well typed.
THEOREM ActionTypeCorrect == Spec => []ActionTypeOK
<1>1. ActionInv => ActionTypeOK  BY DEF ActionInv, ActionTypeInv
<1> QED  BY ActionInit, ActionStep, <1>1, PTL DEF Spec

\* For any number of concurrent requests with the same idempotency key, and
\* under cancellation, crashes, failed statements and lost acknowledgements,
\* the runtime is changed at most once for the key.
THEOREM AtMostOnce == Spec => []AtMostOncePerKey
<1>1. ActionInv => AtMostOncePerKey  BY DEF ActionInv
<1> QED  BY ActionInit, ActionStep, <1>1, PTL DEF Spec

\* The runtime is never changed for a dry run, a rejected action or an action
\* that is not stored.
THEOREM StoredFirst == Spec => []MutationsAreStored
<1>1. ActionInv => MutationsAreStored  BY DEF ActionInv
<1> QED  BY ActionInit, ActionStep, <1>1, PTL DEF Spec

\* Success is only stored for what was carried out on the runtime.
THEOREM SuccessIsApplied == Spec => []SucceededMeansApplied
<1>1. ActionInv => SucceededMeansApplied  BY DEF ActionInv
<1> QED  BY ActionInit, ActionStep, <1>1, PTL DEF Spec

\* The audit trail of a control action never contradicts the stored action.
THEOREM ActionAuditCorrect == Spec => []ActionAuditAgrees
<1>1. ActionInv => ActionAuditAgrees  BY DEF ActionInv
<1> QED  BY ActionInit, ActionStep, <1>1, PTL DEF Spec

\* A finished action is never changed again, and no action is ever turned into
\* another one: only the owner of a key writes to its action.
THEOREM FinalCorrect == Spec => FinishedIsFinal
<1> DEFINE Kept ==
        \A k \in Keys :
            /\ rows[k].status \in Terminal => rows'[k] = rows[k]
            /\ rows[k].status # "none" => rows'[k].op = rows[k].op /\ rows'[k].dryRun = rows[k].dryRun
<1>1. ActionInv /\ [Next]_actionVars => [Kept]_rows
    <2> SUFFICES ASSUME ActionInv, [Next]_actionVars, rows' # rows PROVE Kept
        OBVIOUS
    <2>y. /\ rows \in [Keys -> ActionRow]
          /\ \A q \in Requests : pc[q] # "idle" => Key(q) \in Keys
        BY DEF ActionInv, ActionTypeInv, ActionTypeOK, HasInput, Inputs, Key
    <2>1. PICK q \in Requests :
             \/ pc[q] = "deciding" /\ \E st \in {"queued", "rejected"} : InsertAction(q, st)
             \/ /\ pc[q] \in {"dryRun", "starting", "failing", "succeeding"}
                /\ \E st \in {"running", "succeeded", "failed"} : SetStatus(q, st)
        BY DEF Next, Handle, actionVars, actionDb, Begin, Replay, NotFound, FindFails, LoadTarget,
               LoadTargetFails, Reject, Create, CreateFails, FinishDryRun, FinishDryRunFails, Start,
               StartFails, CallApplies, CallFails, RecordFailure, RecordFailureFails, MarkDeleted,
               RecordSuccess, RecordSuccessFails, Verify, Audit, Cancel, Crash, ChangeConnection
    <2>2. CASE pc[q] = "deciding" /\ \E st \in {"queued", "rejected"} : InsertAction(q, st)
        BY <2>2, <2>y DEF InsertAction, Terminal
    <2>3. CASE /\ pc[q] \in {"dryRun", "starting", "failing", "succeeding"}
               /\ \E st \in {"running", "succeeded", "failed"} : SetStatus(q, st)
        <3>1. rows[Key(q)].status \in {"queued", "running"}
            BY <2>3 DEF ActionInv, RowAtStep, RowAt, Key
        <3> QED  BY <2>3, <2>y, <3>1 DEF SetStatus, ActionRow, Terminal
    <2> QED  BY <2>1, <2>2, <2>3
<1> QED  BY ActionInit, ActionStep, <1>1, PTL DEF Spec, FinishedIsFinal

-----------------------------------------------------------------------------
\* Whoever owns a key finds its ledger entry open.
LEMMA OwnerOpen ==
    ASSUME ActionInv, NEW q \in Requests, pc[q] \in Owning
    PROVE  /\ Key(q) \in Keys /\ ~Ledger!Closed(Key(q)) /\ RowAt(q)
           /\ pc[q] = "calling" => calls[Key(q)] = 0
           /\ pc[q] \in {"tombstoning", "succeeding"} => calls[Key(q)] = 1
<1>1. Key(q) \in Keys
    BY DEF ActionInv, ActionTypeInv, HasInput, Owning, AuditSteps, Inputs, Key
<1>2. ~Ledger!Closed(Key(q))
    BY DEF ActionInv, AuditedHasNoOwner, Ledger!Closed, Key
<1> QED  BY <1>1, <1>2 DEF ActionInv, RowAtStep, CallsAtStep, Key

\* Each step of a request is one of the ledger, or leaves it alone.
LEMMA LedgerStep ==
    ActionInv /\ [Next]_actionVars => [Ledger!Next]_<<rows, calls, tombstones, audit>>
<1> SUFFICES ASSUME ActionInv, [Next]_actionVars
             PROVE  Ledger!Next \/ UNCHANGED <<rows, calls, tombstones, audit>>
    OBVIOUS
<1>y. /\ calls \in [Keys -> Nat]
      /\ \A q \in Requests : pc[q] # "idle" => req[q] \in Inputs /\ Key(q) \in Keys
    BY DEF ActionInv, ActionTypeInv, ActionTypeOK, HasInput, Inputs, Key
<1>1. ASSUME NEW q \in Requests, Reject(q) \/ Create(q) PROVE Ledger!Next
    <2>1. PICK status \in {"queued", "rejected"} : InsertAction(q, status)
        BY <1>1 DEF Reject, Create
    <2>2. req[q].op \in Operations /\ req[q].dryRun \in BOOLEAN /\ Key(q) \in Keys
        BY <1>1, <1>y DEF Reject, Create, Inputs
    <2>3. UNCHANGED <<calls, tombstones, audit>>
        BY <1>1 DEF Reject, Create
    <2>4. Ledger!Enter(Key(q))
        BY <2>1, <2>2, <2>3 DEF InsertAction, Ledger!Enter
    <2> QED  BY <2>2, <2>4 DEF Ledger!Next
<1>2. ASSUME NEW q \in Requests, FinishDryRun(q) PROVE Ledger!Next
    <2>1. pc[q] = "dryRun" /\ SetStatus(q, "succeeded") /\ UNCHANGED <<calls, tombstones, audit>>
        BY <1>2 DEF FinishDryRun
    <2>2. /\ Key(q) \in Keys /\ ~Ledger!Closed(Key(q))
          /\ rows[Key(q)].status = "queued" /\ rows[Key(q)].dryRun
        BY <2>1, OwnerOpen DEF Owning, RowAt, Key
    <2>3. Ledger!FinishDryRun(Key(q))
        BY <2>1, <2>2 DEF SetStatus, Ledger!FinishDryRun, Ledger!Move
    <2> QED  BY <2>2, <2>3 DEF Ledger!Next
<1>3. ASSUME NEW q \in Requests, Start(q) PROVE Ledger!Next
    <2>1. pc[q] = "starting" /\ SetStatus(q, "running") /\ UNCHANGED <<calls, tombstones, audit>>
        BY <1>3 DEF Start
    <2>2. /\ Key(q) \in Keys /\ ~Ledger!Closed(Key(q))
          /\ rows[Key(q)].status = "queued" /\ ~rows[Key(q)].dryRun
        BY <2>1, OwnerOpen DEF Owning, RowAt, Key
    <2>3. Ledger!Start(Key(q))
        BY <2>1, <2>2 DEF SetStatus, Ledger!Start, Ledger!Move
    <2> QED  BY <2>2, <2>3 DEF Ledger!Next
<1>4. ASSUME NEW q \in Requests, CallApplies(q) PROVE Ledger!Next
    <2>1. /\ pc[q] = "calling" /\ calls' = [calls EXCEPT ![Key(q)] = calls[Key(q)] + 1]
          /\ UNCHANGED <<rows, tombstones, audit>>
        BY <1>4 DEF CallApplies, actionDb
    <2>2. /\ Key(q) \in Keys /\ ~Ledger!Closed(Key(q))
          /\ rows[Key(q)].status = "running" /\ calls[Key(q)] = 0
        BY <2>1, OwnerOpen DEF Owning, RowAt, Key
    <2>3. Ledger!Apply(Key(q))
        BY <2>1, <2>2 DEF Ledger!Apply
    <2> QED  BY <2>2, <2>3 DEF Ledger!Next
<1>5. ASSUME NEW q \in Requests, RecordFailure(q) PROVE Ledger!Next
    <2>1. pc[q] = "failing" /\ SetStatus(q, "failed") /\ UNCHANGED <<calls, tombstones, audit>>
        BY <1>5 DEF RecordFailure
    <2>2. Key(q) \in Keys /\ ~Ledger!Closed(Key(q)) /\ rows[Key(q)].status = "running"
        BY <2>1, OwnerOpen DEF Owning, RowAt, Key
    <2>3. Ledger!Fail(Key(q))
        BY <2>1, <2>2 DEF SetStatus, Ledger!Fail, Ledger!Move
    <2> QED  BY <2>2, <2>3 DEF Ledger!Next
<1>6. ASSUME NEW q \in Requests, RecordSuccess(q) PROVE Ledger!Next
    <2>1. pc[q] = "succeeding" /\ SetStatus(q, "succeeded") /\ UNCHANGED <<calls, tombstones, audit>>
        BY <1>6 DEF RecordSuccess
    <2>2. /\ Key(q) \in Keys /\ ~Ledger!Closed(Key(q))
          /\ rows[Key(q)].status = "running" /\ calls[Key(q)] = 1
        BY <2>1, OwnerOpen DEF Owning, RowAt, Key
    <2>3. Ledger!Succeed(Key(q))
        BY <2>1, <2>2 DEF SetStatus, Ledger!Succeed, Ledger!Move
    <2> QED  BY <2>2, <2>3 DEF Ledger!Next
<1>7. ASSUME NEW q \in Requests, MarkDeleted(q)
      PROVE  Ledger!Next \/ UNCHANGED <<rows, calls, tombstones, audit>>
    <2>1. /\ pc[q] = "tombstoning" /\ tombstones' \in {tombstones, tombstones \cup {Key(q)}}
          /\ UNCHANGED <<rows, calls, audit>>
        BY <1>7 DEF MarkDeleted
    <2>2. /\ Key(q) \in Keys /\ ~Ledger!Closed(Key(q)) /\ calls[Key(q)] = 1
          /\ rows[Key(q)].status = "running" /\ rows[Key(q)].op = "delete_agent"
        BY <2>1, OwnerOpen DEF Owning, RowAt, Key
    <2>3. tombstones' # tombstones => Ledger!Tombstone(Key(q))
        BY <2>1, <2>2 DEF Ledger!Tombstone
    <2> QED  BY <2>1, <2>2, <2>3 DEF Ledger!Next
<1>8. ASSUME NEW q \in Requests, Audit(q)
      PROVE  Ledger!Next \/ UNCHANGED <<rows, calls, tombstones, audit>>
    <2>1. /\ pc[q] \in AuditSteps /\ audit' \in {audit, audit \cup {<<Key(q), AuditEvent(pc[q])>>}}
          /\ UNCHANGED <<rows, calls, tombstones>>
        BY <1>8 DEF Audit
    <2>2. Key(q) \in Keys /\ ~Ledger!Closed(Key(q)) /\ RowAt(q)
        BY <2>1, OwnerOpen DEF Owning
    <2>3. /\ rows[Key(q)].status # "none"
          /\ AuditEvent(pc[q]) \in Ledger!Reportable(rows[Key(q)])
        <3> DEFINE row == rows[Key(q)]
        <3>1. \/ pc[q] = "auditRequested" /\ row.status = "queued"
              \/ pc[q] = "auditRejected" /\ row.status = "rejected"
              \/ pc[q] = "auditDryRun" /\ row.status \in {"queued", "succeeded"} /\ row.dryRun
              \/ pc[q] = "auditFailed" /\ row.status \in {"running", "failed"}
              \/ pc[q] = "auditSucceeded" /\ row.status = "succeeded" /\ ~row.dryRun
            BY <2>1, <2>2 DEF RowAt, AuditSteps, Owning, Key
        <3> HIDE DEF row
        <3>2. row.status # "none" /\ AuditEvent(pc[q]) \in Ledger!Reportable(row)
            BY <3>1 DEF AuditEvent, Ledger!Reportable
        <3> QED  BY <3>2 DEF row
    <2>4. audit' # audit => Ledger!Report(Key(q))
        BY <2>1, <2>2, <2>3 DEF Ledger!Report
    <2> QED  BY <2>1, <2>2, <2>4 DEF Ledger!Next
<1>9. ASSUME NEW q \in Requests,
             \/ Begin(q) \/ Replay(q) \/ NotFound(q) \/ FindFails(q) \/ LoadTarget(q)
             \/ LoadTargetFails(q) \/ CreateFails(q) \/ FinishDryRunFails(q) \/ StartFails(q)
             \/ CallFails(q) \/ RecordFailureFails(q) \/ RecordSuccessFails(q) \/ Verify(q)
             \/ Cancel(q) \/ Crash(q)
      PROVE  UNCHANGED <<rows, calls, tombstones, audit>>
    BY <1>9 DEF Begin, Replay, NotFound, FindFails, LoadTarget, LoadTargetFails, CreateFails,
                FinishDryRunFails, StartFails, CallFails, RecordFailureFails, RecordSuccessFails,
                Verify, Cancel, Crash, actionDb
<1>10. CASE ChangeConnection \/ UNCHANGED actionVars
    BY <1>10 DEF ChangeConnection, actionVars, actionDb
<1> QED
    BY <1>1, <1>2, <1>3, <1>4, <1>5, <1>6, <1>7, <1>8, <1>9, <1>10 DEF Next, Handle

\* The requests keep the ledger of module ActionLedger: an action is stored before
\* the runtime is changed for it, changed for once, and closed by the one outcome
\* that is reported of it, for any number of requests and keys and every fault
\* (ReconcileAccess, SetAgentStatus, DeleteAgent, CancelExecution).
THEOREM LedgerImplemented == Spec => LedgerSpec
<1>1. Init => Ledger!Init
    BY DEF Init, NoRow, Ledger!Init
<1> QED  BY ActionInit, ActionStep, LedgerStep, <1>1, PTL DEF Spec, LedgerSpec, Ledger!Spec
=============================================================================
