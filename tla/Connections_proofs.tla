-------------------------- MODULE Connections_proofs --------------------------
(***************************************************************************)
(* Proofs about Connections, for any number of connections, addresses and  *)
(* requests, and with requests that end anywhere.  The argument: a         *)
(* consolidation that has locked a row keeps it active, because every      *)
(* statement that would archive the row waits for the lock; so the         *)
(* connection another one is merged into is itself not merged, and what is *)
(* archived is never written again.  What it compared before it locked is  *)
(* still so, and the whole consolidation a step of the registry.           *)
(***************************************************************************)
EXTENDS Connections, TLAPS

\* What a request asks for agrees with the step it is at.
OpAt(q) ==
    /\ pc[q] # "idle" => req[q] \in Inputs
    /\ pc[q] = "updating" => req[q].op = "settings"
    /\ pc[q] = "archiving" => req[q].op = "remove"
    /\ pc[q] \in {"loadingDuplicate", "lockingCanonical", "lockingDuplicate", "merging"} =>
          req[q].op = "consolidate"
    /\ pc[q] = "rereading" => req[q].op \in {"settings", "consolidate"}

\* A connection that was created has an address.
HasUrl == \A c \in Ids : Exists(c) => conns[c].url \in Urls

ConnTypeInv == ConnTypeOK /\ HasUrl /\ \A q \in Requests : OpAt(q)

\* A consolidation keeps the rows it has locked active.
LockedAt(q) ==
    /\ pc[q] \in {"lockingDuplicate", "merging"} => locks[req[q].id] = q /\ Active(req[q].id)
    /\ pc[q] = "merging" => locks[req[q].duplicate] = q /\ Active(req[q].duplicate)

Locked == \A q \in Requests : LockedAt(q)

\* What a request has committed is there when it tells the audit trail.
CommittedAt(q) ==
    /\ pc[q] = "auditing" /\ req[q].op = "remove" => conns[req[q].id].state = "removed"
    /\ pc[q] \in {"rereading", "auditing"} /\ req[q].op = "consolidate" =>
          conns[req[q].duplicate].state \in Routes /\ conns[req[q].duplicate].into = req[q].id

Committed == \A q \in Requests : CommittedAt(q)

\* Only what is archived is merged.
ActiveIsUnmerged == \A c \in Ids : ~Archived(c) => conns[c].into = None

\* Routes belong to connections there are.
OwnersExist == \A e \in endpoints : Exists(e.owner)

ConnInv ==
    /\ ConnTypeInv
    /\ Locked /\ Committed
    /\ ActiveIsUnmerged /\ OwnersExist
    /\ MergesEnd /\ ActiveIsRouted /\ MergedIsRouted /\ ArchiveAuditAgrees

-----------------------------------------------------------------------------
\* The fields of an input, by operation.
LEMMA InputFields ==
    ASSUME NEW in \in Inputs
    PROVE  /\ in.op \in {"create", "settings", "remove", "consolidate"}
           /\ in.op = "create" => in.kind \in Kinds /\ in.url \in Urls
           /\ in.op = "settings" => in.id \in Ids /\ in.url \in Urls
           /\ in.op = "remove" => in.id \in Ids
           /\ in.op = "consolidate" =>
                 in.id \in Ids /\ in.duplicate \in Ids /\ in.as \in Routes /\ in.id # in.duplicate
    BY DEF Inputs

\* The initial state satisfies every part of the invariant.
LEMMA ConnInit == Init => ConnInv
<1> SUFFICES ASSUME Init PROVE ConnInv
    OBVIOUS
<1>1. ConnTypeInv
    BY DEF Init, ConnTypeInv, ConnTypeOK, OpAt, HasUrl, Exists, ConnRow, NoConn, States,
       ConnSteps
<1>2. Locked /\ Committed
    BY DEF Init, Locked, Committed, LockedAt, CommittedAt
<1>3. ActiveIsUnmerged /\ OwnersExist
    BY DEF Init, ActiveIsUnmerged, OwnersExist, NoConn
<1>4. MergesEnd
    BY NoneAssumption DEF Init, MergesEnd, NoConn
<1>5. ActiveIsRouted /\ MergedIsRouted /\ ArchiveAuditAgrees
    BY RoutesAssumption DEF Init, ActiveIsRouted, MergedIsRouted, ArchiveAuditAgrees, NoConn, Active
<1> QED  BY <1>1, <1>2, <1>3, <1>4, <1>5 DEF ConnInv

\* Giving up locks keeps them well typed.
LEMMA ReleasedType ==
    ASSUME NEW q \in Requests, ConnTypeOK
    PROVE  Released(q) \in [Ids -> Requests \cup {None}]
    BY DEF Released, ConnTypeOK

\* Every step keeps the state well typed, and each request at a step of its
\* operation.
LEMMA ConnTypeStep ==
    ConnTypeInv /\ Locked /\ [Next]_connVars => ConnTypeInv'
<1> SUFFICES ASSUME ConnTypeInv, Locked, [Next]_connVars PROVE ConnTypeInv'
    OBVIOUS
<1> USE DEF ConnTypeInv, ConnTypeOK, HasUrl, Exists, OpAt, ConnSteps
<1>f. ASSUME NEW q \in Requests, Fails(q) PROVE ConnTypeInv'
    BY <1>f, ReleasedType DEF Fails, Return, connDb
<1>1. ASSUME NEW q \in Requests, Begin(q) PROVE ConnTypeInv'
    <2>1. PICK in \in Inputs : /\ CreateConnection(q, in) \/ LoadConnection(q, in)
                               /\ req' = [req EXCEPT ![q] = in]
        BY <1>1 DEF Begin
    <2>2. CASE CreateConnection(q, in)
        <3>1. PICK c \in Ids :
                  /\ conns' = [conns EXCEPT ![c] = [state |-> "active", kind |-> in.kind,
                                   url |-> in.url, into |-> None]]
                  /\ endpoints' = endpoints \cup {CanonicalRow(c, in.url)}
            BY <2>2 DEF CreateConnection
        <3>2. in.kind \in Kinds /\ in.url \in Urls
            BY <2>2, InputFields DEF CreateConnection
        <3>3. conns' \in [Ids -> ConnRow] /\ endpoints' \subseteq EndpointRow
            BY <3>1, <3>2 DEF ConnRow, States, EndpointRow, CanonicalRow
        <3>4. HasUrl'
            BY <3>1, <3>2
        <3> QED  BY <2>1, <2>2, <3>3, <3>4 DEF CreateConnection
    <2>3. CASE LoadConnection(q, in)
        <3>1. in.op \in {"settings", "remove", "consolidate"}
            BY <2>3, InputFields DEF LoadConnection
        <3>2. /\ in.op = "settings" => pc' = [pc EXCEPT ![q] = "updating"]
              /\ in.op = "remove" => pc' = [pc EXCEPT ![q] = "archiving"]
              /\ in.op = "consolidate" => pc' = [pc EXCEPT ![q] = "loadingDuplicate"]
            BY <2>3 DEF LoadConnection, AfterLoad
        <3> QED  BY <2>1, <2>3, <3>1, <3>2 DEF LoadConnection, connDb
    <2> QED  BY <2>1, <2>2, <2>3
<1>2. ASSUME NEW q \in Requests, LoadDuplicate(q) \/ Reread(q) PROVE ConnTypeInv'
    BY <1>2 DEF LoadDuplicate, Reread, GoTo, connDb
<1>3. ASSUME NEW q \in Requests,
             \/ LoadDuplicateFails(q) \/ UpdateSettingsFails(q) \/ ArchiveFails(q) \/ LockFails(q)
             \/ MergeFails(q) \/ DeadlockDetected(q) \/ RereadFails(q) \/ Abort(q)
      PROVE  ConnTypeInv'
    BY <1>3, <1>f DEF LoadDuplicateFails, UpdateSettingsFails, ArchiveFails, LockFails, MergeFails,
                      DeadlockDetected, RereadFails, Abort
<1>4. ASSUME NEW q \in Requests, UpdateSettings(q) PROVE ConnTypeInv'
    <2>1. req[q].id \in Ids /\ req[q].url \in Urls
        BY <1>4, InputFields DEF UpdateSettings
    <2>2. conns' \in [Ids -> ConnRow]
        BY <1>4, <2>1 DEF UpdateSettings, SettingsRow, Row, ConnRow
    <2>3. endpoints' \subseteq EndpointRow
        BY <1>4, <2>1 DEF UpdateSettings, SettingsEndpoints, Readdressed, CanonicalRows, EndpointRow
    <2>4. HasUrl'
        BY <1>4, <2>1 DEF UpdateSettings, SettingsRow, Row, Active
    <2> QED  BY <1>4, <2>2, <2>3, <2>4 DEF UpdateSettings, GoTo
<1>5. ASSUME NEW q \in Requests, Archive(q) PROVE ConnTypeInv'
    <2>1. req[q].id \in Ids
        BY <1>5, InputFields DEF Archive
    <2>2. conns' \in [Ids -> ConnRow]
        BY <1>5, <2>1 DEF Archive, ArchivesRow, Active, Row, ConnRow, States
    <2>3. HasUrl'
        BY <1>5, <2>1 DEF Archive, ArchivesRow, Active, Row
    <2> QED  BY <1>5, <2>2, <2>3 DEF Archive, GoTo
<1>6. ASSUME NEW q \in Requests, LockCanonical(q) \/ LockDuplicate(q) PROVE ConnTypeInv'
    <2>1. locks' \in [Ids -> Requests \cup {None}]
        BY <1>6 DEF LockCanonical, LockDuplicate, LockedRows
    <2> QED  BY <1>6, <2>1 DEF LockCanonical, LockDuplicate, GoTo, connDb
<1>7. ASSUME NEW q \in Requests, Merge(q) PROVE ConnTypeInv'
    <2>1. /\ req[q].id \in Ids /\ req[q].duplicate \in Ids /\ req[q].as \in Routes
          /\ conns[req[q].duplicate].url \in Urls
        BY <1>7, InputFields DEF Merge, Locked, LockedAt, Active
    <2>2. conns' \in [Ids -> ConnRow]
        BY <1>7, <2>1 DEF Merge, MergedRow, Row, ConnRow, States
    <2>3. endpoints' \subseteq EndpointRow
        BY <1>7, <2>1 DEF Merge, EndpointRow
    <2>4. HasUrl'
        BY <1>7, <2>1 DEF Merge, MergedRow, Row
    <2> QED  BY <1>7, <2>2, <2>3, <2>4, ReleasedType DEF Merge, GoTo
<1>8. ASSUME NEW q \in Requests, Audit(q) PROVE ConnTypeInv'
    <2>1. audit' \subseteq AuditEvents
        BY <1>8, InputFields DEF Audit, AuditEvent, AuditEvents
    <2> QED  BY <1>8, <2>1 DEF Audit, Return
<1>9. CASE UNCHANGED connVars
    BY <1>9 DEF connVars, connDb
<1> QED  BY <1>1, <1>2, <1>3, <1>4, <1>5, <1>6, <1>7, <1>8, <1>9 DEF Next, Step
-----------------------------------------------------------------------------
\* A new connection, or one that the step has found active: with new settings,
\* removed, or merged.
Created(r, c) ==
    ~Exists(c) /\ pc[r] = "idle" /\ conns'[c].state = "active" /\ conns'[c].into = None

Updated(r, c) ==
    /\ Active(c) /\ pc[r] = "updating" /\ req[r].id = c
    /\ conns'[c].state = "active" /\ conns'[c].into = conns[c].into

Removed(r, c) ==
    /\ Active(c) /\ pc[r] = "archiving" /\ req[r].id = c
    /\ conns'[c].state = "removed" /\ conns'[c].into = conns[c].into

Merged(r, c) ==
    /\ Active(c) /\ pc[r] = "merging" /\ req[r].duplicate = c
    /\ conns'[c].state \in Routes /\ conns'[c].into = req[r].id

\* A step of r changes a row only in these ways, and an existing row only when
\* no other request has it locked.
LEMMA RowStep ==
    ASSUME ConnTypeInv, Locked, NEW r \in Requests, Begin(r) \/ Step(r) \/ Abort(r),
           NEW c \in Ids, conns'[c] # conns[c]
    PROVE  \/ Created(r, c)
           \/ (Updated(r, c) \/ Removed(r, c) \/ Merged(r, c)) /\ RowFree(r, c)
<1> USE DEF ConnTypeInv, ConnTypeOK, OpAt
<1>1. CASE Begin(r)
    <2>1. PICK in \in Inputs : CreateConnection(r, in) \/ LoadConnection(r, in)
        BY <1>1 DEF Begin
    <2>2. CreateConnection(r, in)
        BY <2>1 DEF LoadConnection, connDb
    <2>3. PICK d \in Ids :
              /\ NewId(d)
              /\ conns' = [conns EXCEPT ![d] = [state |-> "active", kind |-> in.kind,
                               url |-> in.url, into |-> None]]
        BY <2>2 DEF CreateConnection
    <2>4. c = d
        BY <2>3
    <2> QED  BY <1>1, <2>3, <2>4 DEF Begin, NewId, Created
<1>2. CASE UpdateSettings(r)
    BY <1>2, InputFields DEF UpdateSettings, SettingsRow, Row, Active, Updated
<1>3. CASE Archive(r)
    BY <1>3, InputFields DEF Archive, ArchivesRow, Row, Removed
<1>4. CASE Merge(r)
    <2>1. req[r].duplicate \in Ids /\ req[r].as \in Routes
        BY <1>4, InputFields DEF Merge
    <2>2. c = req[r].duplicate /\ locks[c] = r /\ Active(c)
        BY <1>4, <2>1 DEF Merge, Locked, LockedAt
    <2> QED  BY <1>4, <2>1, <2>2 DEF Merge, MergedRow, Row, Merged, RowFree
<1> QED
    BY <1>1, <1>2, <1>3, <1>4
    DEF Step, Abort, Fails, connDb, LoadDuplicate, LoadDuplicateFails, UpdateSettingsFails,
        ArchiveFails, LockCanonical, LockDuplicate, LockFails, MergeFails, DeadlockDetected,
        Reread, RereadFails, Audit

\* A step of r takes no lock from another request.
LEMMA LockStep ==
    ASSUME ConnTypeInv, NEW r \in Requests, Begin(r) \/ Step(r) \/ Abort(r),
           NEW c \in Ids, locks[c] \in Requests \ {r}
    PROVE  locks'[c] = locks[c]
<1> USE NoneAssumption DEF ConnTypeInv, ConnTypeOK
<1>1. CASE Fails(r) \/ Merge(r)
    BY <1>1 DEF Fails, Merge, Released
<1>2. CASE LockCanonical(r) \/ LockDuplicate(r)
    BY <1>2 DEF LockCanonical, LockDuplicate, LockedRows, RowFree
<1>3. CASE Begin(r)
    BY <1>3 DEF Begin, CreateConnection, LoadConnection
<1> QED
    BY <1>1, <1>2, <1>3
    DEF Step, Abort, LoadDuplicate, LoadDuplicateFails, UpdateSettings, UpdateSettingsFails,
        Archive, ArchiveFails, LockFails, MergeFails, DeadlockDetected, Reread, RereadFails, Audit

\* A step of r moves no other request.
LEMMA OthersStay ==
    ASSUME ConnTypeInv, NEW r \in Requests, Begin(r) \/ Step(r) \/ Abort(r),
           NEW q \in Requests \ {r}
    PROVE  pc'[q] = pc[q] /\ req'[q] = req[q]
    BY DEF ConnTypeInv, ConnTypeOK, Begin, CreateConnection, LoadConnection, Step, Abort, Fails,
           Return, GoTo, LoadDuplicate, LoadDuplicateFails, UpdateSettings, UpdateSettingsFails,
           Archive, ArchiveFails, LockCanonical, LockDuplicate, LockFails, Merge, MergeFails,
           DeadlockDetected, Reread, RereadFails, Audit

\* Where a step of r takes r itself.
LEMMA OwnStep ==
    ASSUME ConnTypeInv, NEW r \in Requests, Begin(r) \/ Step(r) \/ Abort(r)
    PROVE  \/ pc'[r] = "idle"
           \/ pc[r] = "idle" /\ Begin(r)
              /\ pc'[r] \in {"updating", "archiving", "loadingDuplicate", "auditing"}
           \/ /\ req'[r] = req[r]
              /\ \/ LoadDuplicate(r) /\ pc'[r] = "lockingCanonical"
                 \/ LockCanonical(r) /\ pc'[r] = "lockingDuplicate"
                 \/ LockDuplicate(r) /\ pc'[r] = "merging"
                 \/ (UpdateSettings(r) \/ Merge(r)) /\ pc'[r] = "rereading"
                 \/ (Archive(r) \/ Reread(r)) /\ pc'[r] = "auditing"
<1> USE DEF ConnTypeInv, ConnTypeOK
<1>1. CASE Begin(r)
    BY <1>1 DEF Begin, CreateConnection, LoadConnection, AfterLoad
<1> QED
    BY <1>1
    DEF Step, Abort, Fails, Return, GoTo, LoadDuplicate, LoadDuplicateFails, UpdateSettings,
        UpdateSettingsFails, Archive, ArchiveFails, LockCanonical, LockDuplicate, LockFails, Merge,
        MergeFails, DeadlockDetected, Reread, RereadFails, Audit

\* Locked rows stay locked and active until the request gives them up.
LEMMA LockedIsKept == ConnTypeInv /\ Locked /\ [Next]_connVars => Locked'
<1> SUFFICES ASSUME ConnTypeInv, Locked, [Next]_connVars, NEW q \in Requests
             PROVE  LockedAt(q)'
    BY DEF Locked
<1>i. pc[q] \in {"lockingCanonical", "lockingDuplicate", "merging"} =>
          req[q].id \in Ids /\ req[q].duplicate \in Ids /\ req[q].id # req[q].duplicate
    BY InputFields DEF ConnTypeInv, OpAt
<1>l. LockedAt(q)
    BY DEF Locked
<1>1. CASE UNCHANGED connVars
    BY <1>1, <1>l DEF connVars, connDb, LockedAt, Active
<1>2. ASSUME NEW r \in Requests \ {q}, Begin(r) \/ Step(r) \/ Abort(r) PROVE LockedAt(q)'
    <2>1. pc'[q] = pc[q] /\ req'[q] = req[q]
        BY <1>2, OthersStay
    <2>2. ASSUME NEW c \in Ids, locks[c] = q, Active(c) PROVE locks'[c] = q /\ conns'[c].state = "active"
        <3>1. locks'[c] = q
            BY <1>2, <2>2, LockStep
        <3>2. ~RowFree(r, c) /\ ~Created(r, c)
            BY <2>2, NoneAssumption DEF RowFree, Created, Exists, Active
        <3>3. conns'[c] = conns[c]
            BY <1>2, <3>2, RowStep
        <3> QED  BY <2>2, <3>1, <3>3 DEF Active
    <2> QED  BY <1>i, <1>l, <2>1, <2>2 DEF LockedAt, Active
<1>3. ASSUME Begin(q) \/ Step(q) \/ Abort(q) PROVE LockedAt(q)'
    <2>1. CASE LockCanonical(q)
        BY <1>i, <2>1 DEF LockCanonical, LockedRows, LockedAt, Active, GoTo, connDb, ConnTypeInv, ConnTypeOK
    <2>2. CASE LockDuplicate(q)
        BY <1>i, <1>l, <2>2 DEF LockDuplicate, LockedRows, LockedAt, Active, GoTo, connDb, ConnTypeInv, ConnTypeOK
    <2> QED  BY <1>3, <2>1, <2>2, OwnStep DEF LockedAt
<1> QED  BY <1>1, <1>2, <1>3 DEF Next

-----------------------------------------------------------------------------
\* What is archived is never written again.
LEMMA ArchivedIsKept ==
    ConnTypeInv /\ Locked /\ [Next]_connVars => \A c \in Ids : Archived(c) => conns'[c] = conns[c]
<1> SUFFICES ASSUME ConnTypeInv, Locked, [Next]_connVars, NEW c \in Ids, Archived(c)
             PROVE  conns'[c] = conns[c]
    OBVIOUS
<1>1. Exists(c) /\ ~Active(c)
    BY RoutesAssumption DEF Archived, Exists, Active
<1>2. CASE UNCHANGED connVars
    BY <1>2 DEF connVars, connDb
<1>3. ASSUME NEW r \in Requests, Begin(r) \/ Step(r) \/ Abort(r) PROVE conns'[c] = conns[c]
    BY <1>1, <1>3, RowStep DEF Created, Updated, Removed, Merged
<1> QED  BY <1>2, <1>3 DEF Next

\* What a request has committed stays.
LEMMA CommittedIsKept == ConnTypeInv /\ Locked /\ Committed /\ [Next]_connVars => Committed'
<1> SUFFICES ASSUME ConnTypeInv, Locked, Committed, [Next]_connVars, NEW q \in Requests
             PROVE  CommittedAt(q)'
    BY DEF Committed
<1>q. CommittedAt(q)
    BY DEF Committed
<1>i. pc[q] # "idle" => /\ req[q].op = "remove" => req[q].id \in Ids
                        /\ req[q].op = "consolidate" => req[q].duplicate \in Ids /\ req[q].as \in Routes
    BY InputFields DEF ConnTypeInv, OpAt
<1>a. \A c \in Ids : conns[c].state \in {"removed"} \cup Routes => conns'[c] = conns[c]
    BY ArchivedIsKept DEF Archived
<1>1. CASE pc'[q] = pc[q] /\ req'[q] = req[q]
    BY <1>1, <1>q, <1>i, <1>a DEF CommittedAt
<1>2. ASSUME Begin(q) \/ Step(q) \/ Abort(q) PROVE CommittedAt(q)'
    <2>1. CASE Begin(q)
        <3>1. pc'[q] = "auditing" => req'[q].op = "create"
            <4>1. PICK in \in Inputs : /\ CreateConnection(q, in) \/ LoadConnection(q, in)
                                       /\ req' = [req EXCEPT ![q] = in]
                BY <2>1 DEF Begin
            <4> QED  BY <4>1 DEF CreateConnection, LoadConnection, AfterLoad, ConnTypeInv, ConnTypeOK
        <3>2. pc'[q] # "rereading"
            BY <2>1 DEF Begin, CreateConnection, LoadConnection, AfterLoad, ConnTypeInv, ConnTypeOK
        <3> QED  BY <3>1, <3>2 DEF CommittedAt
    <2>2. CASE Merge(q)
        <3>1. conns'[req[q].duplicate] = MergedRow(req[q].duplicate, req[q].id, req[q].as)
            BY <2>2, <1>i DEF Merge, ConnTypeInv, ConnTypeOK, OpAt
        <3> QED
            BY <2>2, <1>i, <3>1 DEF Merge, MergedRow, Row, CommittedAt, GoTo, ConnTypeInv, ConnTypeOK, OpAt
    <2>3. CASE Archive(q)
        <3>1. conns'[req[q].id].state = "removed"
            BY <2>3, <1>i DEF Archive, Row, ConnTypeInv, ConnTypeOK, OpAt
        <3> QED  BY <2>3, <3>1 DEF Archive, CommittedAt, GoTo, ConnTypeInv, ConnTypeOK, OpAt
    <2>4. CASE Reread(q)
        BY <2>4, <1>q, <1>i, <1>a DEF Reread, GoTo, CommittedAt, ConnTypeInv, ConnTypeOK, OpAt
    <2>5. CASE UpdateSettings(q)
        BY <2>5 DEF UpdateSettings, GoTo, CommittedAt, ConnTypeInv, ConnTypeOK, OpAt
    <2> QED  BY <1>2, <2>1, <2>2, <2>3, <2>4, <2>5, OwnStep DEF CommittedAt
<1>3. ASSUME NEW r \in Requests \ {q}, Begin(r) \/ Step(r) \/ Abort(r) PROVE CommittedAt(q)'
    BY <1>1, <1>3, OthersStay
<1>4. CASE UNCHANGED connVars
    BY <1>4, <1>1 DEF connVars
<1> QED  BY <1>2, <1>3, <1>4 DEF Next

\* A consolidation merges into a connection that is not merged.
LEMMA UnmergedIsKept ==
    ConnTypeInv /\ Locked /\ ActiveIsUnmerged /\ [Next]_connVars => ActiveIsUnmerged'
<1> SUFFICES ASSUME ConnTypeInv, Locked, ActiveIsUnmerged, [Next]_connVars,
                    NEW c \in Ids, ~Archived(c)'
             PROVE  conns'[c].into = None
    BY DEF ActiveIsUnmerged
<1>1. CASE conns'[c] = conns[c]
    BY <1>1 DEF ActiveIsUnmerged, Archived
<1>2. ASSUME NEW r \in Requests, Begin(r) \/ Step(r) \/ Abort(r), conns'[c] # conns[c]
      PROVE  conns'[c].into = None
    <2>1. Active(c) => conns[c].into = None
        BY RoutesAssumption DEF ActiveIsUnmerged, Archived, Active
    <2> QED  BY <1>2, <2>1, RowStep DEF Created, Updated, Removed, Merged, Archived
<1>3. CASE UNCHANGED connVars
    BY <1>1, <1>3 DEF connVars, connDb
<1> QED  BY <1>1, <1>2, <1>3 DEF Next

\* A step changes where at most one connection is merged into.
LEMMA MergesEndKept ==
    ConnTypeInv /\ Locked /\ ActiveIsUnmerged /\ MergesEnd /\ [Next]_connVars => MergesEnd'
<1> SUFFICES ASSUME ConnTypeInv, Locked, ActiveIsUnmerged, MergesEnd, [Next]_connVars,
                    NEW S \in SUBSET Ids, S # {}
             PROVE  \E c \in S : conns'[c].into \notin S
    BY DEF MergesEnd
<1>1. CASE \A c \in S : conns'[c].into = conns[c].into
    BY <1>1 DEF MergesEnd
<1>2. ASSUME NEW r \in Requests, Begin(r) \/ Step(r) \/ Abort(r),
             NEW d \in S, conns'[d].into # conns[d].into
      PROVE  \E c \in S : conns'[c].into \notin S
    <2>1. CASE Created(r, d)
        BY <2>1, NoneAssumption DEF Created
    <2>2. CASE Merged(r, d)
        <3>1. /\ req[r].id \in Ids /\ req[r].id # d
              /\ conns'[d].into = req[r].id /\ Active(req[r].id) /\ pc[r] = "merging"
            BY <2>2, InputFields DEF Merged, Locked, LockedAt, ConnTypeInv, OpAt
        <3>2. conns[req[r].id].into = None
            BY <3>1, RoutesAssumption DEF ActiveIsUnmerged, Archived, Active
        <3>3. conns'[req[r].id].into = None
            BY <1>2, <3>1, <3>2, RowStep DEF Created, Updated, Removed, Merged
        <3> QED  BY <3>1, <3>3, NoneAssumption
    <2> QED  BY <1>2, <2>1, <2>2, RowStep DEF Updated, Removed
<1>3. CASE UNCHANGED connVars
    BY <1>1, <1>3 DEF connVars, connDb
<1> QED  BY <1>1, <1>2, <1>3 DEF Next

\* The audit trail is about archived connections only.
LEMMA AuditIsKept ==
    ConnTypeInv /\ Locked /\ Committed /\ ArchiveAuditAgrees /\ [Next]_connVars => ArchiveAuditAgrees'
<1> SUFFICES ASSUME ConnTypeInv, Locked, Committed, ArchiveAuditAgrees, [Next]_connVars
             PROVE  ArchiveAuditAgrees'
    OBVIOUS
<1>a. \A c \in Ids : conns[c].state \in {"removed"} \cup Routes => conns'[c] = conns[c]
    BY ArchivedIsKept DEF Archived
<1>1. CASE UNCHANGED audit
    BY <1>1, <1>a DEF ArchiveAuditAgrees
<1>2. ASSUME NEW q \in Requests, Audit(q) PROVE ArchiveAuditAgrees'
    <2>1. CommittedAt(q) /\ conns' = conns /\ audit' = audit \cup AuditEvent(q)
        BY <1>2 DEF Committed, Audit
    <2>2. /\ req[q].op = "remove" => AuditEvent(q) = {<<"removed", req[q].id, None>>}
          /\ req[q].op = "consolidate" =>
                AuditEvent(q) = {<<"consolidated", req[q].duplicate, req[q].id>>}
          /\ req[q].op \notin {"remove", "consolidate"} => AuditEvent(q) = {}
        BY DEF AuditEvent
    <2> QED  BY <1>2, <2>1, <2>2 DEF ArchiveAuditAgrees, Audit, CommittedAt
<1> QED
    BY <1>1, <1>2
    DEF Next, Begin, CreateConnection, LoadConnection, Step, Abort, Fails, connVars, connDb,
        LoadDuplicate, LoadDuplicateFails, UpdateSettings, UpdateSettingsFails,
        Archive, ArchiveFails, LockCanonical, LockDuplicate, LockFails, Merge, MergeFails,
        DeadlockDetected, Reread, RereadFails

-----------------------------------------------------------------------------
\* The endpoints that belong to connections other than the one a step is about
\* stay, as do routes that are not canonical.
LEMMA SettingsKeep ==
    ASSUME NEW q \in Requests, UpdateSettings(q)
    PROVE  /\ \A e \in endpoints : e.owner # req[q].id \/ e.kind # "canonical" => e \in endpoints'
           /\ \A e \in endpoints' :
                 e \in endpoints \/ \E f \in CanonicalRows(req[q].id) : e = Readdressed(f, req[q].url)
    BY DEF UpdateSettings, SettingsEndpoints, CanonicalRows

\* Endpoints are only ever added to connections that exist.
LEMMA OwnersStep ==
    ConnTypeInv /\ Locked /\ OwnersExist /\ [Next]_connVars => OwnersExist'
<1> SUFFICES ASSUME ConnTypeInv, Locked, OwnersExist, [Next]_connVars PROVE OwnersExist'
    OBVIOUS
<1>e. \A c \in Ids : Exists(c) => Exists(c)'
    <2>1. CASE UNCHANGED connVars
        BY <2>1 DEF connVars, connDb, Exists
    <2>2. ASSUME NEW r \in Requests, Begin(r) \/ Step(r) \/ Abort(r), NEW c \in Ids, Exists(c)
          PROVE  Exists(c)'
        BY <2>2, RowStep, RoutesAssumption DEF Created, Updated, Removed, Merged, Exists
    <2> QED  BY <2>1, <2>2 DEF Next
<1>o. \A e \in endpoints : e.owner \in Ids /\ Exists(e.owner)'
    BY <1>e DEF OwnersExist, ConnTypeInv, ConnTypeOK, EndpointRow
<1>1. CASE UNCHANGED endpoints
    BY <1>1, <1>o DEF OwnersExist
<1>2. ASSUME NEW q \in Requests, NEW in \in Inputs, CreateConnection(q, in) PROVE OwnersExist'
    <2>1. PICK c \in Ids :
              /\ conns' = [conns EXCEPT ![c] = [state |-> "active", kind |-> in.kind,
                               url |-> in.url, into |-> None]]
              /\ endpoints' = endpoints \cup {CanonicalRow(c, in.url)}
        BY <1>2 DEF CreateConnection
    <2>2. Exists(c)'
        BY <2>1 DEF Exists, ConnTypeInv, ConnTypeOK
    <2> QED  BY <1>o, <2>1, <2>2 DEF OwnersExist, CanonicalRow
<1>3. ASSUME NEW q \in Requests, UpdateSettings(q) PROVE OwnersExist'
    BY <1>3, <1>o, SettingsKeep DEF OwnersExist, Readdressed, CanonicalRows
<1>4. ASSUME NEW q \in Requests, Merge(q) PROVE OwnersExist'
    <2>1. req[q].id \in Ids /\ Exists(req[q].id)
        BY <1>4, InputFields DEF Merge, Locked, LockedAt, Active, Exists, ConnTypeInv, OpAt
    <2> QED  BY <1>4, <1>o, <1>e, <2>1 DEF Merge, OwnersExist
<1> QED
    BY <1>1, <1>2, <1>3, <1>4
    DEF Next, Begin, LoadConnection, Step, Abort, Fails, connVars, connDb,
        LoadDuplicate, LoadDuplicateFails, UpdateSettingsFails,
        Archive, ArchiveFails, LockCanonical, LockDuplicate, LockFails, MergeFails,
        DeadlockDetected, Reread, RereadFails, Audit

\* A merged connection keeps its route.
LEMMA MergedStep ==
    ConnTypeInv /\ Locked /\ MergedIsRouted /\ [Next]_connVars => MergedIsRouted'
<1> SUFFICES ASSUME ConnTypeInv, Locked, MergedIsRouted, [Next]_connVars,
                    NEW d \in Ids, conns'[d].state \in Routes
             PROVE  [owner |-> conns'[d].into, url |-> conns'[d].url, kind |-> conns'[d].state,
                     source |-> d] \in endpoints'
    BY DEF MergedIsRouted
<1> DEFINE route == [owner |-> conns[d].into, url |-> conns[d].url, kind |-> conns[d].state, source |-> d]
<1>1. CASE conns[d].state \in Routes
    <2>1. conns'[d] = conns[d] /\ route \in endpoints /\ route.kind # "canonical"
        BY <1>1, ArchivedIsKept, RoutesAssumption DEF Archived, MergedIsRouted
    <2>2. route \in endpoints'
        <3>1. CASE endpoints \subseteq endpoints'
            BY <2>1, <3>1
        <3>2. ASSUME NEW q \in Requests, UpdateSettings(q) PROVE route \in endpoints'
            BY <2>1, <3>2, SettingsKeep
        <3> QED
            BY <3>1, <3>2
            DEF Next, Begin, CreateConnection, LoadConnection, Step, Abort, Fails, connVars, connDb,
                LoadDuplicate, LoadDuplicateFails, UpdateSettingsFails,
                Archive, ArchiveFails, LockCanonical, LockDuplicate, LockFails, Merge, MergeFails,
                DeadlockDetected, Reread, RereadFails, Audit
    <2> QED  BY <2>1, <2>2
<1>2. CASE conns[d].state \notin Routes
    <2>1. PICK r \in Requests : (Begin(r) \/ Step(r) \/ Abort(r)) /\ conns'[d] # conns[d]
        BY <1>2 DEF Next, connVars, connDb
    <2>2. Merged(r, d)
        BY <2>1, RowStep, RoutesAssumption DEF Created, Updated, Removed
    <2>3. Merge(r)
        BY <2>1, <2>2
        DEF Merged, Begin, Step, Abort, Fails, connDb, LoadDuplicate, LoadDuplicateFails,
            UpdateSettings, UpdateSettingsFails, Archive, ArchiveFails, LockCanonical, LockDuplicate,
            LockFails, MergeFails, DeadlockDetected, Reread, RereadFails, Audit
    <2>4. conns'[d] = Row(d, req[r].as, conns[d].url, req[r].id)
        BY <2>2, <2>3 DEF Merged, Merge, MergedRow, ConnTypeInv, ConnTypeOK
    <2> QED  BY <2>2, <2>3, <2>4 DEF Merged, Merge, Row
<1> QED  BY <1>1, <1>2

\* A connection in use keeps one canonical endpoint, that of its address.
LEMMA RoutedStep ==
    ConnTypeInv /\ Locked /\ OwnersExist /\ ActiveIsRouted /\ [Next]_connVars => ActiveIsRouted'
<1> SUFFICES ASSUME ConnTypeInv, Locked, OwnersExist, ActiveIsRouted, [Next]_connVars,
                    NEW c \in Ids, Active(c)'
             PROVE  CanonicalRows(c)' = {CanonicalRow(c, conns'[c].url)}
    BY DEF ActiveIsRouted, CanonicalRow
<1> USE DEF ConnTypeInv, ConnTypeOK
<1>r. Active(c) => CanonicalRows(c) = {CanonicalRow(c, conns[c].url)}
    BY DEF ActiveIsRouted
<1>1. CASE UNCHANGED <<conns, endpoints>>
    BY <1>1, <1>r DEF Active, CanonicalRows, CanonicalRow
<1>2. ASSUME NEW q \in Requests, NEW in \in Inputs, CreateConnection(q, in)
      PROVE  CanonicalRows(c)' = {CanonicalRow(c, conns'[c].url)}
    <2>1. PICK d \in Ids :
              /\ ~Exists(d)
              /\ conns' = [conns EXCEPT ![d] = [state |-> "active", kind |-> in.kind,
                               url |-> in.url, into |-> None]]
              /\ endpoints' = endpoints \cup {CanonicalRow(d, in.url)}
        BY <1>2 DEF CreateConnection, NewId
    <2>2. CASE c = d
        <3>1. CanonicalRows(c) = {}
            BY <2>1, <2>2 DEF OwnersExist, CanonicalRows
        <3> QED  BY <2>1, <2>2, <3>1 DEF CanonicalRows, CanonicalRow
    <2>3. CASE c # d
        <3>1. conns'[c] = conns[c] /\ CanonicalRows(c)' = CanonicalRows(c)
            BY <2>1, <2>3 DEF CanonicalRows, CanonicalRow
        <3> QED  BY <1>r, <3>1 DEF Active
    <2> QED  BY <2>2, <2>3
<1>3. ASSUME NEW q \in Requests, UpdateSettings(q)
      PROVE  CanonicalRows(c)' = {CanonicalRow(c, conns'[c].url)}
    <2>1. req[q].id \in Ids
        BY <1>3, InputFields DEF UpdateSettings, OpAt
    <2>2. CASE c = req[q].id
        <3>1. Active(c) /\ conns'[c].url = req[q].url
            BY <1>3, <2>1, <2>2 DEF UpdateSettings, SettingsRow, Row, Active
        <3>2. endpoints' = (endpoints \ CanonicalRows(c)) \cup {CanonicalRow(c, req[q].url)}
            <4>1. Readdressed(CanonicalRow(c, conns[c].url), req[q].url) = CanonicalRow(c, req[q].url)
                BY DEF Readdressed, CanonicalRow
            <4>2. {Readdressed(e, req[q].url) : e \in CanonicalRows(c)} = {CanonicalRow(c, req[q].url)}
                BY <1>r, <3>1, <4>1
            <4> QED  BY <1>3, <2>2, <4>2 DEF UpdateSettings, SettingsEndpoints
        <3> QED  BY <3>1, <3>2 DEF CanonicalRows, CanonicalRow
    <2>3. CASE c # req[q].id
        <3>1. conns'[c] = conns[c]
            BY <1>3, <2>1, <2>3 DEF UpdateSettings
        <3>2. CanonicalRows(c)' = CanonicalRows(c)
            BY <1>3, <2>3, SettingsKeep DEF CanonicalRows, Readdressed
        <3> QED  BY <1>r, <3>1, <3>2 DEF Active
    <2> QED  BY <2>2, <2>3
<1>4. ASSUME NEW q \in Requests, Archive(q)
      PROVE  CanonicalRows(c)' = {CanonicalRow(c, conns'[c].url)}
    <2>1. conns'[c] = conns[c]
        BY <1>4, InputFields DEF Archive, Row, Active, OpAt
    <2> QED  BY <1>4, <1>r, <2>1 DEF Archive, Active, CanonicalRows
<1>5. ASSUME NEW q \in Requests, Merge(q)
      PROVE  CanonicalRows(c)' = {CanonicalRow(c, conns'[c].url)}
    <2>1. req[q].duplicate \in Ids /\ req[q].as \in Routes
        BY <1>5, InputFields DEF Merge, OpAt
    <2>2. conns'[c] = conns[c]
        BY <1>5, <2>1, RoutesAssumption DEF Merge, MergedRow, Row, Active
    <2>3. CanonicalRows(c)' = CanonicalRows(c)
        BY <1>5, <2>1, RoutesAssumption DEF Merge, CanonicalRows
    <2> QED  BY <1>r, <2>2, <2>3 DEF Active
<1> QED
    BY <1>1, <1>2, <1>3, <1>4, <1>5
    DEF Next, Begin, LoadConnection, Step, Abort, Fails, connVars, connDb,
        LoadDuplicate, LoadDuplicateFails, UpdateSettingsFails,
        ArchiveFails, LockCanonical, LockDuplicate, LockFails, MergeFails,
        DeadlockDetected, Reread, RereadFails, Audit

-----------------------------------------------------------------------------
\* Every step preserves the invariant.
LEMMA ConnStep == ConnInv /\ [Next]_connVars => ConnInv'
    BY ConnTypeStep, LockedIsKept, CommittedIsKept, UnmergedIsKept, OwnersStep, MergesEndKept,
       RoutedStep, MergedStep, AuditIsKept DEF ConnInv

\* The invariant holds for ever.
LEMMA ConnInvariant == Spec => []ConnInv
    BY ConnInit, ConnStep, PTL DEF Spec

\* Every reachable state is well typed.
THEOREM ConnTypeCorrect == Spec => []ConnTypeOK
<1>1. ConnInv => ConnTypeOK
    BY DEF ConnInv, ConnTypeInv
<1> QED  BY <1>1, ConnInvariant, PTL

\* Consolidations, however many run at once and in whatever directions, never
\* merge connections into each other (ConsolidateEndpoint).
THEOREM MergesEndCorrect == Spec => []MergesEnd
<1>1. ConnInv => MergesEnd
    BY DEF ConnInv
<1> QED  BY <1>1, ConnInvariant, PTL

\* The endpoint table and the connections agree about the addresses of those in
\* use (Create, UpdateSettings).
THEOREM ActiveRoutedCorrect == Spec => []ActiveIsRouted
<1>1. ConnInv => ActiveIsRouted
    BY DEF ConnInv
<1> QED  BY <1>1, ConnInvariant, PTL

\* A merged connection stays reachable by its address (ConsolidateEndpoint,
\* UpdateSettings).
THEOREM MergedRoutedCorrect == Spec => []MergedIsRouted
<1>1. ConnInv => MergedIsRouted
    BY DEF ConnInv
<1> QED  BY <1>1, ConnInvariant, PTL

\* The audit trail never says of a connection what did not happen to it
\* (Remove, ConsolidateEndpoint).
THEOREM ArchiveAuditCorrect == Spec => []ArchiveAuditAgrees
<1>1. ConnInv => ArchiveAuditAgrees
    BY DEF ConnInv
<1> QED  BY <1>1, ConnInvariant, PTL

\* An archived connection is never changed (Archive, UpdateSettings).
THEOREM ArchivedCorrect == Spec => ArchivedIsFinal
<1>1. ConnInv /\ [Next]_connVars =>
          [\A c \in Ids : Archived(c) => conns'[c] = conns[c]]_connVars
    BY ArchivedIsKept DEF ConnInv
<1> QED  BY <1>1, ConnInvariant, PTL DEF Spec, ArchivedIsFinal

-----------------------------------------------------------------------------
\* What a consolidation has compared before it locks anything stays true.
SameKind ==
    \A q \in Requests :
        /\ pc[q] = "loadingDuplicate" => Exists(req[q].id)
        /\ pc[q] \in {"lockingCanonical", "lockingDuplicate", "merging"} =>
              /\ Exists(req[q].id) /\ Exists(req[q].duplicate)
              /\ conns[req[q].id].kind = conns[req[q].duplicate].kind

\* A connection keeps its type.
LEMMA KindKept ==
    ASSUME ConnTypeInv, Locked, NEW r \in Requests, Begin(r) \/ Step(r) \/ Abort(r),
           NEW c \in Ids, Exists(c)
    PROVE  Exists(c)' /\ conns'[c].kind = conns[c].kind
<1> USE DEF ConnTypeInv, ConnTypeOK, OpAt
<1>1. Exists(c)'
    BY RowStep, RoutesAssumption DEF Created, Updated, Removed, Merged, Exists
<1>2. ASSUME Begin(r) PROVE conns'[c].kind = conns[c].kind
    BY <1>2 DEF Begin, CreateConnection, NewId, LoadConnection, connDb
<1>3. ASSUME UpdateSettings(r) \/ Archive(r) \/ Merge(r) PROVE conns'[c].kind = conns[c].kind
    BY <1>3, InputFields DEF UpdateSettings, SettingsRow, Archive, Merge, MergedRow, Row
<1>4. conns'[c].kind = conns[c].kind
    BY <1>2, <1>3
    DEF Step, Abort, Fails, connDb, LoadDuplicate, LoadDuplicateFails, UpdateSettingsFails,
        ArchiveFails, LockCanonical, LockDuplicate, LockFails, MergeFails, DeadlockDetected,
        Reread, RereadFails, Audit
<1> QED  BY <1>1, <1>4

\* So two connections that were of one type before their rows were locked still
\* are when they are merged.
LEMMA SameKindStep == ConnTypeInv /\ Locked /\ SameKind /\ [Next]_connVars => SameKind'
<1> DEFINE SameAt(q) ==
        /\ pc[q] = "loadingDuplicate" => Exists(req[q].id)
        /\ pc[q] \in {"lockingCanonical", "lockingDuplicate", "merging"} =>
              /\ Exists(req[q].id) /\ Exists(req[q].duplicate)
              /\ conns[req[q].id].kind = conns[req[q].duplicate].kind
<1> SUFFICES ASSUME ConnTypeInv, Locked, SameKind, [Next]_connVars, NEW q \in Requests
             PROVE  SameAt(q)'
    BY DEF SameKind
<1>q. SameAt(q)
    BY DEF SameKind
<1>i. /\ pc[q] \in {"loadingDuplicate", "lockingCanonical", "lockingDuplicate", "merging"} =>
            req[q].id \in Ids /\ req[q].duplicate \in Ids
    BY InputFields DEF ConnTypeInv, OpAt
<1>1. CASE UNCHANGED connVars
    BY <1>1, <1>q DEF connVars, connDb, Exists
<1>2. ASSUME NEW r \in Requests \ {q}, Begin(r) \/ Step(r) \/ Abort(r) PROVE SameAt(q)'
    <2>1. pc'[q] = pc[q] /\ req'[q] = req[q]
        BY <1>2, OthersStay
    <2>2. \A c \in Ids : Exists(c) => Exists(c)' /\ conns'[c].kind = conns[c].kind
        BY <1>2, KindKept
    <2> QED  BY <1>q, <1>i, <2>1, <2>2 DEF Exists
<1>3. ASSUME Begin(q) \/ Step(q) \/ Abort(q) PROVE SameAt(q)'
    <2>1. CASE Begin(q)
        <3>1. PICK in \in Inputs : /\ CreateConnection(q, in) \/ LoadConnection(q, in)
                                   /\ req' = [req EXCEPT ![q] = in]
            BY <2>1 DEF Begin
        <3>2. pc'[q] \in {"updating", "archiving", "loadingDuplicate", "auditing"} /\ req'[q] = in
            BY <3>1 DEF CreateConnection, LoadConnection, AfterLoad, ConnTypeInv, ConnTypeOK
        <3>3. pc'[q] = "loadingDuplicate" => Active(in.id) /\ conns' = conns
            BY <3>1 DEF CreateConnection, LoadConnection, ConnTypeInv, ConnTypeOK, connDb
        <3> QED  BY <3>2, <3>3 DEF Active, Exists
    <2>2. CASE LoadDuplicate(q) \/ LockCanonical(q) \/ LockDuplicate(q)
        <3>1. /\ conns' = conns /\ req' = req
              /\ pc[q] \in {"loadingDuplicate", "lockingCanonical", "lockingDuplicate"}
              /\ pc[q] = "loadingDuplicate" =>
                    /\ Active(req[q].duplicate)
                    /\ conns[req[q].id].kind = conns[req[q].duplicate].kind
              /\ pc'[q] \in {"lockingCanonical", "lockingDuplicate", "merging"}
            BY <2>2 DEF LoadDuplicate, LockCanonical, LockDuplicate, GoTo, connDb, ConnTypeInv,
                        ConnTypeOK
        <3> QED  BY <1>q, <3>1 DEF Active, Exists
    <2> QED  BY <1>3, <2>1, <2>2, OwnStep
<1> QED  BY <1>1, <1>2, <1>3 DEF Next

\* Every step of a request is one of the registry, or leaves it alone.
LEMMA RegistryStep ==
    ConnInv /\ SameKind /\ [Next]_connVars => [Registry!Next]_<<conns, RouteRows, audit>>
<1> SUFFICES ASSUME ConnInv, SameKind, [Next]_connVars
             PROVE  Registry!Next \/ UNCHANGED <<conns, RouteRows, audit>>
    OBVIOUS
<1>t. ConnTypeInv /\ Locked /\ Committed
    BY DEF ConnInv
<1>r. "canonical" \notin Routes
    BY RoutesAssumption
<1>1. ASSUME NEW q \in Requests, NEW in \in Inputs, CreateConnection(q, in) PROVE Registry!Next
    <2>1. PICK c \in Ids :
              /\ ~Exists(c) /\ AddressFree(c, in.kind, in.url)
              /\ conns' = [conns EXCEPT ![c] = [state |-> "active", kind |-> in.kind,
                               url |-> in.url, into |-> None]]
              /\ endpoints' = endpoints \cup {CanonicalRow(c, in.url)}
        BY <1>1 DEF CreateConnection, NewId
    <2>2. in.kind \in Kinds /\ in.url \in Urls /\ audit' = audit
        BY <1>1, InputFields DEF CreateConnection
    <2>3. RouteRows' = RouteRows
        BY <1>r, <2>1 DEF RouteRows, CanonicalRow
    <2>4. Registry!Create(c)
        BY <2>1, <2>2, <2>3
        DEF Exists, AddressFree, Active, Registry!Create, Registry!Free, Registry!InUse
    <2> QED  BY <2>4 DEF Registry!Next
<1>2. ASSUME NEW q \in Requests, UpdateSettings(q)
      PROVE  Registry!Next \/ UNCHANGED <<conns, RouteRows, audit>>
    <2> DEFINE c == req[q].id
    <2> DEFINE url == req[q].url
    <2>1. c \in Ids /\ url \in Urls /\ conns[c] \in ConnRow /\ conns \in [Ids -> ConnRow]
        BY <1>2, <1>t, InputFields DEF UpdateSettings, ConnTypeInv, ConnTypeOK, OpAt
    <2>2. RouteRows' = RouteRows /\ audit' = audit
        <3>1. endpoints' = (endpoints \ CanonicalRows(c))
                               \cup {Readdressed(e, url) : e \in CanonicalRows(c)}
            BY <1>2 DEF UpdateSettings, SettingsEndpoints
        <3>2. \A e \in CanonicalRows(c) : e.kind = "canonical" /\ Readdressed(e, url).kind = "canonical"
            BY DEF CanonicalRows, Readdressed
        <3>3. RouteRows' = RouteRows
            BY <1>r, <3>1, <3>2 DEF RouteRows, CanonicalRows
        <3> QED  BY <1>2, <3>3 DEF UpdateSettings
    <2>3. CASE Active(c)
        <3>1. /\ AddressFree(c, conns[c].kind, url)
              /\ RouteFree(endpoints \ CanonicalRows(c), c, url)
              /\ conns' = [conns EXCEPT ![c] = Row(c, conns[c].state, url, conns[c].into)]
            BY <1>2, <2>3 DEF UpdateSettings, SettingsAllowed, SettingsRow
        <3>2. Row(c, conns[c].state, url, conns[c].into) = [conns[c] EXCEPT !.url = url]
            BY <2>1 DEF Row, ConnRow
        <3>3. \A r \in RouteRows : r.owner = c => r.url # url
            BY <1>r, <3>1 DEF RouteRows, CanonicalRows, RouteFree
        <3>4. Registry!Free(c, conns[c].kind, url) /\ Registry!InUse(c)
            BY <2>3, <3>1 DEF AddressFree, Active, Registry!Free, Registry!InUse
        <3>5. conns' = [conns EXCEPT ![c].url = url]
            BY <2>1, <3>1, <3>2
        <3> HIDE DEF c, url
        <3>6. Registry!Readdress(c)
            BY <2>1, <2>2, <3>3, <3>4, <3>5 DEF Registry!Readdress
        <3> QED  BY <2>1, <3>6 DEF Registry!Next
    <2>4. CASE ~Active(c)
        <3>1. conns' = conns
            BY <1>2, <2>1, <2>4 DEF UpdateSettings, SettingsRow
        <3> QED  BY <2>2, <3>1
    <2> QED  BY <2>3, <2>4
<1>3. ASSUME NEW q \in Requests, Archive(q) PROVE Registry!Next
    <2> DEFINE c == req[q].id
    <2>1. c \in Ids /\ conns[c] \in ConnRow /\ conns \in [Ids -> ConnRow]
        BY <1>3, <1>t, InputFields DEF Archive, ConnTypeInv, ConnTypeOK, OpAt
    <2>2. /\ Active(c) /\ UNCHANGED <<endpoints, audit>>
          /\ conns' = [conns EXCEPT ![c] = Row(c, "removed", conns[c].url, conns[c].into)]
        BY <1>3 DEF Archive, ArchivesRow
    <2>3. Row(c, "removed", conns[c].url, conns[c].into) = [conns[c] EXCEPT !.state = "removed"]
        BY <2>1 DEF Row, ConnRow
    <2>4. conns' = [conns EXCEPT ![c].state = "removed"]
        BY <2>1, <2>2, <2>3
    <2> HIDE DEF c
    <2>5. Registry!Remove(c)
        BY <2>2, <2>4 DEF Active, RouteRows, Registry!Remove, Registry!InUse
    <2> QED  BY <2>1, <2>5 DEF Registry!Next
<1>4. ASSUME NEW q \in Requests, Merge(q) PROVE Registry!Next
    <2> DEFINE c == req[q].id
    <2> DEFINE d == req[q].duplicate
    <2> DEFINE as == req[q].as
    <2>1. c \in Ids /\ d \in Ids /\ as \in Routes /\ c # d
        BY <1>4, <1>t, InputFields DEF Merge, ConnTypeInv, OpAt
    <2>2. Active(c) /\ Active(d) /\ conns[c].kind = conns[d].kind
        BY <1>4, <1>t DEF Merge, Locked, LockedAt, SameKind
    <2>3. /\ RouteFree(endpoints, c, conns[d].url) /\ audit' = audit
          /\ endpoints' = endpoints \cup {[owner |-> c, url |-> conns[d].url, kind |-> as, source |-> d]}
          /\ conns' = [conns EXCEPT ![d] = [state |-> as, kind |-> conns[d].kind,
                                            url |-> conns[d].url, into |-> c]]
        BY <1>4 DEF Merge, MergedRow, Row
    <2> HIDE DEF c, d, as
    <2>4. /\ RouteRows' = RouteRows
                   \cup {[owner |-> c, url |-> conns[d].url, kind |-> as, source |-> d]}
          /\ \A r \in RouteRows : r.owner = c => r.url # conns[d].url
        <3> DEFINE route == [owner |-> c, url |-> conns[d].url, kind |-> as, source |-> d]
        <3>1. route.kind = as
            OBVIOUS
        <3>2. endpoints' = endpoints \cup {route}
            BY <2>3
        <3>3. \A r \in RouteRows : r.owner = c => r.url # conns[d].url
            BY <2>3 DEF RouteRows, RouteFree
        <3> HIDE DEF route
        <3>4. RouteRows' = RouteRows \cup {route}
            BY <2>1, <3>1, <3>2 DEF RouteRows
        <3> QED  BY <3>3, <3>4 DEF route
    <2>5. Registry!Merge(c, d)
        BY <2>1, <2>2, <2>3, <2>4 DEF Active, Registry!Merge, Registry!InUse
    <2> QED  BY <2>1, <2>5 DEF Registry!Next
<1>5. ASSUME NEW q \in Requests, Audit(q)
      PROVE  Registry!Next \/ UNCHANGED <<conns, RouteRows, audit>>
    <2>1. /\ pc[q] = "auditing" /\ audit' = audit \cup AuditEvent(q)
          /\ UNCHANGED <<conns, RouteRows>> /\ req[q] \in Inputs
        BY <1>5, <1>t DEF Audit, RouteRows, ConnTypeInv, OpAt
    <2>2. CASE req[q].op = "remove"
        <3>1. req[q].id \in Ids /\ conns[req[q].id].state = "removed"
            BY <1>t, <2>1, <2>2, InputFields DEF Committed, CommittedAt
        <3>2. Registry!RecordRemoval(req[q].id)
            BY <2>1, <2>2, <3>1 DEF AuditEvent, Registry!RecordRemoval
        <3> QED  BY <3>1, <3>2 DEF Registry!Next
    <2>3. CASE req[q].op = "consolidate"
        <3>1. /\ req[q].id \in Ids /\ req[q].duplicate \in Ids
              /\ conns[req[q].duplicate].state \in Routes
              /\ conns[req[q].duplicate].into = req[q].id
            BY <1>t, <2>1, <2>3, InputFields DEF Committed, CommittedAt
        <3>2. Registry!RecordMerge(req[q].id, req[q].duplicate)
            BY <2>1, <2>3, <3>1 DEF AuditEvent, Registry!RecordMerge
        <3> QED  BY <3>1, <3>2 DEF Registry!Next
    <2>4. CASE req[q].op \notin {"remove", "consolidate"}
        BY <2>1, <2>4 DEF AuditEvent
    <2> QED  BY <2>2, <2>3, <2>4
<1>6. CASE UNCHANGED connDb
    BY <1>6 DEF connDb, RouteRows
<1> QED
    BY <1>1, <1>2, <1>3, <1>4, <1>5, <1>6
    DEF Next, Begin, LoadConnection, Step, Abort, Fails, connVars,
        LoadDuplicate, LoadDuplicateFails, UpdateSettingsFails, ArchiveFails, LockCanonical,
        LockDuplicate, LockFails, MergeFails, DeadlockDetected, Reread, RereadFails

\* Whatever requests run at once and wherever they end, the connections are those
\* of a registry whose operations each take effect at one instant: a consolidation
\* is atomic although it compares, locks and writes in six steps, and an update
\* that is late does not reach an archived connection (ConsolidateEndpoint,
\* UpdateSettings, Remove, Create).
THEOREM RegistryImplemented == Spec => RegistrySpec
<1>1. Init => Registry!Init
    BY DEF Init, NoConn, RouteRows, Registry!Init
<1>2. Init => SameKind
    BY DEF Init, SameKind
<1>3. ConnInv => ConnTypeInv /\ Locked
    BY DEF ConnInv
<1> QED
    BY ConnInvariant, SameKindStep, RegistryStep, <1>1, <1>2, <1>3, PTL
    DEF Spec, RegistrySpec, Registry!Spec
=============================================================================
