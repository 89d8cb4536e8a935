------------------------------ MODULE Connections ------------------------------
(***************************************************************************)
(* Runtime connections and their endpoint routes in one organization:      *)
(* RuntimeConnectionService (Create, UpdateSettings, Remove,               *)
(* ConsolidateEndpoint) over RuntimeConnectionRepository.                  *)
(*                                                                         *)
(* Requests are concurrent.  One action is one statement or, where the     *)
(* transaction takes no second row lock, one transaction.  Consolidation   *)
(* locks two rows one after the other (SELECT ... FOR UPDATE) and is       *)
(* modelled statement by statement: a statement waits for a row that is    *)
(* locked and then sees what the lock's holder committed.  Requests that   *)
(* the validation refuses change nothing and are left out, as is what a    *)
(* connection carries besides its kind and its address (archiving also     *)
(* switches its sync off).                                                 *)
(***************************************************************************)
EXTENDS Naturals, FiniteSets

CONSTANTS
    Ids,        \* connection ids, in the order they are given out
    Urls,       \* normalized endpoint addresses
    Kinds,      \* runtime types
    Routes,     \* the routes a duplicate is turned into
    Requests,   \* concurrent calls of the service
    None,       \* no id, no lock, no input
    Faults      \* the faults the environment may inject

ASSUME IdsAssumption == Ids \subseteq Nat

ASSUME NoneAssumption == None \notin Ids /\ None \notin Requests

ASSUME RoutesAssumption == Routes \subseteq {"alias", "relay"}

(***************************************************************************)
(*  abort     the request ends between two statements: its context is done,*)
(*            its process dies, or a statement fails                       *)
(***************************************************************************)
ASSUME ConnectionFaultsAssumption == Faults \subseteq {"abort"}

VARIABLES
    conns,      \* runtime_connections
    endpoints,  \* runtime_connection_endpoints
    locks,      \* locks[c]: the request that holds the row lock of c
    audit,      \* audit_events: <<event, connection, other connection>>
    pc,         \* pc[q]: the next step of request q
    req         \* req[q]: the input of request q

connDb == <<conns, endpoints, audit>>
connVars == <<connDb, locks, pc, req>>

\* archive_kind, or that the connection is there or is not.
States == {"none", "active", "removed"} \cup Routes

ConnRow == [state : States, kind : Kinds \cup {None}, url : Urls \cup {None},
            into : Ids \cup {None}]

NoConn == [state |-> "none", kind |-> None, url |-> None, into |-> None]

EndpointRow == [owner : Ids, url : Urls, kind : {"canonical"} \cup Routes, source : Ids \cup {None}]

Inputs == [op : {"create"}, kind : Kinds, url : Urls]
          \cup [op : {"settings"}, id : Ids, url : Urls]
          \cup [op : {"remove"}, id : Ids]
          \cup {in \in [op : {"consolidate"}, id : Ids, duplicate : Ids, as : Routes] :
                   in.id # in.duplicate}

ConnSteps == {"idle", "loadingDuplicate", "updating", "archiving",
              "lockingCanonical", "lockingDuplicate", "merging", "rereading", "auditing"}

\* The events that archive a connection; the two others, created and
\* settings_updated, only take their turn.
AuditEvents == ({"removed"} \X Ids \X {None}) \cup ({"consolidated"} \X Ids \X Ids)

ConnTypeOK ==
    /\ conns \in [Ids -> ConnRow]
    /\ endpoints \subseteq EndpointRow
    /\ locks \in [Ids -> Requests \cup {None}]
    /\ audit \subseteq AuditEvents
    /\ pc \in [Requests -> ConnSteps]
    /\ req \in [Requests -> Inputs \cup {None}]

Init ==
    /\ conns = [c \in Ids |-> NoConn]
    /\ endpoints = {}
    /\ locks = [c \in Ids |-> None]
    /\ audit = {}
    /\ pc = [q \in Requests |-> "idle"]
    /\ req = [q \in Requests |-> None]

-----------------------------------------------------------------------------
Exists(c) == conns[c].state # "none"

\* newID never gives an id out twice.
NewId(c) == ~Exists(c) /\ \A d \in Ids : ~Exists(d) => c <= d

Active(c) == conns[c].state = "active"

Archived(c) == conns[c].state \in {"removed"} \cup Routes

\* idx_runtime_connections_org_endpoint: one active connection per address.
AddressFree(c, kind, url) ==
    \A d \in Ids \ {c} : ~(Active(d) /\ conns[d].kind = kind /\ conns[d].url = url)

\* runtime_connection_endpoints_owner_url_unique_idx
RouteFree(rows, c, url) == \A e \in rows : ~(e.owner = c /\ e.url = url)

CanonicalRow(c, url) == [owner |-> c, url |-> url, kind |-> "canonical", source |-> None]

CanonicalRows(c) == {e \in endpoints : e.owner = c /\ e.kind = "canonical"}

\* Row c, and endpoint e, with the columns an update sets.
Row(c, state, url, into) == [state |-> state, kind |-> conns[c].kind, url |-> url, into |-> into]

Readdressed(e, url) == [owner |-> e.owner, url |-> url, kind |-> e.kind, source |-> e.source]

\* A statement that writes or locks row c waits for the request that holds it.
RowFree(q, c) == locks[c] \in {None, q}

\* Commit and rollback give up the row locks.
Released(q) == [c \in Ids |-> IF locks[c] = q THEN None ELSE locks[c]]

GoTo(q, step) == pc' = [pc EXCEPT ![q] = step] /\ UNCHANGED req

Return(q) ==
    /\ pc' = [pc EXCEPT ![q] = "idle"]
    /\ req' = [req EXCEPT ![q] = None]

Fails(q) == Return(q) /\ locks' = Released(q) /\ UNCHANGED connDb

-----------------------------------------------------------------------------
\* Create: the connection and its canonical endpoint, in one transaction.
CreateConnection(q, in) ==
    /\ in.op = "create"
    /\ \E c \in Ids :
          /\ NewId(c)
          /\ AddressFree(c, in.kind, in.url)
          /\ conns' = [conns EXCEPT ![c] = [state |-> "active", kind |-> in.kind,
                           url |-> in.url, into |-> None]]
          /\ endpoints' = endpoints \cup {CanonicalRow(c, in.url)}
    /\ pc' = [pc EXCEPT ![q] = "auditing"]
    /\ UNCHANGED <<audit, locks>>

\* The first step of the operation proper.
AfterLoad(op) ==
    IF op = "settings" THEN "updating" ELSE IF op = "remove" THEN "archiving" ELSE "loadingDuplicate"

\* Get of the connection the request names.  Settings that do not change the
\* address are left out.
LoadConnection(q, in) ==
    /\ in.op # "create"
    /\ Active(in.id)
    /\ in.op = "settings" => in.url # conns[in.id].url
    /\ pc' = [pc EXCEPT ![q] = AfterLoad(in.op)]
    /\ UNCHANGED <<connDb, locks>>

\* A request begins with its first statement; one that this statement refuses
\* ends there.
Begin(q) ==
    /\ pc[q] = "idle"
    /\ \E in \in Inputs :
          /\ CreateConnection(q, in) \/ LoadConnection(q, in)
          /\ req' = [req EXCEPT ![q] = in]

\* Get of the duplicate, and the comparison of the two runtime types.
LoadDuplicate(q) ==
    /\ pc[q] = "loadingDuplicate"
    /\ Active(req[q].duplicate)
    /\ conns[req[q].id].kind = conns[req[q].duplicate].kind
    /\ GoTo(q, "lockingCanonical")
    /\ UNCHANGED <<connDb, locks>>

LoadDuplicateFails(q) ==
    /\ pc[q] = "loadingDuplicate"
    /\ ~(Active(req[q].duplicate) /\ conns[req[q].id].kind = conns[req[q].duplicate].kind)
    /\ Fails(q)

-----------------------------------------------------------------------------
\* Mutant: the connection is updated whether or not it is archived.
SettingsRow_Archived(c, in) == Row(c, conns[c].state, in.url, conns[c].into)

\* UPDATE runtime_connections ... WHERE archived_at IS NULL
SettingsRow(c, in) ==
    IF Active(c) THEN Row(c, conns[c].state, in.url, conns[c].into) ELSE conns[c]

\* Mutant: the canonical endpoint is not updated.
SettingsEndpoints_Missing(c, url) == endpoints

\* Mutant: every route of the connection is updated.
SettingsEndpoints_Every(c, url) ==
    {e \in endpoints : e.owner # c} \cup {Readdressed(e, url) : e \in {r \in endpoints : r.owner = c}}

\* UPDATE runtime_connection_endpoints ... WHERE kind = 'canonical'
SettingsEndpoints(c, url) ==
    (endpoints \ CanonicalRows(c)) \cup {Readdressed(e, url) : e \in CanonicalRows(c)}

SettingsAllowed(c, in) ==
    /\ Active(c) => AddressFree(c, conns[c].kind, in.url)
    /\ RouteFree(endpoints \ CanonicalRows(c), c, in.url)

\* UpdateSettings: both updates in one transaction, the second of them also
\* when the first has found the connection archived.
UpdateSettings(q) ==
    LET c == req[q].id
    IN  /\ pc[q] = "updating"
        /\ Active(c) => RowFree(q, c)
        /\ SettingsAllowed(c, req[q])
        /\ conns' = [conns EXCEPT ![c] = SettingsRow(c, req[q])]
        /\ endpoints' = SettingsEndpoints(c, req[q].url)
        /\ GoTo(q, "rereading")
        /\ UNCHANGED <<audit, locks>>

UpdateSettingsFails(q) ==
    /\ pc[q] = "updating"
    /\ Active(req[q].id) => RowFree(q, req[q].id)
    /\ ~SettingsAllowed(req[q].id, req[q])
    /\ Fails(q)

\* Mutant: a connection that is archived already is archived again.
ArchivesRow_Again(c) == Exists(c)

\* UPDATE ... WHERE archived_at IS NULL has found the row.
ArchivesRow(c) == Active(c)

Archive(q) ==
    LET c == req[q].id
    IN  /\ pc[q] = "archiving"
        /\ RowFree(q, c)
        /\ ArchivesRow(c)
        /\ conns' = [conns EXCEPT ![c] = Row(c, "removed", conns[c].url, conns[c].into)]
        /\ GoTo(q, "auditing")
        /\ UNCHANGED <<endpoints, audit, locks>>

\* No row is affected.
ArchiveFails(q) == pc[q] = "archiving" /\ ~ArchivesRow(req[q].id) /\ Fails(q)

-----------------------------------------------------------------------------
\* Mutant: the canonical connection is only read, and nothing keeps it active.
LockedRows_Duplicate(q) == [locks EXCEPT ![req[q].duplicate] = IF pc[q] = "lockingDuplicate" THEN q ELSE @]

\* SELECT ... FOR UPDATE of the row this step is about.
LockedRows(q) ==
    [locks EXCEPT ![IF pc[q] = "lockingCanonical" THEN req[q].id ELSE req[q].duplicate] = q]

LockCanonical(q) ==
    /\ pc[q] = "lockingCanonical"
    /\ RowFree(q, req[q].id)
    /\ Active(req[q].id)
    /\ locks' = LockedRows(q)
    /\ GoTo(q, "lockingDuplicate")
    /\ UNCHANGED connDb

LockDuplicate(q) ==
    /\ pc[q] = "lockingDuplicate"
    /\ RowFree(q, req[q].duplicate)
    /\ Active(req[q].duplicate)
    /\ locks' = LockedRows(q)
    /\ GoTo(q, "merging")
    /\ UNCHANGED connDb

LockFails(q) ==
    /\ \/ pc[q] = "lockingCanonical" /\ ~Active(req[q].id)
       \/ pc[q] = "lockingDuplicate" /\ ~Active(req[q].duplicate)
    /\ Fails(q)

\* The duplicate as it is archived.
MergedRow(d, c, as) == Row(d, as, conns[d].url, c)

\* The endpoint row, the archived duplicate, and the commit.
Merge(q) ==
    LET c == req[q].id
        d == req[q].duplicate
    IN  /\ pc[q] = "merging"
        /\ RouteFree(endpoints, c, conns[d].url)
        /\ endpoints' = endpoints \cup {[owner |-> c, url |-> conns[d].url,
                                         kind |-> req[q].as, source |-> d]}
        /\ conns' = [conns EXCEPT ![d] = MergedRow(d, c, req[q].as)]
        /\ locks' = Released(q)
        /\ GoTo(q, "rereading")
        /\ UNCHANGED audit

\* Mutant: the failed transaction is not rolled back.
MergeFails_Leak(q) ==
    /\ pc[q] = "merging"
    /\ ~RouteFree(endpoints, req[q].id, conns[req[q].duplicate].url)
    /\ Return(q)
    /\ UNCHANGED <<connDb, locks>>

\* The canonical connection has a route with that address already.
MergeFails(q) ==
    /\ pc[q] = "merging"
    /\ ~RouteFree(endpoints, req[q].id, conns[req[q].duplicate].url)
    /\ Fails(q)

Waits(q, c) ==
    \/ pc[q] = "lockingCanonical" /\ req[q].id = c
    \/ pc[q] = "lockingDuplicate" /\ req[q].duplicate = c

\* PostgreSQL breaks a cycle of waiting transactions by aborting one of them.
DeadlockDetected(q) ==
    /\ \E r \in Requests \ {q} : \E c, d \in Ids :
          /\ locks[c] = q /\ Waits(r, c)
          /\ locks[d] = r /\ Waits(q, d)
    /\ Fails(q)

-----------------------------------------------------------------------------
\* The connection that UpdateSettings and ConsolidateEndpoint answer with.
Reread(q) ==
    /\ pc[q] = "rereading"
    /\ Active(req[q].id)
    /\ GoTo(q, "auditing")
    /\ UNCHANGED <<connDb, locks>>

\* It has been archived by then: an error, and no audit event.
RereadFails(q) == pc[q] = "rereading" /\ ~Active(req[q].id) /\ Fails(q)

AuditEvent(q) ==
    IF req[q].op = "remove" THEN {<<"removed", req[q].id, None>>}
    ELSE IF req[q].op = "consolidate" THEN {<<"consolidated", req[q].duplicate, req[q].id>>}
    ELSE {}

Audit(q) ==
    /\ pc[q] = "auditing"
    /\ audit' = audit \cup AuditEvent(q)
    /\ Return(q)
    /\ UNCHANGED <<conns, endpoints, locks>>

\* The request ends with an error; what it committed stays.
Abort(q) ==
    /\ "abort" \in Faults
    /\ pc[q] # "idle"
    /\ Fails(q)

Step(q) ==
    \/ LoadDuplicate(q) \/ LoadDuplicateFails(q)
    \/ UpdateSettings(q) \/ UpdateSettingsFails(q)
    \/ Archive(q) \/ ArchiveFails(q)
    \/ LockCanonical(q) \/ LockDuplicate(q) \/ LockFails(q)
    \/ Merge(q) \/ MergeFails(q)
    \/ DeadlockDetected(q)
    \/ Reread(q) \/ RereadFails(q)
    \/ Audit(q)

Next == \E q \in Requests : Begin(q) \/ Step(q) \/ Abort(q)

\* A goroutine runs, a statement ends, the database breaks deadlocks and serves
\* the waiters of a row in turn: a request that can take a step again and again
\* takes it.  Requests need not arrive.
Spec == Init /\ [][Next]_connVars /\ \A q \in Requests : SF_connVars(Step(q))

-----------------------------------------------------------------------------
\* Following merged_into from any connection ends: there is no set of
\* connections that are all merged into each other, although consolidations in
\* opposite directions run at once (ConsolidateEndpoint).
MergesEnd ==
    \A S \in SUBSET Ids : S # {} => \E c \in S : conns[c].into \notin S

\* A connection that is in use is reached by the address it shows: it has one
\* canonical endpoint row, with that address (Create, UpdateSettings).
ActiveIsRouted ==
    \A c \in Ids : Active(c) => CanonicalRows(c) = {CanonicalRow(c, conns[c].url)}

\* The address of a merged connection stays a route of the connection it was
\* merged into, whatever later happens to either (ConsolidateEndpoint,
\* UpdateSettings).
MergedIsRouted ==
    \A d \in Ids : conns[d].state \in Routes =>
        [owner |-> conns[d].into, url |-> conns[d].url, kind |-> conns[d].state, source |-> d]
            \in endpoints

\* The audit trail tells what happened: of a removal and a consolidation of one
\* connection that race, only the one that archived it is on record
\* (Remove, ConsolidateEndpoint).
ArchiveAuditAgrees ==
    \A c \in Ids :
        /\ <<"removed", c, None>> \in audit => conns[c].state = "removed"
        /\ \A d \in Ids : <<"consolidated", c, d>> \in audit =>
               conns[c].state \in Routes /\ conns[c].into = d

\* An archived connection stays as it was archived; no update that was under
\* way moves it and no later removal takes it from the connection it was merged
\* into (Archive, UpdateSettings).
ArchivedIsFinal ==
    [][\A c \in Ids : Archived(c) => conns'[c] = conns[c]]_connVars

\* Every request ends, also when two consolidations wait for each other, and no
\* row stays locked behind it (ConsolidateEndpoint).
RequestsEnd == \A q \in Requests : pc[q] # "idle" ~> pc[q] = "idle"

\* "Aliases and relays are not runtime instances": no connection in use has the
\* address of a route of another one (Create, UpdateSettings).
RoutesAreNotInstances ==
    \A c, d \in Ids : \A e \in endpoints :
        Active(c) /\ Active(d) /\ e.owner = d /\ e.kind \in Routes =>
            ~(conns[c].kind = conns[d].kind /\ conns[c].url = e.url /\ c # d)

\* The rows that turned an address into a route of another connection.
RouteRows == {e \in endpoints : e.kind \in Routes}

Registry == INSTANCE ConnectionRegistry WITH routes <- RouteRows

\* Every request takes effect at one instant, also a consolidation, whose two
\* locks are taken one after the other: the rows and the routes are those of
\* ConnectionRegistry; what an update leaves of an archived connection's own
\* endpoint is hidden (ConsolidateEndpoint, UpdateSettings).
RegistrySpec == Registry!Spec
=============================================================================
