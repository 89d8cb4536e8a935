--------------------------- MODULE ConnectionRegistry ---------------------------
(***************************************************************************)
(* What the runtime connections of an organization promise, independently  *)
(* of statements, row locks, waiting, deadlocks and requests that end      *)
(* half-way: a registry in which every operation takes effect at one       *)
(* instant.  Connections in use differ in type or address; one that is     *)
(* archived, by removal or by merging it into another one, is never        *)
(* written again; when one is merged both are in use and of one type, and  *)
(* its address becomes a route of the other one, for good; and what is on  *)
(* record as archived was archived that way.                               *)
(***************************************************************************)
EXTENDS Naturals

CONSTANTS Ids, Urls, Kinds, Routes, None

VARIABLES
    conns,      \* conns[c]: state, type, address, and what it was merged into
    routes,     \* the addresses of merged connections
    audit       \* the archivals on record: <<event, connection, other connection>>

Init ==
    /\ conns = [c \in Ids |-> [state |-> "none", kind |-> None, url |-> None, into |-> None]]
    /\ routes = {}
    /\ audit = {}

InUse(c) == conns[c].state = "active"

\* No connection but c is in use with that type and address.
Free(c, kind, url) ==
    \A d \in Ids \ {c} : ~(InUse(d) /\ conns[d].kind = kind /\ conns[d].url = url)

Create(c) ==
    /\ conns[c].state = "none"
    /\ \E kind \in Kinds, url \in Urls :
          /\ Free(c, kind, url)
          /\ conns' = [conns EXCEPT ![c] = [state |-> "active", kind |-> kind, url |-> url,
                                            into |-> None]]
    /\ UNCHANGED <<routes, audit>>

Readdress(c) ==
    /\ InUse(c)
    /\ \E url \in Urls :
          /\ Free(c, conns[c].kind, url)
          /\ \A r \in routes : r.owner = c => r.url # url
          /\ conns' = [conns EXCEPT ![c].url = url]
    /\ UNCHANGED <<routes, audit>>

Remove(c) ==
    /\ InUse(c)
    /\ conns' = [conns EXCEPT ![c].state = "removed"]
    /\ UNCHANGED <<routes, audit>>

\* d is merged into c.
Merge(c, d) ==
    /\ c # d
    /\ InUse(c) /\ InUse(d)
    /\ conns[c].kind = conns[d].kind
    /\ \A r \in routes : r.owner = c => r.url # conns[d].url
    /\ \E as \in Routes :
          /\ conns' = [conns EXCEPT ![d] = [state |-> as, kind |-> conns[d].kind,
                                            url |-> conns[d].url, into |-> c]]
          /\ routes' = routes \cup {[owner |-> c, url |-> conns[d].url, kind |-> as, source |-> d]}
    /\ UNCHANGED audit

RecordRemoval(c) ==
    /\ conns[c].state = "removed"
    /\ audit' = audit \cup {<<"removed", c, None>>}
    /\ UNCHANGED <<conns, routes>>

RecordMerge(c, d) ==
    /\ conns[d].state \in Routes /\ conns[d].into = c
    /\ audit' = audit \cup {<<"consolidated", d, c>>}
    /\ UNCHANGED <<conns, routes>>

Next ==
    \/ \E c \in Ids : Create(c) \/ Readdress(c) \/ Remove(c) \/ RecordRemoval(c)
    \/ \E c, d \in Ids : Merge(c, d) \/ RecordMerge(c, d)

Spec == Init /\ [][Next]_<<conns, routes, audit>>
=============================================================================
