---------------------------- MODULE Telemetry_proofs ----------------------------
(***************************************************************************)
(* Proofs about Telemetry, for any connections, records, windows, ranges   *)
(* and pushes.  The argument: a key has one row, whose time may change but *)
(* which is never taken away; a window that was asked for is stored up to  *)
(* what its collector has left; and of two adjacent windows one is asked   *)
(* for after a record of the first has appeared and reaches back to it.    *)
(***************************************************************************)
EXTENDS Telemetry, FiniteSetTheorems, TLAPS

\* The unique index of usage_observations.
KeysUnique == \A o, r \in rows : SameKey(o, r) => o = r

BaseInv == TelemetryTypeOK /\ KeysUnique

\* One of them has the key of o.
Among(o, os) == \E x \in os : SameKey(o, x)

\* Rows are replaced, never taken away.
KeysKept == \A r \in rows : Among(r, rows')

-----------------------------------------------------------------------------
\* One turn of the loop over a batch: err and left become b.err and b.left.
TurnOf(left, err, o, b) ==
    /\ b.left \subseteq left /\ b.err \in Errs
    /\ \A r \in rows : Among(r, b.rows)
    /\ \A x \in b.rows : x \in Observation /\ x.valid /\ x.conn \in Conns
    /\ \A x, y \in b.rows : SameKey(x, y) => x = y
    /\ b.err = "none" => err = "none" /\ o.valid
    /\ b.err # "failed" => err # "failed" /\ b.left = left \ {o}
    /\ b.err # "failed" /\ o.valid => o.conn \in Conns /\ Among(o, b.rows)

\* That is what Ingest does.
LEMMA IngestFacts ==
    ASSUME BaseInv, NEW left \in SUBSET Observation, NEW err \in Errs,
           NEW o \in left, NEW b \in Ingest(left, err, o)
    PROVE  TurnOf(left, err, o, b)
<1>y. /\ rows \subseteq {x \in Observation : x.valid /\ x.conn \in Conns}
      /\ \A x, y \in rows : SameKey(x, y) => x = y
      /\ \A x \in rows : SameKey(x, x) /\ Among(x, rows)
    BY DEF BaseInv, TelemetryTypeOK, KeysUnique, SameKey, Among
<1>1. CASE b = [left |-> left \ {o}, err |-> NextErr(err, "rejected"), rows |-> rows] /\ ~o.valid
    <2>1. b.left = left \ {o} /\ b.err = NextErr(err, "rejected") /\ b.rows = rows
        BY <1>1
    <2>2. NextErr(err, "rejected") \in Errs \ {"none"}
        BY DEF NextErr, Errs
    <2>3. NextErr(err, "rejected") # "failed" => err # "failed"
        BY DEF NextErr, Errs
    <2> QED  BY <1>1, <1>y, <2>1, <2>2, <2>3 DEF TurnOf
<1>2. CASE b = [left |-> {}, err |-> "failed", rows |-> rows]
    <2>1. b.left = {} /\ b.err = "failed" /\ b.rows = rows
        BY <1>2
    <2> QED  BY <1>y, <2>1 DEF Errs, TurnOf
<1>3. CASE /\ b = [left |-> left \ {o}, err |-> err, rows |-> Upserted(o)]
           /\ o.valid /\ o.conn \in Conns
    <2>1. b.left = left \ {o} /\ b.err = err /\ b.rows = Upserted(o)
        BY <1>3
    <2>2. o \in Observation /\ o \in Upserted(o) /\ SameKey(o, o) /\ Among(o, Upserted(o))
        BY DEF Upserted, SameKey, Among
    <2>3. ASSUME NEW r \in rows PROVE Among(r, Upserted(o))
        <3>1. CASE SameKey(o, r)
            <4>1. SameKey(r, o)
                BY <3>1 DEF SameKey
            <4> QED  BY <2>2, <4>1 DEF Among
        <3>2. CASE ~SameKey(o, r)
            BY <1>y, <3>2 DEF Upserted, Among
        <3> QED  BY <3>1, <3>2
    <2>4. \A x \in Upserted(o) : x = o \/ (x \in rows /\ ~SameKey(o, x))
        BY DEF Upserted
    <2>5. \A x, y \in Upserted(o) : SameKey(x, y) => SameKey(y, x)
        BY DEF SameKey
    <2>6. \A x, y \in Upserted(o) : SameKey(x, y) => x = y
        BY <1>y, <2>4, <2>5
    <2>7. \A x \in Upserted(o) : x \in Observation /\ x.valid /\ x.conn \in Conns
        BY <1>3, <1>y, <2>2, <2>4
    <2> QED  BY <1>3, <2>1, <2>2, <2>3, <2>6, <2>7 DEF TurnOf
<1> QED  BY <1>1, <1>2, <1>3 DEF Ingest, Refused

-----------------------------------------------------------------------------
\* Windows end within the bound and begin where their arithmetic says.
LEMMA WindowFacts ==
    ASSUME NEW t \in Nat
    PROVE  /\ ClosedWindow(t) \in Nat /\ ClosedWindow(t) <= t
           /\ t < ClosedWindow(t) + Window
<1>1. Window \in Nat /\ Window > 0
    BY WindowAssumption
<1>2. t % Window \in 0 .. (Window - 1) /\ t % Window <= t
    BY <1>1
<1> QED  BY <1>1, <1>2 DEF ClosedWindow

\* What a record becomes is an observation of its connection, whose key stays the
\* same when a LangSmith run ends.
LEMMA ObservationFacts ==
    ASSUME NEW r \in Record, NEW to \in Times
    PROVE  /\ ObservationOf(r, to) \in Observation
           /\ ObservationOf(r, to).conn = r.conn
           /\ \A x \in Record : x.conn = r.conn /\ x.at = r.at /\ x.conn \notin Gantry =>
                  SameKey(ObservationOf(x, to), ObservationOf(r, to))
<1>1. /\ r.conn \in Conns /\ r.at \in Nat /\ r.time \in Nat /\ to \in Nat
      /\ r.form \in {"stamped", "untimed", "unstamped", "open", "invalid"}
    BY BoundsAssumption DEF Record, Conns, Times
<1>2. GantryObservation(r, to) \in Observation /\ LangSmithObservation(r) \in Observation
    BY <1>1 DEF GantryObservation, LangSmithObservation, Observation, ObservationIds, Sources
<1>3. /\ GantryObservation(r, to).conn = r.conn
      /\ LangSmithObservation(r).conn = r.conn
    BY DEF GantryObservation, LangSmithObservation
<1>4. \A x \in Record : x.conn = r.conn /\ x.at = r.at =>
          SameKey(LangSmithObservation(x), LangSmithObservation(r))
    BY DEF LangSmithObservation, SameKey
<1> QED  BY <1>2, <1>3, <1>4 DEF ObservationOf

\* What is pushed is an observation too.
LEMMA SpanFacts ==
    ASSUME BaseInv, NEW spans \in SUBSET PushedSpans, NEW o \in NormalizeOTLP(spans)
    PROVE  o \in Observation
<1>1. PICK s \in PushedSpans : o = SpanObservation(s)
    BY DEF NormalizeOTLP
<1>2. s.conn \in Conns \cup {Unknown} /\ s.at \in Nat /\ now \in Nat
    BY <1>1, BoundsAssumption
    DEF PushedSpans, BaseInv, TelemetryTypeOK, Record, Times, Conns
<1> QED  BY <1>1, <1>2 DEF SpanObservation, Observation, ObservationIds, Sources

ColType == [pc : {"idle", "creating", "querying", "storing", "finishing"},
            to : Times, left : SUBSET Observation, err : Errs]

PushType == [pc : {"idle", "storing"}, batch : SUBSET Observation,
             left : SUBSET Observation, accepted : BOOLEAN, err : Errs]

ReadType == [pc : {"idle", "models", "series"}, conn : Conns \cup {None},
             source : Sources \cup {None}, from : Nat, to : Nat, found : SUBSET Observation]

\* Initially nothing is stored or asked for.
LEMMA BaseInit == Init => BaseInv
<1> SUFFICES ASSUME Init PROVE BaseInv
    OBVIOUS
<1>1. 0 \in Times
    BY BoundsAssumption DEF Times
<1>2. /\ col \in [Conns -> [pc : {"idle", "creating", "querying", "storing", "finishing"},
                            to : Times, left : SUBSET Observation, err : Errs]]
      /\ push \in [Pushes -> [pc : {"idle", "storing"}, batch : SUBSET Observation,
                              left : SUBSET Observation, accepted : BOOLEAN, err : Errs]]
      /\ read \in ReadType
    BY <1>1 DEF Init, NoCollector, NoPush, NoRead, ReadType, Errs
<1>3. TelemetryTypeOK
    BY <1>1, <1>2 DEF Init, TelemetryTypeOK, ReadType
<1> QED  BY <1>3 DEF Init, BaseInv, KeysUnique

\* A step that changes one collector, one push or none, and takes no key away.
LEMMA BaseKept ==
    ASSUME BaseInv,
           now' \in Times, records' \subseteq Record, done' \in [Conns -> SUBSET Times],
           worker' \in {"idle", "collecting"},
           read' \in ReadType,
           \/ rows' = rows
           \/ /\ rows' \subseteq {x \in Observation : x.valid /\ x.conn \in Conns}
              /\ KeysUnique' /\ KeysKept,
           \/ col' = col
           \/ \E c \in Conns : \E x \in ColType : col' = [col EXCEPT ![c] = x]
           \/ col' \in [Conns -> ColType],
           \/ push' = push
           \/ \E p \in Pushes : \E x \in PushType : push' = [push EXCEPT ![p] = x]
           \/ push' = [p \in Pushes |-> NoPush]
    PROVE  BaseInv' /\ KeysKept
<1>y. /\ col \in [Conns -> ColType] /\ push \in [Pushes -> PushType]
      /\ rows \subseteq {x \in Observation : x.valid /\ x.conn \in Conns} /\ KeysUnique
    BY DEF BaseInv, TelemetryTypeOK, ColType, PushType
<1>1. col' \in [Conns -> ColType]
    BY <1>y
<1>2. push' \in [Pushes -> PushType]
    <2>1. NoPush \in PushType
        BY DEF NoPush, PushType, Errs
    <2> QED  BY <1>y, <2>1
<1>3. /\ rows' \subseteq {x \in Observation : x.valid /\ x.conn \in Conns}
      /\ KeysUnique' /\ KeysKept
    <2>1. CASE rows' = rows
        <3>1. KeysUnique' /\ KeysKept
            BY <1>y, <2>1 DEF KeysUnique, KeysKept, Among, SameKey
        <3> QED  BY <1>y, <2>1, <3>1
    <2> QED  BY <2>1
<1> QED  BY <1>1, <1>2, <1>3 DEF BaseInv, TelemetryTypeOK, ColType, PushType, ReadType

\* Every step preserves types and the uniqueness of keys, and no step takes a key
\* away.
LEMMA BaseStep == BaseInv /\ [Next]_telemetryVars => BaseInv' /\ KeysKept
<1> SUFFICES ASSUME BaseInv, [Next]_telemetryVars PROVE BaseInv' /\ KeysKept
    OBVIOUS
<1>y. /\ col \in [Conns -> ColType] /\ push \in [Pushes -> PushType]
      /\ now \in Times /\ records \subseteq Record /\ done \in [Conns -> SUBSET Times]
      /\ worker \in {"idle", "collecting"}
      /\ read \in ReadType
      /\ rows \subseteq {x \in Observation : x.valid /\ x.conn \in Conns}
    BY DEF BaseInv, TelemetryTypeOK, ColType, PushType, ReadType
<1>e. {} \in SUBSET Observation /\ "none" \in Errs /\ "failed" \in Errs /\ 0 \in Times
    BY BoundsAssumption DEF Errs, Times
<1>i. ASSUME NEW left \in SUBSET Observation, NEW err \in Errs, NEW o \in left,
             NEW b \in Ingest(left, err, o), rows' = b.rows
      PROVE  /\ b.left \subseteq left /\ b.err \in Errs
             /\ rows' \subseteq {x \in Observation : x.valid /\ x.conn \in Conns}
             /\ KeysUnique' /\ KeysKept
    <2>1. /\ b.left \subseteq left /\ b.err \in Errs
          /\ \A r \in rows : Among(r, rows')
          /\ \A x \in rows' : x \in Observation /\ x.valid /\ x.conn \in Conns
          /\ \A x, y \in rows' : SameKey(x, y) => x = y
        <3>1. TurnOf(left, err, o, b)
            BY IngestFacts
        <3> QED  BY <1>i, <3>1 DEF TurnOf
    <2> QED  BY <2>1 DEF KeysUnique, KeysKept, Among, SameKey
<1>1. ASSUME NEW c \in Conns, NEW x \in ColType, col' = [col EXCEPT ![c] = x],
             UNCHANGED <<now, records, rows, worker, push, read>>,
             done' \in [Conns -> SUBSET Times]
      PROVE  BaseInv' /\ KeysKept
    BY <1>1, <1>y, BaseKept
<1>2. CASE CollectAll
    <2>1. PICK listed \in SUBSET Conns :
              col' = [c \in Conns |-> IF c \in listed THEN [NoCollector EXCEPT !.pc = "creating"]
                                      ELSE NoCollector]
        BY <1>2 DEF CollectAll
    <2>2. col' \in [Conns -> ColType]
        BY <1>e, <2>1 DEF NoCollector, ColType
    <2> QED  BY <1>2, <1>y, <2>2, BaseKept DEF CollectAll, tables
<1>3. ASSUME NEW c \in Conns, CreateIngestionRun(c) PROVE BaseInv' /\ KeysKept
    <2>1. now \in Nat /\ ClosedWindow(now) \in Times
        BY <1>y, WindowFacts, BoundsAssumption DEF Times
    <2> DEFINE x == [col[c] EXCEPT !.pc = "querying", !.to = ClosedWindow(now)]
    <2>2. x \in ColType
        BY <1>y, <2>1 DEF ColType
    <2> QED  BY <1>1, <1>3, <1>y, <2>2 DEF CreateIngestionRun, tables
<1>4. ASSUME NEW c \in Conns, \/ CreateIngestionRunFails(c) \/ FinishIngestionRun(c)
                              \/ FinishIngestionRunFails(c)
      PROVE  BaseInv' /\ KeysKept
    <2>1. NoCollector \in ColType
        BY <1>e DEF NoCollector, ColType
    <2>2. done' \in [Conns -> SUBSET Times] /\ rows' = rows
        BY <1>4, <1>y DEF CreateIngestionRunFails, FinishIngestionRun, FinishIngestionRunFails,
                          tables, ColType
    <2> QED  BY <1>1, <1>4, <2>1, <2>2
             DEF CreateIngestionRunFails, FinishIngestionRun, FinishIngestionRunFails
<1>5. ASSUME NEW c \in Conns, QueryUsage(c) PROVE BaseInv' /\ KeysKept
    <2> DEFINE x == [col[c] EXCEPT !.pc = "storing", !.left = Answer(c, col[c].to)]
    <2>1. \A o \in Answer(c, col[c].to) : o \in Observation
        <3>1. ASSUME NEW r \in records
              PROVE  ObservationOf(r, col[c].to) \in Observation
            BY <1>y, <3>1, ObservationFacts DEF ColType
        <3> QED  BY <3>1 DEF Answer
    <2>2. x \in ColType
        BY <1>y, <2>1 DEF ColType
    <2>3. col' = [col EXCEPT ![c] = x]
        BY <1>5, <1>y, <2>2 DEF QueryUsage
    <2> HIDE DEF x
    <2> QED  BY <1>1, <1>5, <1>y, <2>2, <2>3 DEF QueryUsage, tables
<1>6. ASSUME NEW c \in Conns, QueryUsageFails(c) \/ IngestReturns(c)
      PROVE  BaseInv' /\ KeysKept
    <2>1. \E x \in ColType : col' = [col EXCEPT ![c] = x]
        <3>1. CASE QueryUsageFails(c)
            <4> DEFINE x == [col[c] EXCEPT !.pc = "finishing", !.err = "failed"]
            <4>1. x \in ColType
                BY <1>e, <1>y DEF ColType
            <4> QED  BY <3>1, <4>1 DEF QueryUsageFails
        <3>2. CASE IngestReturns(c)
            <4> DEFINE x == [col[c] EXCEPT !.pc = "finishing"]
            <4>1. x \in ColType
                BY <1>y DEF ColType
            <4>2. col' = [col EXCEPT ![c] = x]
                BY <3>2, <1>y DEF IngestReturns
            <4> QED  BY <4>1, <4>2
        <3> QED  BY <1>6, <3>1, <3>2
    <2> QED  BY <1>1, <1>6, <1>y, <2>1 DEF QueryUsageFails, IngestReturns, tables
<1>7. ASSUME NEW c \in Conns, IngestRecord(c) PROVE BaseInv' /\ KeysKept
    <2>1. PICK o \in col[c].left : \E b \in Ingest(col[c].left, col[c].err, o) :
              /\ col' = [col EXCEPT ![c] = [@ EXCEPT !.left = b.left, !.err = b.err]]
              /\ rows' = b.rows
        BY <1>7 DEF IngestRecord
    <2>2. PICK b \in Ingest(col[c].left, col[c].err, o) :
              /\ col' = [col EXCEPT ![c] = [@ EXCEPT !.left = b.left, !.err = b.err]]
              /\ rows' = b.rows
        BY <2>1
    <2>3. col[c].left \in SUBSET Observation /\ col[c].err \in Errs
        BY <1>y DEF ColType
    <2>4. /\ b.left \subseteq col[c].left /\ b.err \in Errs
          /\ rows' \subseteq {x \in Observation : x.valid /\ x.conn \in Conns}
          /\ KeysUnique' /\ KeysKept
        BY <2>2, <2>3, <1>i
    <2> DEFINE x == [col[c] EXCEPT !.left = b.left, !.err = b.err]
    <2>5. x \in ColType
        BY <1>y, <2>3, <2>4 DEF ColType
    <2>6. col' = [col EXCEPT ![c] = x]
        BY <1>y, <2>2, <2>4, <2>5
    <2> HIDE DEF x
    <2> QED  BY <1>7, <1>y, <2>4, <2>5, <2>6, BaseKept DEF IngestRecord
<1>8. ASSUME NEW p \in Pushes, NEW x \in PushType, push' = [push EXCEPT ![p] = x],
             UNCHANGED <<now, records, rows, done, worker, col, read>>
      PROVE  BaseInv' /\ KeysKept
    BY <1>8, <1>y, BaseKept
<1>9. ASSUME NEW p \in Pushes, Post(p) PROVE BaseInv' /\ KeysKept
    <2>1. PICK n \in 1..MaxSpans : \E spans \in kSubset(n, PushedSpans) :
              push' = [push EXCEPT ![p] = [NoPush EXCEPT !.pc = "storing",
                                             !.batch = NormalizeOTLP(spans),
                                             !.left = NormalizeOTLP(spans)]]
        BY <1>9 DEF Post
    <2>2. PICK spans \in SUBSET PushedSpans :
              push' = [push EXCEPT ![p] = [NoPush EXCEPT !.pc = "storing",
                                             !.batch = NormalizeOTLP(spans),
                                             !.left = NormalizeOTLP(spans)]]
        BY <2>1 DEF kSubset
    <2>3. \A o \in NormalizeOTLP(spans) : o \in Observation
        BY SpanFacts
    <2> DEFINE x == [NoPush EXCEPT !.pc = "storing", !.batch = NormalizeOTLP(spans),
                                   !.left = NormalizeOTLP(spans)]
    <2>4. x \in PushType
        BY <1>e, <2>3 DEF NoPush, PushType
    <2> QED  BY <1>8, <1>9, <2>2, <2>4 DEF Post, tables
<1>10. ASSUME NEW p \in Pushes, RespondOTLP(p) PROVE BaseInv' /\ KeysKept
    <2>1. NoPush \in PushType
        BY <1>e DEF NoPush, PushType
    <2> QED  BY <1>8, <1>10, <2>1 DEF RespondOTLP, tables
<1>11. ASSUME NEW p \in Pushes, IngestSpan(p) PROVE BaseInv' /\ KeysKept
    <2>1. PICK o \in push[p].left : \E b \in Ingest(push[p].left, push[p].err, o) :
              /\ push' = [push EXCEPT ![p] = [@ EXCEPT !.left = b.left, !.err = b.err,
                             !.accepted = push[p].accepted \/ (b.rows # rows /\ Inserted(o))]]
              /\ rows' = b.rows
        BY <1>11 DEF IngestSpan
    <2>2. PICK b \in Ingest(push[p].left, push[p].err, o) :
              /\ push' = [push EXCEPT ![p] = [@ EXCEPT !.left = b.left, !.err = b.err,
                             !.accepted = push[p].accepted \/ (b.rows # rows /\ Inserted(o))]]
              /\ rows' = b.rows
        BY <2>1
    <2>3. push[p].left \in SUBSET Observation /\ push[p].err \in Errs
        BY <1>y DEF PushType
    <2>4. /\ b.left \subseteq push[p].left /\ b.err \in Errs
          /\ rows' \subseteq {x \in Observation : x.valid /\ x.conn \in Conns}
          /\ KeysUnique' /\ KeysKept
        BY <2>2, <2>3, <1>i
    <2> DEFINE acc == push[p].accepted \/ (b.rows # rows /\ Inserted(o))
               x == [push[p] EXCEPT !.left = b.left, !.err = b.err, !.accepted = acc]
    <2>5. acc \in BOOLEAN
        BY <1>y DEF PushType, Inserted, Stored
    <2>6. push' = [push EXCEPT ![p] = x]
        BY <2>2, Zenon
    <2> HIDE DEF acc
    <2>7. x \in PushType
        BY <1>y, <2>3, <2>4, <2>5 DEF PushType
    <2> HIDE DEF x
    <2> QED  BY <1>11, <1>y, <2>4, <2>6, <2>7, BaseKept DEF IngestSpan
<1>12. CASE Summary
    <2>1. PICK conn \in Conns \cup {None}, source \in Sources \cup {None}, from \in Froms, to \in Tos :
              read' = [pc |-> "models", conn |-> conn, source |-> source, from |-> from, to |-> to,
                       found |-> Chosen(Scoped(conn, from, to), source)]
        BY <1>12 DEF Summary
    <2>2. Chosen(Scoped(conn, from, to), source) \in SUBSET Observation
        BY <1>y DEF Chosen, Scoped
    <2>3. read' \in ReadType
        BY <2>1, <2>2, BoundsAssumption DEF ReadType
    <2> QED  BY <1>12, <1>y, <2>3, BaseKept DEF Summary, tables
<1>13. CASE ModelBreakdown \/ TimeSeries \/ SummaryFails
    <2>1. NoRead \in ReadType
        BY DEF NoRead, ReadType
    <2>2. read' \in ReadType
        BY <1>13, <1>y, <2>1 DEF ModelBreakdown, TimeSeries, SummaryFails, ReadType
    <2> QED  BY <1>13, <1>y, <2>2, BaseKept DEF ModelBreakdown, TimeSeries, SummaryFails, tables
<1>14. CASE Tick
    <2>1. now' \in Times
        BY <1>14, <1>y, BoundsAssumption DEF Tick, Times
    <2> QED  BY <1>14, <1>y, <2>1, BaseKept DEF Tick, tables
<1>15. CASE Report \/ CollectAllReturns
    BY <1>15, <1>y, BaseKept DEF Report, CollectAllReturns, tables
<1>18. CASE EndRun
    <2>1. PICK r \in records :
              /\ r.form = "open"
              /\ records' = (records \ {r}) \cup {[r EXCEPT !.form = "stamped", !.time = now]}
        BY <1>18 DEF EndRun
    <2>2. [r EXCEPT !.form = "stamped", !.time = now] \in Record
        BY <1>y, <2>1 DEF Record
    <2> QED  BY <1>18, <1>y, <2>1, <2>2, BaseKept DEF EndRun, tables
<1>16. CASE Crash
    <2>1. NoRead \in ReadType
        BY DEF NoRead, ReadType
    <2>2. NoCollector \in ColType
        BY <1>e DEF NoCollector, ColType
    <2>3. col' \in [Conns -> ColType]
        BY <1>16, <2>2 DEF Crash
    <2> QED  BY <1>16, <1>y, <2>1, <2>3, BaseKept DEF Crash, tables
<1>17. CASE UNCHANGED telemetryVars
    BY <1>17, <1>y, BaseKept DEF telemetryVars, tables
<1> QED
    BY <1>2, <1>3, <1>4, <1>5, <1>6, <1>7, <1>9, <1>10, <1>11, <1>12, <1>13, <1>14, <1>15, <1>16,
       <1>17, <1>18 DEF Next, CollectOne

LEMMA BaseInvariant == Spec => []BaseInv
<1>1. BaseInv /\ [Next]_telemetryVars => BaseInv'
    BY BaseStep
<1> QED  BY BaseInit, <1>1, PTL DEF Spec

\* Every reachable state is well typed; the rows that are stored are valid and
\* of connections that are there.
THEOREM TelemetryTypeCorrect == Spec => []TelemetryTypeOK
<1>1. BaseInv => TelemetryTypeOK
    BY DEF BaseInv
<1> QED  BY <1>1, BaseInvariant, PTL

-----------------------------------------------------------------------------
(***************************************************************************)
(* One row of a key, one source of a connection.                           *)
(***************************************************************************)

\* The sources of a connection are totally ordered.
LEMMA PrecedenceOrders ==
    \A s, t \in Sources :
        /\ Precedence(s) \in Nat
        /\ Precedence(s) <= Precedence(t) /\ Precedence(t) <= Precedence(s) => s = t
<1> SUFFICES ASSUME NEW s \in Sources, NEW t \in Sources
             PROVE  /\ Precedence(s) \in Nat
                    /\ Precedence(s) <= Precedence(t) /\ Precedence(t) <= Precedence(s) => s = t
    OBVIOUS
<1>1. \A x \in Sources : /\ x = "gantry_native" => Precedence(x) = 1
                         /\ x = "langsmith" => Precedence(x) = 2
                         /\ x = "otel" => Precedence(x) = 3
    BY DEF Precedence, Sources
<1> QED  BY <1>1 DEF Sources

\* However often a window is asked for, whatever is pushed beside it and whatever
\* time a record takes, no summary counts one that carries its id twice
\* (UpsertUsage, selected_sources).
THEOREM CountedOnceCorrect == Spec => []CountedOnce
<1>1. BaseInv => CountedOnce
    <2> SUFFICES ASSUME BaseInv, NEW conn \in Conns \cup {None}, NEW source \in Sources \cup {None},
                        NEW from \in Froms, NEW to \in Tos, NEW r \in records
                 PROVE  Cardinality(Counted(r, conn, source, from, to)) <= 1
        BY DEF CountedOnce
    <2> DEFINE C == Counted(r, conn, source, from, to)
    <2>1. \A o \in C : o \in rows /\ o.source \in Sources
        BY DEF BaseInv, TelemetryTypeOK, Counted, Chosen, Scoped, Observation
    <2>2. ASSUME NEW o \in C, NEW p \in C PROVE o.source = p.source
        <3>1. CASE source # None
            BY <3>1 DEF Counted, Chosen
        <3>2. CASE source = None
            <4>1. o \in Scoped(conn, from, to) /\ p \in Scoped(conn, from, to) /\ o.conn = p.conn
                BY DEF Counted, Chosen
            <4>2. Precedence(o.source) <= Precedence(p.source) /\ Precedence(p.source) <= Precedence(o.source)
                BY <3>2, <4>1 DEF Counted, Chosen
            <4> QED  BY <2>1, <4>2, PrecedenceOrders
        <3> QED  BY <3>1, <3>2
    <2>3. ASSUME NEW o \in C, NEW p \in C PROVE o = p
        <3>1. SameKey(o, p) /\ o \in rows /\ p \in rows
            BY <2>1, <2>2 DEF Counted, SameKey
        <3> QED  BY <3>1 DEF BaseInv, KeysUnique
    <2>4. CASE C = {}
        <3>1. Cardinality({}) <= 1
            BY FS_EmptySet
        <3> QED  BY <2>4, <3>1
    <2>5. ASSUME NEW o \in C PROVE Cardinality(C) <= 1
        <3>1. C = {o}
            BY <2>3
        <3>2. Cardinality({o}) = 1
            BY FS_Singleton
        <3> HIDE DEF C
        <3> QED  BY <3>1, <3>2
    <2> QED  BY <2>4, <2>5
<1> QED  BY <1>1, BaseInvariant, PTL

-----------------------------------------------------------------------------
(***************************************************************************)
(* Windows.                                                                *)
(***************************************************************************)

\* A record that the window up to "to" holds and that was there when it closed.
Due(r, c, to) == r.conn = c /\ WindowStart(to) <= r.at /\ r.at + Lateness < to

WindowsInv ==
    /\ \A c \in Conns :
          /\ col[c].pc \in {"querying", "storing", "finishing"} => col[c].to <= now
          /\ col[c].pc \in {"storing", "finishing"} /\ col[c].err = "none" =>
                 \A r \in records : Due(r, c, col[c].to) =>
                     Among(ObservationOf(r, col[c].to), rows \cup col[c].left)
          /\ col[c].pc = "finishing" /\ col[c].err = "none" => col[c].left = {}
    /\ \A c \in Conns : \A to \in done[c] :
          /\ to <= now
          /\ \A r \in records : Due(r, c, to) => Among(ObservationOf(r, to), rows)

\* What is stored, or left to be stored, stays so, and so does whatever has the
\* same key.
LEMMA StoredStays ==
    ASSUME KeysKept, NEW o, NEW x, SameKey(o, x), NEW left, Among(x, rows \cup left)
    PROVE  Among(o, rows' \cup left)
<1>1. PICK r \in rows \cup left : SameKey(x, r)
    BY DEF Among
<1>2. CASE r \in left
    BY <1>1, <1>2 DEF Among, SameKey
<1>3. CASE r \in rows
    <2>1. PICK y \in rows' : SameKey(r, y)
        BY <1>3 DEF KeysKept, Among
    <2> QED  BY <1>1, <2>1 DEF Among, SameKey
<1> QED  BY <1>1, <1>2, <1>3

\* No record is due in a window that closed before the record appeared, and one
\* that ends was due before, under the same key.
LEMMA RecordsLate ==
    ASSUME BaseInv, records' = records \/ Report \/ EndRun,
           NEW c, NEW to \in Times, to <= now, NEW r \in records', Due(r, c, to)
    PROVE  \E q \in records : Due(q, c, to) /\ SameKey(ObservationOf(r, to), ObservationOf(q, to))
<1>1. CASE r \in records
    BY <1>1, <1>1 DEF SameKey
<1>2. CASE Report /\ r \notin records
    <2>1. PICK x \in Record : /\ x.at <= now /\ now <= x.at + Lateness
                              /\ records' = records \cup {x}
        BY <1>2 DEF Report
    <2>2. x.at \in Nat /\ Lateness \in Nat /\ to \in Nat /\ now \in Nat
        BY LatenessAssumption, BoundsAssumption DEF Record, Times, BaseInv, TelemetryTypeOK
    <2>3. ~(x.at + Lateness < to)
        BY <2>1, <2>2
    <2> QED  BY <1>2, <2>1, <2>3 DEF Due
<1>3. CASE EndRun /\ r \notin records
    <2>1. PICK q \in records :
              /\ q.form = "open"
              /\ records' = (records \ {q}) \cup {[q EXCEPT !.form = "stamped", !.time = now]}
        BY <1>3 DEF EndRun
    <2>2. r = [q EXCEPT !.form = "stamped", !.time = now]
        BY <1>3, <2>1
    <2>3. q \in Record /\ now \in Times
        BY DEF BaseInv, TelemetryTypeOK
    <2>4. q.conn \in LangGraph /\ q.conn \notin Gantry
        BY <2>1, <2>3, ConnsAssumption DEF Record
    <2>5. r \in Record /\ r.conn = q.conn /\ r.at = q.at
        BY <2>1, <2>2, <2>3 DEF Record
    <2>6. SameKey(ObservationOf(r, to), ObservationOf(q, to))
        BY <2>3, <2>4, <2>5, ObservationFacts
    <2> QED  BY <2>5, <2>6 DEF Due
<1> QED  BY <1>1, <1>2, <1>3

\* A step that leaves collectors and finished windows alone keeps what is known of
\* windows.
LEMMA WindowsKept ==
    ASSUME BaseInv, WindowsInv, [Next]_telemetryVars, UNCHANGED <<col, done>>
    PROVE  WindowsInv'
<1>1. KeysKept
    BY BaseStep
<1>y. /\ now \in Nat /\ col \in [Conns -> ColType] /\ done \in [Conns -> SUBSET Times]
      /\ \A c \in Conns : col[c].to \in Times /\ col[c].to \in Nat
      /\ \A c \in Conns : \A to \in done[c] : to \in Times /\ to \in Nat
    BY BoundsAssumption DEF BaseInv, TelemetryTypeOK, Times, ColType
<1>2. now' = now \/ now' = now + 1
    BY DEF Next, CollectOne, CollectAll, CreateIngestionRun, CreateIngestionRunFails, QueryUsage,
           QueryUsageFails, IngestRecord, IngestReturns, FinishIngestionRun, FinishIngestionRunFails,
           CollectAllReturns, Post, IngestSpan, RespondOTLP, Summary, ModelBreakdown, TimeSeries,
           SummaryFails, Tick, Report, EndRun, Crash, telemetryVars
<1>3. records' = records \/ Report \/ EndRun
    BY DEF Next, CollectOne, CollectAll, CreateIngestionRun, CreateIngestionRunFails, QueryUsage,
           QueryUsageFails, IngestRecord, IngestReturns, FinishIngestionRun, FinishIngestionRunFails,
           CollectAllReturns, Post, IngestSpan, RespondOTLP, Summary, ModelBreakdown, TimeSeries,
           SummaryFails, Tick, Crash, telemetryVars
<1>4. ASSUME NEW c \in Conns, NEW to \in Times, to <= now, NEW r \in records', Due(r, c, to)
      PROVE  \E q \in records : Due(q, c, to) /\ SameKey(ObservationOf(r, to), ObservationOf(q, to))
    BY <1>3, <1>4, RecordsLate
<1>5. \A n \in Nat : n <= now => n <= now'
    BY <1>y, <1>2
<1>6. ASSUME NEW c \in Conns, col[c].pc \in {"storing", "finishing"}, col[c].err = "none",
             NEW r \in records', Due(r, c, col[c].to)
      PROVE  Among(ObservationOf(r, col[c].to), rows' \cup col[c].left)
    <2>1. col[c].to <= now /\ col[c].to \in Times
        BY <1>6, <1>y DEF WindowsInv
    <2>2. PICK q \in records :
              /\ Due(q, c, col[c].to)
              /\ SameKey(ObservationOf(r, col[c].to), ObservationOf(q, col[c].to))
        BY <1>4, <1>6, <2>1
    <2>3. Among(ObservationOf(q, col[c].to), rows \cup col[c].left)
        BY <1>6, <2>2 DEF WindowsInv
    <2> QED  BY <1>1, <2>2, <2>3, StoredStays
<1>7. ASSUME NEW c \in Conns, NEW to \in done[c], NEW r \in records', Due(r, c, to)
      PROVE  Among(ObservationOf(r, to), rows')
    <2>1. to <= now /\ to \in Times
        BY <1>y DEF WindowsInv
    <2>2. PICK q \in records : /\ Due(q, c, to)
                               /\ SameKey(ObservationOf(r, to), ObservationOf(q, to))
        BY <1>4, <1>7, <2>1
    <2>3. Among(ObservationOf(q, to), rows \cup {})
        BY <2>2 DEF WindowsInv
    <2>4. Among(ObservationOf(r, to), rows' \cup {})
        BY <1>1, <2>2, <2>3, StoredStays
    <2> QED  BY <2>4
<1> QED  BY <1>5, <1>6, <1>7, <1>y DEF WindowsInv, Due

\* A step of the collector of one connection keeps it too, if it keeps what is
\* known of that connection.
LEMMA WindowsOf ==
    ASSUME BaseInv, WindowsInv, [Next]_telemetryVars, NEW c \in Conns, NEW x \in ColType,
           col' = [col EXCEPT ![c] = x], UNCHANGED <<now, records>>,
           \A d \in Conns \ {c} : done'[d] = done[d],
           x.pc \in {"querying", "storing", "finishing"} => x.to <= now,
           x.pc \in {"storing", "finishing"} /\ x.err = "none" =>
               \A r \in records : Due(r, c, x.to) => Among(ObservationOf(r, x.to), rows' \cup x.left),
           x.pc = "finishing" /\ x.err = "none" => x.left = {},
           \A to \in done'[c] \ done[c] :
               to <= now /\ \A r \in records : Due(r, c, to) => Among(ObservationOf(r, to), rows')
    PROVE  WindowsInv'
<1>1. \A o, left : Among(o, rows \cup left) => Among(o, rows' \cup left)
    <2>1. \A o : SameKey(o, o)
        BY DEF SameKey
    <2> QED  BY <2>1, BaseStep, StoredStays
<1>5. \A o : Among(o, rows) => Among(o, rows')
    <2>1. rows \cup {} = rows /\ rows' \cup {} = rows'
        OBVIOUS
    <2> QED  BY <1>1, <2>1
<1>2. col'[c] = x /\ \A d \in Conns \ {c} : col'[d] = col[d]
    BY DEF BaseInv, TelemetryTypeOK
<1>3. \A d \in Conns :
          /\ col'[d].pc \in {"querying", "storing", "finishing"} => col'[d].to <= now
          /\ col'[d].pc \in {"storing", "finishing"} /\ col'[d].err = "none" =>
                 \A r \in records : Due(r, d, col'[d].to) =>
                     Among(ObservationOf(r, col'[d].to), rows' \cup col'[d].left)
          /\ col'[d].pc = "finishing" /\ col'[d].err = "none" => col'[d].left = {}
    BY <1>1, <1>2 DEF WindowsInv
<1>4. \A d \in Conns : \A to \in done'[d] :
          /\ to <= now
          /\ \A r \in records : Due(r, d, to) => Among(ObservationOf(r, to), rows')
    BY <1>5 DEF WindowsInv
<1> QED  BY <1>3, <1>4 DEF WindowsInv, Due

\* Every step keeps what is known of windows.
LEMMA WindowsStep == BaseInv /\ WindowsInv /\ [Next]_telemetryVars => WindowsInv'
<1> SUFFICES ASSUME BaseInv, WindowsInv, [Next]_telemetryVars PROVE WindowsInv'
    OBVIOUS
<1>y. /\ col \in [Conns -> ColType] /\ done \in [Conns -> SUBSET Times]
      /\ now \in Nat /\ records \subseteq Record
    BY BoundsAssumption DEF BaseInv, TelemetryTypeOK, ColType, Times
<1>s. \A o : SameKey(o, o)
    BY DEF SameKey
<1>k. KeysKept
    BY BaseStep
<1>i. ASSUME NEW left \in SUBSET Observation, NEW err \in Errs, NEW o \in left,
             NEW b \in Ingest(left, err, o)
      PROVE  /\ b.left \subseteq left /\ b.err \in Errs
             /\ (b.err = "none" => err = "none" /\ b.left = left \ {o} /\ Among(o, b.rows))
    <2>1. TurnOf(left, err, o, b)
        BY IngestFacts
    <2> QED  BY <2>1 DEF TurnOf
<1>e. NoCollector \in ColType /\ NoCollector.pc = "idle"
    BY BoundsAssumption DEF NoCollector, ColType, Errs, Times
<1>1. ASSUME \A c \in Conns : col'[c].pc \notin {"querying", "storing", "finishing"},
             UNCHANGED <<now, records, rows, done>>
      PROVE  WindowsInv'
    BY <1>1 DEF WindowsInv, Due
<1>2. CASE CollectAll
    <2>1. \A c \in Conns : col'[c].pc \in {"idle", "creating"}
        BY <1>2 DEF CollectAll, NoCollector
    <2> QED  BY <1>1, <1>2, <2>1 DEF CollectAll, tables
<1>3. CASE Crash
    <2>1. \A c \in Conns : col'[c].pc = "idle"
        BY <1>3 DEF Crash, NoCollector
    <2> QED  BY <1>1, <1>3, <2>1 DEF Crash, tables
<1>4. ASSUME NEW c \in Conns, CreateIngestionRun(c) PROVE WindowsInv'
    <2> DEFINE x == [col[c] EXCEPT !.pc = "querying", !.to = ClosedWindow(now)]
    <2>1. now \in Times /\ ClosedWindow(now) \in Times /\ ClosedWindow(now) <= now
        BY <1>y, WindowFacts, BoundsAssumption DEF Times, BaseInv, TelemetryTypeOK
    <2>2. x \in ColType /\ x.pc = "querying" /\ x.to = ClosedWindow(now)
        BY <1>y, <2>1 DEF ColType
    <2>3. col' = [col EXCEPT ![c] = x] /\ UNCHANGED <<now, records, done>>
        BY <1>4, <1>y DEF CreateIngestionRun, tables
    <2> HIDE DEF x
    <2> QED  BY <2>1, <2>2, <2>3, WindowsOf
<1>5. ASSUME NEW c \in Conns, CreateIngestionRunFails(c) \/ FinishIngestionRunFails(c)
      PROVE  WindowsInv'
    <2>1. col' = [col EXCEPT ![c] = NoCollector] /\ UNCHANGED <<now, records, done>>
        BY <1>5 DEF CreateIngestionRunFails, FinishIngestionRunFails, tables
    <2> QED  BY <1>e, <2>1, WindowsOf
<1>6. ASSUME NEW c \in Conns, FinishIngestionRun(c) PROVE WindowsInv'
    <2>1. /\ col' = [col EXCEPT ![c] = NoCollector] /\ UNCHANGED <<now, records, rows>>
          /\ col[c].pc = "finishing"
        BY <1>6 DEF FinishIngestionRun
    <2>2. /\ \A d \in Conns \ {c} : done'[d] = done[d]
          /\ \A to \in done'[c] \ done[c] : to = col[c].to /\ col[c].err = "none"
        BY <1>6, <1>y DEF FinishIngestionRun
    <2>3. ASSUME NEW to \in done'[c] \ done[c]
          PROVE  /\ to <= now
                 /\ \A r \in records : Due(r, c, to) => Among(ObservationOf(r, to), rows')
        <3>1. /\ to = col[c].to /\ to <= now /\ col[c].left = {}
              /\ \A r \in records : Due(r, c, to) =>
                     Among(ObservationOf(r, to), rows \cup col[c].left)
            BY <2>1, <2>2, <2>3 DEF WindowsInv
        <3>2. rows \cup col[c].left = rows'
            BY <2>1, <3>1
        <3> QED  BY <3>1, <3>2
    <2> QED  BY <1>e, <2>1, <2>2, <2>3, WindowsOf
<1>7. ASSUME NEW c \in Conns, QueryUsage(c) PROVE WindowsInv'
    <2> DEFINE x == [col[c] EXCEPT !.pc = "storing", !.left = Answer(c, col[c].to)]
    <2>1. \A o \in Answer(c, col[c].to) : o \in Observation
        <3>1. ASSUME NEW r \in records PROVE ObservationOf(r, col[c].to) \in Observation
            BY <1>y, <3>1, ObservationFacts DEF ColType
        <3> QED  BY <3>1 DEF Answer
    <2>2. x \in ColType /\ x.pc = "storing" /\ x.to = col[c].to /\ x.left = Answer(c, col[c].to)
        BY <1>y, <2>1 DEF ColType
    <2>3. col' = [col EXCEPT ![c] = x] /\ UNCHANGED <<now, records, done>> /\ col[c].pc = "querying"
        BY <1>7, <1>y DEF QueryUsage, tables
    <2>4. col[c].to <= now
        BY <2>3 DEF WindowsInv
    <2>5. ASSUME NEW r \in records, Due(r, c, col[c].to)
          PROVE  Among(ObservationOf(r, x.to), rows' \cup x.left)
        <3>1. r.at \in Nat /\ col[c].to \in Nat /\ Lateness \in Nat
            BY <1>y, LatenessAssumption, BoundsAssumption DEF Record, Times, ColType
        <3>2. r.at < col[c].to
            BY <2>5, <3>1 DEF Due
        <3>3. ObservationOf(r, col[c].to) \in Answer(c, col[c].to)
            BY <2>5, <3>2 DEF Due, Answer
        <3> QED  BY <1>s, <2>2, <3>3 DEF Among
    <2> HIDE DEF x
    <2> QED  BY <2>2, <2>3, <2>4, <2>5, WindowsOf
<1>8. ASSUME NEW c \in Conns, QueryUsageFails(c) PROVE WindowsInv'
    <2> DEFINE x == [col[c] EXCEPT !.pc = "finishing", !.err = "failed"]
    <2>1. x \in ColType /\ x.pc = "finishing" /\ x.err = "failed" /\ x.to = col[c].to
        BY <1>y DEF ColType, Errs
    <2>2. col' = [col EXCEPT ![c] = x] /\ UNCHANGED <<now, records, done>> /\ col[c].pc = "querying"
        BY <1>8, <1>y DEF QueryUsageFails, tables
    <2>3. col[c].to <= now
        BY <2>2 DEF WindowsInv
    <2> HIDE DEF x
    <2> QED  BY <2>1, <2>2, <2>3, WindowsOf
<1>9. ASSUME NEW c \in Conns, IngestReturns(c) PROVE WindowsInv'
    <2> DEFINE x == [col[c] EXCEPT !.pc = "finishing"]
    <2>1. /\ x \in ColType /\ x.pc = "finishing" /\ x.err = col[c].err /\ x.to = col[c].to
          /\ x.left = col[c].left
        BY <1>y DEF ColType
    <2>2. /\ col' = [col EXCEPT ![c] = x] /\ UNCHANGED <<now, records, rows, done>>
          /\ col[c].pc = "storing" /\ col[c].left = {}
        BY <1>9, <1>y DEF IngestReturns, tables
    <2>3. /\ col[c].to <= now
          /\ col[c].err = "none" =>
                 \A r \in records : Due(r, c, col[c].to) =>
                     Among(ObservationOf(r, col[c].to), rows' \cup col[c].left)
        BY <2>2 DEF WindowsInv
    <2> HIDE DEF x
    <2> QED  BY <2>1, <2>2, <2>3, WindowsOf
<1>10. ASSUME NEW c \in Conns, IngestRecord(c) PROVE WindowsInv'
    <2>1. PICK o \in col[c].left : \E b \in Ingest(col[c].left, col[c].err, o) :
              /\ col' = [col EXCEPT ![c] = [@ EXCEPT !.left = b.left, !.err = b.err]]
              /\ rows' = b.rows
        BY <1>10 DEF IngestRecord
    <2>2. PICK b \in Ingest(col[c].left, col[c].err, o) :
              /\ col' = [col EXCEPT ![c] = [@ EXCEPT !.left = b.left, !.err = b.err]]
              /\ rows' = b.rows
        BY <2>1
    <2>3. col[c].left \in SUBSET Observation /\ col[c].err \in Errs
        BY <1>y DEF ColType
    <2>4. /\ b.left \subseteq col[c].left /\ b.err \in Errs
          /\ b.err = "none" => /\ col[c].err = "none" /\ b.left = col[c].left \ {o}
                               /\ Among(o, rows')
        BY <2>2, <2>3, <1>i
    <2> DEFINE x == [col[c] EXCEPT !.left = b.left, !.err = b.err]
    <2>5. /\ x \in ColType /\ x.pc = col[c].pc /\ x.to = col[c].to /\ x.left = b.left
          /\ x.err = b.err
        BY <1>y, <2>3, <2>4 DEF ColType
    <2>6. /\ col' = [col EXCEPT ![c] = x] /\ UNCHANGED <<now, records, done>>
          /\ col[c].pc = "storing"
        BY <1>10, <2>2 DEF IngestRecord
    <2>7. col[c].to <= now
        BY <2>6 DEF WindowsInv
    <2>8. ASSUME b.err = "none", NEW r \in records, Due(r, c, col[c].to)
          PROVE  Among(ObservationOf(r, col[c].to), rows' \cup b.left)
        <3>1. Among(ObservationOf(r, col[c].to), rows \cup col[c].left)
            BY <2>4, <2>6, <2>8 DEF WindowsInv
        <3>2. PICK u \in rows' \cup col[c].left : SameKey(ObservationOf(r, col[c].to), u)
            BY <1>k, <1>s, <3>1, StoredStays DEF Among
        <3>3. CASE u = o
            <4>1. PICK y \in rows' : SameKey(o, y)
                BY <2>4, <2>8 DEF Among
            <4> QED  BY <3>2, <3>3, <4>1 DEF Among, SameKey
        <3>4. CASE u \in rows' \cup b.left
            BY <3>2, <3>4 DEF Among
        <3> QED  BY <2>4, <2>8, <3>2, <3>3, <3>4
    <2> HIDE DEF x
    <2> QED  BY <2>5, <2>6, <2>7, <2>8, WindowsOf
<1>11. CASE UNCHANGED <<col, done>>
    BY <1>11, WindowsKept
<1> QED
    BY <1>2, <1>3, <1>4, <1>5, <1>6, <1>7, <1>8, <1>9, <1>10, <1>11
    DEF Next, CollectOne, CollectAllReturns, Post, IngestSpan, RespondOTLP, Summary, ModelBreakdown,
        TimeSeries, SummaryFails, Tick, Report, EndRun, tables, telemetryVars

\* However late a record appears within the overlap, whatever fails and however
\* often the process restarts: once its window and the next one have been
\* collected successfully, its key is stored (TelemetryWorker, Ingest).
THEOREM NothingSlipsThroughCorrect == Spec => []NothingSlipsThrough
<1>1. Init => WindowsInv
    BY DEF Init, WindowsInv, NoCollector
<1>2. BaseInv /\ WindowsInv => NothingSlipsThrough
    <2> SUFFICES ASSUME BaseInv, WindowsInv, NEW r \in records,
                        ClosedWindow(r.at) + Window \in done[r.conn],
                        ClosedWindow(r.at) + Window + Window \in done[r.conn]
                 PROVE  \E to \in {ClosedWindow(r.at) + Window, ClosedWindow(r.at) + Window + Window} :
                            Stored(ObservationOf(r, to))
        BY DEF NothingSlipsThrough
    <2> DEFINE w == ClosedWindow(r.at) + Window
    <2>1. r.conn \in Conns /\ r.at \in Nat
        BY BoundsAssumption DEF BaseInv, TelemetryTypeOK, Record, Conns, Times
    <2>2. /\ ClosedWindow(r.at) \in Nat /\ ClosedWindow(r.at) <= r.at
          /\ r.at < ClosedWindow(r.at) + Window
        BY <2>1, WindowFacts
    <2>3. /\ Window \in Nat /\ Overlap \in Nat /\ Lateness \in Nat
          /\ Lateness <= Overlap /\ Overlap <= Window
        BY WindowAssumption, LatenessAssumption
    <2>4. Due(r, r.conn, w) \/ Due(r, r.conn, w + Window)
        BY <2>1, <2>2, <2>3 DEF Due, WindowStart
    <2>5. /\ Due(r, r.conn, w) => Stored(ObservationOf(r, w))
          /\ Due(r, r.conn, w + Window) => Stored(ObservationOf(r, w + Window))
        BY <2>1 DEF WindowsInv, Among, Stored
    <2> QED  BY <2>4, <2>5
<1>3. BaseInv /\ [Next]_telemetryVars => BaseInv'
    BY BaseStep
<1> QED  BY BaseInit, <1>1, <1>2, <1>3, WindowsStep, PTL DEF Spec
-----------------------------------------------------------------------------
(***************************************************************************)
(* Pushes and summaries.                                                   *)
(***************************************************************************)

\* What a push has dealt with is stored, unless storing failed.
PushInv ==
    \A p \in Pushes : push[p].pc = "storing" /\ push[p].err # "failed" =>
        \A o \in push[p].batch \ push[p].left : o.valid => o.conn \in Conns /\ Among(o, rows)

\* StoredStays for what is not left anywhere.
LEMMA AmongStays ==
    ASSUME KeysKept, NEW o, Among(o, rows)
    PROVE  Among(o, rows')
<1>1. SameKey(o, o)
    BY DEF SameKey
<1>2. Among(o, rows' \cup {})
    BY <1>1, StoredStays
<1> QED  BY <1>2

\* A step that takes no key away and leaves pushes alone keeps it.
LEMMA PushKept ==
    ASSUME PushInv, KeysKept, push' = push
    PROVE  PushInv'
<1>1. \A o : Among(o, rows) => Among(o, rows')
    BY AmongStays
<1> QED  BY <1>1 DEF PushInv

\* Every step keeps what is known of pushes.
LEMMA PushStep == BaseInv /\ PushInv /\ [Next]_telemetryVars => PushInv'
<1> SUFFICES ASSUME BaseInv, PushInv, [Next]_telemetryVars PROVE PushInv'
    OBVIOUS
<1>y. push \in [Pushes -> PushType]
    BY DEF BaseInv, TelemetryTypeOK, PushType
<1>k. KeysKept
    BY BaseStep
<1>g. \A o : Among(o, rows) => Among(o, rows')
    BY <1>k, AmongStays
<1>i. ASSUME NEW left \in SUBSET Observation, NEW err \in Errs, NEW o \in left,
             NEW b \in Ingest(left, err, o), b.err # "failed"
      PROVE  /\ err # "failed" /\ b.left = left \ {o}
             /\ (o.valid => o.conn \in Conns /\ Among(o, b.rows))
    <2>1. TurnOf(left, err, o, b)
        BY IngestFacts
    <2> QED  BY <1>i, <2>1 DEF TurnOf
<1>1. ASSUME NEW p \in Pushes, Post(p) PROVE PushInv'
    <2>1. PICK n \in 1..MaxSpans : \E spans \in kSubset(n, PushedSpans) :
              LET batch == NormalizeOTLP(spans)
              IN  push' = [push EXCEPT ![p] = [NoPush EXCEPT !.pc = "storing", !.batch = batch,
                                                   !.left = batch]]
        BY <1>1 DEF Post
    <2>2. PICK spans \in kSubset(n, PushedSpans) :
              push' = [push EXCEPT ![p] = [NoPush EXCEPT !.pc = "storing",
                           !.batch = NormalizeOTLP(spans), !.left = NormalizeOTLP(spans)]]
        BY <2>1
    <2> DEFINE batch == NormalizeOTLP(spans)
    <2>3. push'[p].batch = batch /\ push'[p].left = batch
        BY <1>y, <2>2 DEF NoPush
    <2>4. \A q \in Pushes \ {p} : push'[q] = push[q]
        BY <1>y, <2>2
    <2> QED  BY <1>g, <2>3, <2>4 DEF PushInv
<1>2. ASSUME NEW p \in Pushes, IngestSpan(p) PROVE PushInv'
    <2>1. PICK o \in push[p].left : \E b \in Ingest(push[p].left, push[p].err, o) :
              /\ push' = [push EXCEPT ![p] = [@ EXCEPT !.left = b.left, !.err = b.err,
                              !.accepted = push[p].accepted \/ (b.rows # rows /\ Inserted(o))]]
              /\ rows' = b.rows
        BY <1>2 DEF IngestSpan
    <2>2. PICK b \in Ingest(push[p].left, push[p].err, o) :
              /\ push' = [push EXCEPT ![p] = [@ EXCEPT !.left = b.left, !.err = b.err,
                              !.accepted = push[p].accepted \/ (b.rows # rows /\ Inserted(o))]]
              /\ rows' = b.rows
        BY <2>1
    <2>3. push[p].left \in SUBSET Observation /\ push[p].err \in Errs
        BY <1>y DEF PushType
    <2>4. b.err # "failed" =>
              /\ push[p].err # "failed" /\ b.left = push[p].left \ {o}
              /\ (o.valid => o.conn \in Conns /\ Among(o, rows'))
        BY <2>2, <2>3, <1>i
    <2> DEFINE accepted == push[p].accepted \/ (b.rows # rows /\ Inserted(o))
    <2> DEFINE x == [push[p] EXCEPT !.left = b.left, !.err = b.err, !.accepted = accepted]
    <2>a. push' = [push EXCEPT ![p] = x]
        BY <2>2
    <2> HIDE DEF accepted
    <2>b. x.batch = push[p].batch /\ x.left = b.left /\ x.err = b.err
        BY <1>y DEF PushType
    <2> HIDE DEF x
    <2>5. /\ push'[p].batch = push[p].batch /\ push'[p].left = b.left
          /\ push'[p].err = b.err /\ push[p].pc = "storing"
        BY <1>2, <1>y, <2>a, <2>b DEF IngestSpan
    <2>6. \A q \in Pushes \ {p} : push'[q] = push[q]
        BY <1>y, <2>2
    <2>7. push'[p].err # "failed" =>
              \A y \in push'[p].batch \ push'[p].left : y.valid => y.conn \in Conns /\ Among(y, rows')
        BY <1>g, <2>4, <2>5 DEF PushInv
    <2> QED  BY <1>g, <2>6, <2>7 DEF PushInv
<1>3. ASSUME NEW p \in Pushes, RespondOTLP(p) PROVE PushInv'
    <2>1. push'[p].pc = "idle" /\ \A q \in Pushes \ {p} : push'[q] = push[q]
        BY <1>3, <1>y DEF RespondOTLP, NoPush
    <2> QED  BY <1>g, <2>1 DEF PushInv
<1>4. CASE Crash
    <2>1. \A p \in Pushes : push'[p].pc = "idle"
        BY <1>4 DEF Crash, NoPush
    <2> QED  BY <2>1 DEF PushInv
<1>5. CASE push' = push
    BY <1>5, <1>k, PushKept
<1> QED
    BY <1>1, <1>2, <1>3, <1>4, <1>5
    DEF Next, CollectOne, CollectAll, CreateIngestionRun, CreateIngestionRunFails, QueryUsage,
        QueryUsageFails, IngestRecord, IngestReturns, FinishIngestionRun, FinishIngestionRunFails,
        CollectAllReturns, Summary, ModelBreakdown, TimeSeries, SummaryFails, Tick, Report, EndRun,
        telemetryVars

\* An exporter that is answered 200 may forget its spans: whatever other pushes
\* and collectors did meanwhile, the valid ones are stored (handleOTLPTraces).
THEOREM AnsweredMeansStoredCorrect == Spec => AnsweredMeansStored
<1>1. Init => PushInv
    BY DEF Init, PushInv, NoPush
<1>2. BaseInv /\ PushInv /\ [Next]_telemetryVars =>
          [\A p \in Pushes : RespondOTLP(p) /\ PushStatus(push[p].err, push[p].accepted) = 200 =>
              \A o \in push[p].batch : o.valid => o.conn \in Conns /\ Stored(o)]_telemetryVars
    <2> SUFFICES ASSUME BaseInv, PushInv, NEW p \in Pushes, RespondOTLP(p),
                        PushStatus(push[p].err, push[p].accepted) = 200,
                        NEW o \in push[p].batch, o.valid
                 PROVE  o.conn \in Conns /\ Stored(o)
        OBVIOUS
    <2>1. push[p].err \in Errs /\ push[p].accepted \in BOOLEAN
        BY DEF BaseInv, TelemetryTypeOK
    <2>2. push[p].err # "failed"
        BY <2>1 DEF PushStatus
    <2>3. push[p].pc = "storing" /\ push[p].left = {}
        BY DEF RespondOTLP
    <2> QED  BY <2>2, <2>3 DEF PushInv, Among, Stored
<1>3. BaseInv /\ [Next]_telemetryVars => BaseInv'
    BY BaseStep
<1> QED  BY BaseInit, <1>1, <1>2, <1>3, PushStep, PTL DEF Spec, AnsweredMeansStored

\* What the totals of a summary found has its row still, with whatever time.
ReadInv ==
    read.pc # "idle" =>
        /\ read.found # {}
        /\ \A o \in read.found :
              /\ Among(o, rows)
              /\ (read.conn = None \/ o.conn = read.conn)
              /\ (read.source # None => o.source = read.source)

\* Whoever has a row of a connection in scope has a chosen one.
LEMMA ChosenExists ==
    ASSUME BaseInv, NEW scoped \in SUBSET rows, NEW source, NEW o \in scoped,
           source # None => o.source = source
    PROVE  \E r \in Chosen(scoped, source) : r.conn = o.conn
<1>1. CASE source # None
    BY <1>1 DEF Chosen
<1>2. CASE source = None
    <2>1. \A r \in scoped : r.source \in Sources
        BY DEF BaseInv, TelemetryTypeOK, Observation
    <2>2. /\ Precedence("gantry_native") = 1 /\ Precedence("langsmith") = 2
          /\ Precedence("otel") = 3
        BY DEF Precedence
    <2>3. \E r \in scoped : r.conn = o.conn /\
              \A x \in scoped : x.conn = r.conn => Precedence(r.source) <= Precedence(x.source)
        <3>1. CASE \E r \in scoped : r.conn = o.conn /\ r.source = "gantry_native"
            BY <2>1, <2>2, <3>1 DEF Sources
        <3>2. CASE /\ ~ \E r \in scoped : r.conn = o.conn /\ r.source = "gantry_native"
                   /\ \E r \in scoped : r.conn = o.conn /\ r.source = "langsmith"
            BY <2>1, <2>2, <3>2 DEF Sources
        <3>3. CASE \A r \in scoped : r.conn = o.conn => r.source = "otel"
            BY <2>1, <2>2, <3>3 DEF Sources
        <3> QED  BY <2>1, <3>1, <3>2, <3>3 DEF Sources
    <2> QED  BY <1>2, <2>3 DEF Chosen
<1> QED  BY <1>1, <1>2

\* The models and the series of a summary cover every connection of its totals,
\* unless all the rows the totals found of it took a time out of the range in
\* between (Summary, modelBreakdown, timeSeries, UpsertUsage).
THEOREM DetailUnlessMovedCorrect == Spec => []DetailUnlessMoved
<1>1. Init => ReadInv
    BY DEF Init, ReadInv, NoRead
<1>2. BaseInv /\ ReadInv /\ [Next]_telemetryVars => ReadInv'
    <2> SUFFICES ASSUME BaseInv, ReadInv, [Next]_telemetryVars PROVE ReadInv'
        OBVIOUS
    <2>k. KeysKept
        BY BaseStep
    <2>g. \A o : Among(o, rows) => Among(o, rows')
        BY <2>k, AmongStays
    <2>1. CASE Summary
        <3>1. PICK conn \in Conns \cup {None}, source \in Sources \cup {None},
                   from \in Froms, to \in Tos :
                  /\ Available(Chosen(Scoped(conn, from, to), source))
                  /\ read' = [pc |-> "models", conn |-> conn, source |-> source,
                              from |-> from, to |-> to,
                              found |-> Chosen(Scoped(conn, from, to), source)]
            BY <2>1 DEF Summary
        <3> DEFINE chosen == Chosen(Scoped(conn, from, to), source)
        <3>2. chosen # {}
            <4>1. SUFFICES ASSUME chosen = {} PROVE FALSE
                OBVIOUS
            <4>2. {o.source : o \in chosen} = {}
                BY <4>1
            <4>3. Cardinality({}) = 1
                BY <3>1, <4>2 DEF Available
            <4> QED  BY <4>3, FS_EmptySet
        <3>3. \A o \in chosen :
                 /\ o \in rows
                 /\ (conn = None \/ o.conn = conn)
                 /\ (source # None => o.source = source)
            BY DEF Chosen, Scoped
        <3>4. \A o \in chosen : Among(o, rows')
            <4>1. \A o \in rows : Among(o, rows)
                BY DEF Among, SameKey
            <4> QED  BY <2>g, <3>3, <4>1
        <3>5. /\ read'.found = chosen /\ read'.conn = conn /\ read'.source = source
            BY <3>1
        <3> HIDE DEF chosen
        <3> QED  BY <3>2, <3>3, <3>4, <3>5 DEF ReadInv
    <2>2. CASE ModelBreakdown
        <3>1. read' = [read EXCEPT !.pc = "series"] /\ read.pc = "models"
            BY <2>2 DEF ModelBreakdown
        <3>2. /\ read'.found = read.found /\ read'.conn = read.conn /\ read'.source = read.source
            BY <3>1 DEF BaseInv, TelemetryTypeOK
        <3> QED  BY <2>g, <3>1, <3>2 DEF ReadInv
    <2>3. CASE TimeSeries \/ SummaryFails \/ Crash
        <3>1. read'.pc = "idle"
            BY <2>3 DEF TimeSeries, SummaryFails, Crash, NoRead
        <3> QED  BY <3>1 DEF ReadInv
    <2>4. CASE read' = read
        BY <2>4, <2>g DEF ReadInv
    <2> QED
        BY <2>1, <2>2, <2>3, <2>4
        DEF Next, CollectOne, CollectAll, CreateIngestionRun, CreateIngestionRunFails, QueryUsage,
            QueryUsageFails, IngestRecord, IngestReturns, FinishIngestionRun,
            FinishIngestionRunFails, CollectAllReturns, Post, IngestSpan, RespondOTLP, Tick, Report,
            EndRun, telemetryVars
<1>3. BaseInv /\ ReadInv => DetailUnlessMoved
    <2> SUFFICES ASSUME BaseInv, ReadInv, read.pc # "idle"
                 PROVE  /\ read.found # {}
                        /\ \A o \in read.found :
                              \/ \E d \in Detail : d.conn = o.conn
                              \/ \E r \in rows : SameKey(o, r) /\ ~InRange(r, read.from, read.to)
        BY DEF DetailUnlessMoved
    <2>1. read.found # {}
        BY DEF ReadInv
    <2>2. ASSUME NEW o \in read.found, NEW r \in rows, SameKey(o, r), InRange(r, read.from, read.to)
          PROVE  \E d \in Detail : d.conn = o.conn
        <3> DEFINE scoped == Scoped(read.conn, read.from, read.to)
        <3>1. /\ r.conn = o.conn /\ r.source = o.source
              /\ (read.conn = None \/ o.conn = read.conn)
              /\ (read.source # None => o.source = read.source)
            BY <2>2 DEF ReadInv, SameKey
        <3>2. r \in scoped /\ scoped \in SUBSET rows
            BY <2>2, <3>1 DEF Scoped
        <3> HIDE DEF scoped
        <3>3. \E d \in Chosen(scoped, read.source) : d.conn = r.conn
            BY <3>1, <3>2, ChosenExists
        <3> QED  BY <3>1, <3>3 DEF Detail, scoped
    <2>3. \A o \in read.found : \E r \in rows : SameKey(o, r)
        BY DEF ReadInv, Among
    <2> QED  BY <2>1, <2>2, <2>3
<1>4. BaseInv /\ [Next]_telemetryVars => BaseInv'
    BY BaseStep
<1> QED  BY BaseInit, <1>1, <1>2, <1>3, <1>4, PTL DEF Spec
=============================================================================
