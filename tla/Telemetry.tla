------------------------------- MODULE Telemetry -------------------------------
(***************************************************************************)
(* Token telemetry: TelemetryWorker asks every runtime for closed,         *)
(* overlapping windows of usage, the OTLP endpoint takes spans that        *)
(* runtimes push, both through TelemetryService.Ingest into                *)
(* usage_observations, and Summary reads them back in three statements.    *)
(*                                                                         *)
(* The time unit is the common divisor of window and overlap.  A record of *)
(* usage is its connection, when it began, which names it too, the time it *)
(* carries and its form; counts, costs, models and attributes are left     *)
(* out.  The collector of a connection, a push and a summary take one step *)
(* per statement or call.                                                  *)
(***************************************************************************)
EXTENDS Integers, FiniteSets, FiniteSetsExt

CONSTANTS
    Gantry,     \* the Gantry connections
    LangGraph,  \* the LangGraph connections, whose usage LangSmith has
    Unknown,    \* a connection id that no connection has
    Pushes,     \* concurrent requests of the OTLP endpoint
    None,       \* no connection, no source
    Window,     \* w.window
    Overlap,    \* w.overlap
    Lateness,   \* how long after it began a runtime may report a record
    Froms,      \* bound: where the ranges that summaries ask for begin
    Tos,        \* bound: where they end
    MaxTime,    \* bound: the clock stops there
    MaxRecords, \* bound: records the runtimes report
    MaxSpans,   \* bound: spans of a push
    Faults      \* the faults the environment may inject

Conns == Gantry \cup LangGraph

ASSUME WindowAssumption == Window \in Nat \ {0} /\ Overlap \in Nat /\ Overlap <= Window

\* What the overlap is for: a record appears at most that late.
ASSUME LatenessAssumption == Lateness \in Nat /\ Lateness <= Overlap

ASSUME BoundsAssumption ==
    /\ MaxTime \in Nat /\ MaxRecords \in Nat /\ MaxSpans \in Nat
    /\ Froms \subseteq Nat /\ Tos \subseteq Nat

ASSUME ConnsAssumption ==
    Gantry \cap LangGraph = {} /\ Unknown \notin Conns /\ None \notin Conns \cup {Unknown}

(***************************************************************************)
(*  query      a runtime does not answer, or not in time                   *)
(*  statement  a database statement fails or its context is done           *)
(*  crash      the process dies and starts again                           *)
(***************************************************************************)
ASSUME TelemetryFaultsAssumption == Faults \subseteq {"query", "statement", "crash"}

VARIABLES
    now,        \* the clock
    records,    \* the usage that the runtimes answer queries with
    rows,       \* usage_observations
    done,       \* done[c]: the windows, by their end, with a succeeded row in
                \* telemetry_ingestion_runs
    worker,     \* TelemetryWorker.Run
    col,        \* col[c]: the goroutine that runs collectOne for c
    push,       \* push[p]: a call of handleOTLPTraces
    read        \* a call of Summary: what it asked for and the rows its totals
                \* are of

tables == <<rows, done>>
telemetryVars == <<now, records, tables, worker, col, push, read>>

Times == 0..MaxTime

\* A Gantry record carries its id and its time ("stamped"), its id only
\* ("untimed") or neither ("unstamped"); a LangSmith run has ended ("stamped") or
\* not ("open"); an "invalid" one has a negative count.
Record == [conn : Gantry, at : Times, time : Times,
           form : {"stamped", "untimed", "unstamped", "invalid"}]
          \cup [conn : LangGraph, at : Times, time : Times, form : {"stamped", "open", "invalid"}]

Sources == {"gantry_native", "langsmith", "otel"}

\* source_observation_id: the id of a record or span, or stableUsageID.
ObservationIds == {"id", "hash"} \X Nat

Observation == [source : Sources, conn : Conns \cup {Unknown}, id : ObservationIds,
                at : Nat, valid : BOOLEAN]

NoCollector == [pc |-> "idle", to |-> 0, left |-> {}, err |-> "none"]
NoPush == [pc |-> "idle", batch |-> {}, left |-> {}, accepted |-> FALSE, err |-> "none"]
NoRead == [pc |-> "idle", conn |-> None, source |-> None, from |-> 0, to |-> 0, found |-> {}]

Errs == {"none", "rejected", "failed"}

TelemetryTypeOK ==
    /\ now \in Times
    /\ records \subseteq Record
    /\ rows \subseteq {o \in Observation : o.valid /\ o.conn \in Conns}
    /\ done \in [Conns -> SUBSET Times]
    /\ worker \in {"idle", "collecting"}
    /\ col \in [Conns -> [pc : {"idle", "creating", "querying", "storing", "finishing"},
                         to : Times, left : SUBSET Observation, err : Errs]]
    /\ push \in [Pushes -> [pc : {"idle", "storing"}, batch : SUBSET Observation,
                           left : SUBSET Observation, accepted : BOOLEAN, err : Errs]]
    /\ read \in [pc : {"idle", "models", "series"}, conn : Conns \cup {None},
                 source : Sources \cup {None}, from : Nat, to : Nat, found : SUBSET Observation]

Init ==
    /\ now = 0
    /\ records = {}
    /\ rows = {}
    /\ done = [c \in Conns |-> {}]
    /\ worker = "idle"
    /\ col = [c \in Conns |-> NoCollector]
    /\ push = [p \in Pushes |-> NoPush]
    /\ read = NoRead

-----------------------------------------------------------------------------
(***************************************************************************)
(* Ingest, shared by collectors and pushes: one observation at a time.     *)
(***************************************************************************)
SameKey(o, r) == o.source = r.source /\ o.conn = r.conn /\ o.id = r.id

Stored(o) == \E r \in rows : SameKey(o, r)

Inserted(o) == ~Stored(o)

\* Mutant: a row replaces what other sources said of its connection.
Upserted_Replaces(o) == {r \in rows : r.conn # o.conn \/ (r.source = o.source /\ r.id # o.id)} \cup {o}

\* The conflict replaces everything but the key, the time too.
Upserted(o) == {r \in rows : ~SameKey(o, r)} \cup {o}

\* The subselect of organization_id finds nothing for an unknown connection
\* and the NOT NULL constraint refuses the row before the foreign key does.
Refused(o) == o.conn \notin Conns

\* The first error of a batch is kept.
NextErr(err, e) == IF err = "none" THEN e ELSE err

\* One turn of the loop over a batch: what is left of it, its error, the rows.
\* A rejected observation is passed over; any other error ends the loop.
Ingest(left, err, o) ==
    LET rejects == [left |-> left \ {o}, err |-> NextErr(err, "rejected"), rows |-> rows]
        stores  == [left |-> left \ {o}, err |-> err, rows |-> Upserted(o)]
        fails   == [left |-> {}, err |-> "failed", rows |-> rows]
    IN  IF ~o.valid THEN {rejects}
        ELSE IF Refused(o) THEN {fails}
        ELSE {stores} \cup {fails : f \in Faults \cap {"statement"}}

-----------------------------------------------------------------------------
(***************************************************************************)
(* The worker.                                                             *)
(***************************************************************************)
\* now.Truncate(w.window)
ClosedWindow(t) == t - (t % Window)

\* Mutant: windows are adjacent.
WindowStart_NoOverlap(to) == to - Window

WindowStart(to) == to - Window - Overlap

\* firstUsageTime, stableUsageID: a record without a time has that of the end of
\* the window it was asked for, which is another one in every window, and one
\* without an id is keyed by a hash of its time.  (With a time that key is as
\* good as an id, so such a record counts as "stamped".)
GantryObservation(r, to) ==
    [source |-> "gantry_native", conn |-> r.conn,
     id |-> IF r.form = "unstamped" THEN <<"hash", to>> ELSE <<"id", r.at>>,
     at |-> IF r.form \in {"unstamped", "untimed"} THEN to ELSE r.time,
     valid |-> r.form # "invalid"]

\* normalizeRun: always an id, and the time of its end, or of its start until it
\* has one.
LangSmithObservation(r) ==
    [source |-> "langsmith", conn |-> r.conn, id |-> <<"id", r.at>>, at |-> r.time,
     valid |-> r.form # "invalid"]

ObservationOf(r, to) == IF r.conn \in Gantry THEN GantryObservation(r, to) ELSE LangSmithObservation(r)

\* The runtime or LangSmith chooses by when usage began.
Answer(c, to) ==
    {ObservationOf(r, to) : r \in {x \in records : /\ x.conn = c
                                                    /\ WindowStart(to) <= x.at
                                                    /\ x.at < to}}

\* A tick, or the call before the first tick.  Connections that are disabled, or
\* have no reader or no project configured, are passed over: any subset is left.
CollectAll ==
    /\ worker = "idle"
    /\ \E listed \in SUBSET Conns :
          col' = [c \in Conns |-> IF c \in listed THEN [NoCollector EXCEPT !.pc = "creating"]
                                  ELSE NoCollector]
    /\ worker' = "collecting"
    /\ UNCHANGED <<now, records, tables, push, read>>

CreateIngestionRun(c) ==
    /\ col[c].pc = "creating"
    /\ col' = [col EXCEPT ![c] = [@ EXCEPT !.pc = "querying", !.to = ClosedWindow(now)]]
    /\ UNCHANGED <<now, records, tables, worker, push, read>>

\* Mutant: the early return skips wg.Done.
CreateIngestionRunFails_NotDone(c) ==
    /\ col[c].pc = "creating"
    /\ "statement" \in Faults
    /\ col' = [col EXCEPT ![c].pc = "returned"]
    /\ UNCHANGED <<now, records, tables, worker, push, read>>

CreateIngestionRunFails(c) ==
    /\ col[c].pc = "creating"
    /\ "statement" \in Faults
    /\ col' = [col EXCEPT ![c] = NoCollector]
    /\ UNCHANGED <<now, records, tables, worker, push, read>>

QueryUsage(c) ==
    /\ col[c].pc = "querying"
    /\ col' = [col EXCEPT ![c] = [@ EXCEPT !.pc = "storing", !.left = Answer(c, col[c].to)]]
    /\ UNCHANGED <<now, records, tables, worker, push, read>>

QueryUsageFails(c) ==
    /\ col[c].pc = "querying"
    /\ "query" \in Faults
    /\ col' = [col EXCEPT ![c] = [@ EXCEPT !.pc = "finishing", !.err = "failed"]]
    /\ UNCHANGED <<now, records, tables, worker, push, read>>

IngestRecord(c) ==
    /\ col[c].pc = "storing"
    /\ \E o \in col[c].left : \E b \in Ingest(col[c].left, col[c].err, o) :
          /\ col' = [col EXCEPT ![c] = [@ EXCEPT !.left = b.left, !.err = b.err]]
          /\ rows' = b.rows
    /\ UNCHANGED <<now, records, done, worker, push, read>>

IngestReturns(c) ==
    /\ col[c].pc = "storing"
    /\ col[c].left = {}
    /\ col' = [col EXCEPT ![c].pc = "finishing"]
    /\ UNCHANGED <<now, records, tables, worker, push, read>>

\* Rejected records make the run fail, though the others of its batch are stored.
FinishIngestionRun(c) ==
    /\ col[c].pc = "finishing"
    /\ done' = IF col[c].err = "none" THEN [done EXCEPT ![c] = @ \cup {col[c].to}] ELSE done
    /\ col' = [col EXCEPT ![c] = NoCollector]
    /\ UNCHANGED <<now, records, rows, worker, push, read>>

FinishIngestionRunFails(c) ==
    /\ col[c].pc = "finishing"
    /\ "statement" \in Faults
    /\ col' = [col EXCEPT ![c] = NoCollector]
    /\ UNCHANGED <<now, records, tables, worker, push, read>>

\* wg.Wait
CollectAllReturns ==
    /\ worker = "collecting"
    /\ \A c \in Conns : col[c].pc = "idle"
    /\ worker' = "idle"
    /\ UNCHANGED <<now, records, tables, col, push, read>>

CollectOne(c) ==
    \/ CreateIngestionRun(c) \/ CreateIngestionRunFails(c)
    \/ QueryUsage(c) \/ QueryUsageFails(c)
    \/ IngestRecord(c) \/ IngestReturns(c)
    \/ FinishIngestionRun(c) \/ FinishIngestionRunFails(c)

-----------------------------------------------------------------------------
(***************************************************************************)
(* handleOTLPTraces.                                                       *)
(***************************************************************************)
\* A span without an end has the time of the push, another one when it is pushed
\* again.
SpanObservation(s) ==
    [source |-> "otel", conn |-> s.conn, id |-> <<"id", s.at>>,
     at |-> IF s.form = "endless" THEN now ELSE s.at, valid |-> s.form # "invalid"]

\* normalizeOTLPJSON, normalizeOTLPProtobuf: uncorrelated spans are dropped.
NormalizeOTLP(spans) == {SpanObservation(s) : s \in {x \in spans : x.form # "uncorrelated"}}

\* What a runtime pushes: usage that it is asked for too, or a span that is not
\* stored, whose time and connection make no difference.  One without a span id or
\* connection id is uncorrelated.
PushedSpans ==
    {[conn |-> r.conn, at |-> r.at, form |-> f] : r \in records, f \in {"stamped", "endless"}}
    \cup [conn : {Unknown}, at : {0}, form : {"stamped", "invalid", "uncorrelated"}]

Post(p) ==
    /\ push[p].pc = "idle"
    /\ \E n \in 1..MaxSpans : \E spans \in kSubset(n, PushedSpans) :
          LET batch == NormalizeOTLP(spans)
          IN  push' = [push EXCEPT ![p] = [NoPush EXCEPT !.pc = "storing", !.batch = batch,
                                               !.left = batch]]
    /\ UNCHANGED <<now, records, tables, worker, col, read>>

IngestSpan(p) ==
    /\ push[p].pc = "storing"
    /\ \E o \in push[p].left : \E b \in Ingest(push[p].left, push[p].err, o) :
          /\ push' = [push EXCEPT ![p] = [@ EXCEPT !.left = b.left, !.err = b.err,
                          !.accepted = push[p].accepted \/ (b.rows # rows /\ Inserted(o))]]
          /\ rows' = b.rows
    /\ UNCHANGED <<now, records, done, worker, col, read>>

\* Mutant: whatever the error, a batch of which a part was accepted is a partial
\* success.
PushStatus_AnyError(err, accepted) ==
    CASE err = "none" \/ accepted           -> 200
      [] err = "rejected" /\ ~accepted      -> 400
      [] err = "failed" /\ ~accepted        -> 500

\* Rejected spans are a partial success only beside accepted ones.
PushStatus(err, accepted) ==
    CASE err = "none"                       -> 200
      [] err = "rejected" /\ accepted       -> 200
      [] err = "rejected" /\ ~accepted      -> 400
      [] err = "failed"                     -> 500

\* The answer is PushStatus of what Ingest returned.
RespondOTLP(p) ==
    /\ push[p].pc = "storing"
    /\ push[p].left = {}
    /\ push' = [push EXCEPT ![p] = NoPush]
    /\ UNCHANGED <<now, records, tables, worker, col, read>>

-----------------------------------------------------------------------------
(***************************************************************************)
(* Summary: totals, models and time series are three statements, each with *)
(* its own range and choice of sources.                                    *)
(***************************************************************************)
InRange(o, from, to) == from <= o.at /\ o.at < to

Scoped(conn, from, to) == {o \in rows : InRange(o, from, to) /\ (conn = None \/ o.conn = conn)}

Precedence(source) ==
    CASE source = "gantry_native" -> 1 [] source = "langsmith" -> 2 [] source = "otel" -> 3

\* Mutant: the rows of every source count.
Chosen_EverySource(scoped, source) == {o \in scoped : source = None \/ o.source = source}

\* selected_sources: the source asked for, or of each connection the one that
\* comes first.
Chosen(scoped, source) ==
    {o \in scoped :
        IF source # None THEN o.source = source
        ELSE \A r \in scoped : r.conn = o.conn => Precedence(o.source) <= Precedence(r.source)}

\* CASE WHEN COUNT(DISTINCT s.source) = 1 THEN MAX(s.source) END
Available(chosen) == Cardinality({o.source : o \in chosen}) = 1

\* A summary that is not available has no details.
Summary ==
    /\ read.pc = "idle"
    /\ \E conn \in Conns \cup {None}, source \in Sources \cup {None}, from \in Froms, to \in Tos :
          LET chosen == Chosen(Scoped(conn, from, to), source)
          IN  /\ Available(chosen)
              /\ read' = [pc |-> "models", conn |-> conn, source |-> source,
                          from |-> from, to |-> to, found |-> chosen]
    /\ UNCHANGED <<now, records, tables, worker, col, push>>

\* What modelBreakdown and timeSeries group; the source of the totals is handed
\* to them and ignored.
Detail == Chosen(Scoped(read.conn, read.from, read.to), read.source)

ModelBreakdown ==
    /\ read.pc = "models"
    /\ read' = [read EXCEPT !.pc = "series"]
    /\ UNCHANGED <<now, records, tables, worker, col, push>>

TimeSeries ==
    /\ read.pc = "series"
    /\ read' = NoRead
    /\ UNCHANGED <<now, records, tables, worker, col, push>>

\* A statement after the totals fails, and with it the call.
SummaryFails ==
    /\ read.pc # "idle"
    /\ "statement" \in Faults
    /\ read' = NoRead
    /\ UNCHANGED <<now, records, tables, worker, col, push>>

-----------------------------------------------------------------------------
Tick ==
    /\ now < MaxTime
    /\ now' = now + 1
    /\ UNCHANGED <<records, tables, worker, col, push, read>>

\* A runtime has a record of usage ready, no later than Lateness after it began.
Report ==
    /\ Cardinality(records) < MaxRecords
    /\ \E r \in Record :
          /\ r.at <= now /\ now <= r.at + Lateness /\ r.time = r.at
          /\ \A x \in records : ~(x.conn = r.conn /\ x.at = r.at)
          /\ records' = records \cup {r}
    /\ UNCHANGED <<now, tables, worker, col, push, read>>

\* A LangSmith run that was open ends.
EndRun ==
    /\ \E r \in records :
          /\ r.form = "open"
          /\ records' = (records \ {r}) \cup {[r EXCEPT !.form = "stamped", !.time = now]}
    /\ UNCHANGED <<now, tables, worker, col, push, read>>

\* The process dies and starts again; what was running is left in the table.
Crash ==
    /\ "crash" \in Faults
    /\ worker' = "idle"
    /\ col' = [c \in Conns |-> NoCollector]
    /\ push' = [p \in Pushes |-> NoPush]
    /\ read' = NoRead
    /\ UNCHANGED <<now, records, tables>>

Next ==
    \/ CollectAll \/ CollectAllReturns
    \/ \E c \in Conns : CollectOne(c)
    \/ \E p \in Pushes : Post(p) \/ IngestSpan(p) \/ RespondOTLP(p)
    \/ Summary \/ ModelBreakdown \/ TimeSeries \/ SummaryFails
    \/ Tick \/ Report \/ EndRun \/ Crash

\* Goroutines run, and a query ends at the request timeout at the latest.
Fairness ==
    /\ \A c \in Conns : WF_telemetryVars(CollectOne(c))
    /\ WF_telemetryVars(CollectAllReturns)

Spec == Init /\ [][Next]_telemetryVars /\ Fairness

-----------------------------------------------------------------------------
\* However late a record appears within the overlap, and whatever else failed,
\* once the run of its window and the run of the next one succeeded there is a
\* row of its key.  (A record Ingest rejects keeps one of the two from
\* succeeding.  What a LangSmith run used after both is not in that row.)
NothingSlipsThrough ==
    \A r \in records :
        LET w == ClosedWindow(r.at) + Window
        IN  {w, w + Window} \subseteq done[r.conn]
            => \E to \in {w, w + Window} : Stored(ObservationOf(r, to))

\* The rows a summary counts of a record that carries its id.
Counted(r, conn, source, from, to) ==
    {o \in Chosen(Scoped(conn, from, to), source) : o.conn = r.conn /\ o.id = <<"id", r.at>>}

\* Windows overlap, ticks ask for one window again and again, batches are stored
\* in part and retried, a record takes another time, and a runtime may push what
\* it is also asked for: no summary, of whatever range, counts a record that
\* carries its id twice.
CountedOnce ==
    \A conn \in Conns \cup {None}, source \in Sources \cup {None}, from \in Froms, to \in Tos :
        \A r \in records :
            r.form # "unstamped" => Cardinality(Counted(r, conn, source, from, to)) <= 1

\* An OTLP exporter drops what was answered 200: every span of such a push that
\* is correlated, valid and of a known connection has its row.
AnsweredMeansStored ==
    [][\A p \in Pushes : RespondOTLP(p) /\ PushStatus(push[p].err, push[p].accepted) = 200 =>
          \A o \in push[p].batch : o.valid => o.conn \in Conns /\ Stored(o)
      ]_telemetryVars

\* The models and the series of a summary are read later than the totals that
\* made it available.  They cover every connection of the totals, with one
\* exception: all the rows the totals found of it have taken a time out of the
\* range since.  (Rows that come in of a source that goes before theirs, rows
\* that are replaced within the range and retries never leave a gap.)
DetailUnlessMoved ==
    read.pc # "idle" =>
        /\ read.found # {}
        /\ \A o \in read.found :
              \/ \E d \in Detail : d.conn = o.conn
              \/ \E r \in rows : SameKey(o, r) /\ ~InRange(r, read.from, read.to)

\* Every round of the worker ends, so that the next tick is served.
CollectionEnds == worker = "collecting" ~> worker = "idle"

\* Values of several sources are never added together.
OneSourcePerSummary ==
    \A from \in Froms, to \in Tos :
        Cardinality({o.source : o \in Chosen(Scoped(None, from, to), None)}) <= 1

=============================================================================
