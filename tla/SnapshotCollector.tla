--------------------------- MODULE SnapshotCollector ---------------------------
(***************************************************************************)
(* CollectSnapshot of the two runtime adapters, and the validation of what *)
(* it returns.  RuntimeSync takes a snapshot as one step that reads the    *)
(* runtime; here the runtime changes between the calls of a collection.    *)
(*                                                                         *)
(* The Gantry adapter lists the agents once and fetches each one through a *)
(* pool of goroutines that are fed by an unbuffered channel.  The LangGraph*)
(* adapter reads assistants and threads page by page, by offset, from lists*)
(* that move.  One action is one call of the runtime; calls whose answers  *)
(* the properties do not tell apart are one.                               *)
(***************************************************************************)
EXTENDS Integers, FiniteSets, SequencesExt

CONSTANTS
    Agents,             \* runtime agent ids, in the order assistants are sorted
    Threads,            \* thread ids
    Names,              \* ids and refs of delegates
    AgentIds,           \* the names that begin with "agent:"
    None,               \* no name
    Documents,          \* the delegates documents a runtime answers with
    PoolSize,           \* goroutines of the pool
    PageSize,           \* pageSize
    MaxAssistantPages,  \* maxAssistantPages
    MaxThreadPages,     \* maxThreadPages
    MaxChanges,         \* bound: changes of the runtime during a collection
    Faults              \* the faults the environment may inject

ASSUME AgentsAssumption == Agents \subseteq Nat /\ IsFiniteSet(Agents)

ASSUME ThreadsAssumption == IsFiniteSet(Threads) /\ Threads \cap Agents = {}

ASSUME PagesAssumption ==
    /\ PoolSize \in Nat \ {0} /\ PageSize \in Nat \ {0}
    /\ MaxAssistantPages \in Nat \ {0} /\ MaxThreadPages \in Nat \ {0}

ASSUME NamesAssumption == None \notin Names /\ AgentIds \subseteq Names

\* An entry of a document may lack its ref or its id.
Entries == [ref : Names \cup {None}, agent : Names \cup {None}]

\* The configured delegates are refs, none of them twice.
ASSUME DocumentsAssumption ==
    Documents \subseteq [resolved : SUBSET Entries, configured : SUBSET Names]

(***************************************************************************)
(*  call      a call of the runtime fails or times out                     *)
(***************************************************************************)
ASSUME CollectorFaultsAssumption == Faults \subseteq {"call"}

VARIABLES
    kind,       \* the runtime: "gantry" or "langgraph"
    there,      \* its agents
    order,      \* its threads, the last updated one first
    document,   \* the delegates document that its agents answer with
    pc,         \* the next step of CollectSnapshot
    agents,     \* the agents listed so far
    threads,    \* the threads listed so far
    page,       \* the page to read next
    next,       \* the job to hand out next
    worker,     \* worker[w]: a goroutine of the pool
    full,       \* the jobs whose item was filled in
    delegations,\* AgentDelegations of the snapshot
    failed,     \* firstErr is set
    outcome,    \* what the last CollectSnapshot and its validation returned
    kept,       \* history: agents and threads unchanged since it began
    changes     \* history: the changes since it began, and how many took one away

runtime == <<kind, there, order, document>>
pool == <<next, worker, full, delegations, failed>>
history == <<kept, changes>>
collectorVars == <<runtime, pc, agents, threads, page, pool, outcome, history>>

Workers == 1..PoolSize

Idle == [step |-> "waiting", job |-> 0]

NoDocument == [resolved |-> {}, configured |-> {}]

Steps == {"idle", "checking", "agents", "catalogs", "pool", "executions", "threads", "runs",
          "validating"}

CollectorTypeOK ==
    /\ kind \in {"gantry", "langgraph"} /\ there \subseteq Agents /\ order \in Seq(Threads)
    /\ document \in Documents \cup {NoDocument}
    /\ pc \in Steps
    /\ agents \in Seq(Agents) /\ threads \in Seq(Threads) /\ page \in Nat
    /\ next \in Nat \ {0} /\ full \subseteq Nat
    /\ worker \in [Workers -> [step : {"waiting", "skills", "access", "delegates"}, job : Nat]]
    /\ \A d \in delegations : d.orchestrator \in Agents /\ d.entry \in Entries
    /\ failed \in BOOLEAN /\ outcome \in {"none", "error", "snapshot"}
    /\ kept \subseteq Agents \cup Threads /\ changes \in [all : Nat, gone : Nat]

\* The id of an agent of Gantry is its folder behind "agent:".
GantryAgentIDForDelegateRef(ref) == IF ref \in AgentIds THEN ref ELSE <<"agent:", ref>>

Init ==
    /\ kind \in {"gantry", "langgraph"}
    /\ there \in SUBSET Agents
    /\ order = IF kind = "langgraph" THEN SetToSeq(Threads) ELSE <<>>
    /\ document \in IF kind = "gantry" THEN Documents ELSE {NoDocument}
    /\ pc = "idle"
    /\ agents = <<>> /\ threads = <<>> /\ page = 0
    /\ next = 1 /\ worker = [w \in Workers |-> Idle] /\ full = {}
    /\ delegations = {} /\ failed = FALSE
    /\ outcome = "none"
    /\ kept = {} /\ changes = [all |-> 0, gone |-> 0]

-----------------------------------------------------------------------------
CanFail == "call" \in Faults

Return(result) == pc' = "idle" /\ outcome' = result

\* CollectSnapshot begins with Check.
Begin ==
    /\ pc = "idle"
    /\ pc' = "checking"
    /\ agents' = <<>> /\ threads' = <<>> /\ page' = 0
    /\ next' = 1 /\ full' = {} /\ delegations' = {} /\ failed' = FALSE
    /\ outcome' = "none"
    /\ kept' = there \cup Range(order)
    /\ changes' = [all |-> 0, gone |-> 0]
    /\ UNCHANGED <<runtime, worker>>

Check ==
    /\ pc = "checking"
    /\ pc' = "agents"
    /\ UNCHANGED <<runtime, agents, threads, page, pool, outcome, history>>

\* A call outside the pool fails: CollectSnapshot returns its error.
CallFails ==
    /\ pc \in {"checking", "agents", "catalogs", "executions", "threads", "runs"}
    /\ CanFail
    /\ Return("error")
    /\ UNCHANGED <<runtime, agents, threads, page, pool, history>>

-----------------------------------------------------------------------------
(***************************************************************************)
(* Gantry.                                                                 *)
(***************************************************************************)
\* One answer, in the order of the runtime.
ListAgents ==
    /\ pc = "agents" /\ kind = "gantry"
    /\ agents' = SetToSeq(there)
    /\ pc' = "catalogs"
    /\ UNCHANGED <<runtime, threads, page, pool, outcome, history>>

\* ListInventory and ListCapabilities.
ListCatalogs ==
    /\ pc = "catalogs"
    /\ pc' = "pool"
    /\ UNCHANGED <<runtime, agents, threads, page, pool, outcome, history>>

\* The goroutines that are started: no more than there are agents.
Started == {w \in Workers : w <= Len(agents)}

\* The unbuffered channel: a job is handed to a goroutine that waits.
HandOut(w) ==
    /\ pc = "pool"
    /\ w \in Started
    /\ worker[w].step = "waiting"
    /\ next <= Len(agents)
    /\ worker' = [worker EXCEPT ![w] = [step |-> "skills", job |-> next]]
    /\ next' = next + 1
    /\ UNCHANGED <<runtime, pc, agents, threads, page, full, delegations, failed, outcome, history>>

Answers(w) == agents[worker[w].job] \in there

GoOn(w, step) == worker' = [worker EXCEPT ![w].step = step]

ListAgentSkills(w) ==
    /\ worker[w].step = "skills"
    /\ Answers(w)
    /\ GoOn(w, "access")
    /\ UNCHANGED <<runtime, pc, agents, threads, page, next, full, delegations, failed, outcome, history>>

GetAgentAccess(w) ==
    /\ worker[w].step = "access"
    /\ Answers(w)
    /\ GoOn(w, "delegates")
    /\ UNCHANGED <<runtime, pc, agents, threads, page, next, full, delegations, failed, outcome, history>>

\* A delegation keeps the entry it was made of, so that two entries never make one.
\* Mutant: a resolved delegate without a ref is kept without one.
Resolved_NoRef(a) ==
    {[orchestrator |-> a, delegate |-> r.agent, ref |-> r.ref, entry |-> r] :
        r \in {x \in document.resolved : x.agent # None}}

\* The ref of a resolved delegate is its id if it has none; without id it is
\* passed over.
Resolved(a) ==
    {[orchestrator |-> a, delegate |-> r.agent,
      ref |-> IF r.ref = None THEN r.agent ELSE r.ref, entry |-> r] :
        r \in {x \in document.resolved : x.agent # None}}

\* Configured refs that are not resolved; the ref gives their id.
Unresolved(a) ==
    {[orchestrator |-> a, delegate |-> GantryAgentIDForDelegateRef(ref), ref |-> ref,
      entry |-> [ref |-> ref, agent |-> None]] :
        ref \in document.configured \ {d.ref : d \in Resolved(a)}}

ListAgentDelegates(w) ==
    LET a == agents[worker[w].job]
    IN  /\ worker[w].step = "delegates"
        /\ Answers(w)
        /\ worker' = [worker EXCEPT ![w] = Idle]
        /\ full' = full \cup {worker[w].job}
        /\ delegations' = delegations \cup Resolved(a) \cup Unresolved(a)
        /\ UNCHANGED <<runtime, pc, agents, threads, page, next, failed, outcome, history>>

\* Mutant: the goroutine tries its job again.
AfterFailure_Retry(w) == worker[w]

AfterFailure(w) == Idle

\* Mutant: an agent without access document is kept without one.
Fatal_NotAccess(step) == step # "access"

\* Each of the three calls sets firstErr.
Fatal(step) == step \in {"skills", "access", "delegates"}

\* One of the three calls fails, as it does for an agent that is gone: the error
\* is kept and the goroutine takes the next job.
FetchFails(w) ==
    /\ worker[w].step \in {"skills", "access", "delegates"}
    /\ ~Answers(w) \/ CanFail
    /\ failed' = (failed \/ Fatal(worker[w].step))
    /\ worker' = [worker EXCEPT ![w] = AfterFailure(w)]
    /\ UNCHANGED <<runtime, pc, agents, threads, page, next, full, delegations, outcome, history>>

\* The channel is closed after the last job, and wg.Wait waits for all goroutines.
PoolEnds ==
    /\ pc = "pool"
    /\ next = Len(agents) + 1
    /\ \A w \in Started : worker[w] = Idle
    /\ IF failed THEN Return("error") ELSE pc' = "executions" /\ UNCHANGED outcome
    /\ UNCHANGED <<runtime, agents, threads, page, pool, history>>

\* Runs, jobs and the events of every run.
ListSubagentExecutions ==
    /\ pc = "executions"
    /\ pc' = "validating"
    /\ UNCHANGED <<runtime, agents, threads, page, pool, outcome, history>>

-----------------------------------------------------------------------------
(***************************************************************************)
(* LangGraph.                                                              *)
(***************************************************************************)
\* What a search answers: the rows of the page, by offset in the list as it is.
Page(list) == SubSeq(list, page * PageSize + 1, Min({Len(list), (page + 1) * PageSize}))

\* The offset of an agent in the list that is sorted by id, ascending.
Offset(a, list) == Cardinality({b \in list : b < a})

AssistantPage(list) ==
    {a \in list : page * PageSize <= Offset(a, list) /\ Offset(a, list) < (page + 1) * PageSize}

\* Mutant: a full page is taken for the last one.
LastPage_Full(items) == Len(items) <= PageSize

LastPage(items) == Len(items) < PageSize

MorePages(max) == page + 1 < max

\* sort_by assistant_id: the order within a page makes no difference.  Too many
\* pages are an error.
ListAssistants ==
    LET items == SetToSeq(AssistantPage(there))
    IN  /\ pc = "agents" /\ kind = "langgraph"
        /\ agents' = agents \o items
        /\ IF LastPage(items) THEN pc' = "threads" /\ page' = 0 /\ UNCHANGED outcome
           ELSE IF MorePages(MaxAssistantPages)
                THEN page' = page + 1 /\ UNCHANGED <<pc, outcome>>
                ELSE Return("error") /\ UNCHANGED page
        /\ UNCHANGED <<runtime, threads, pool, history>>

\* sort_by updated_at, descending.  Threads beyond the last page are left out.
ListThreads ==
    LET items == Page(order)
    IN  /\ pc = "threads"
        /\ threads' = threads \o items
        /\ IF LastPage(items) \/ ~MorePages(MaxThreadPages)
           THEN pc' = "runs" /\ page' = 0
           ELSE page' = page + 1 /\ UNCHANGED pc
        /\ UNCHANGED <<runtime, agents, pool, outcome, history>>

\* The runs of every listed thread; one that is gone is an error.
ListRuns ==
    /\ pc = "runs"
    /\ IF Range(threads) \subseteq Range(order)
       THEN pc' = "validating" /\ UNCHANGED outcome
       ELSE Return("error")
    /\ UNCHANGED <<runtime, agents, threads, page, pool, history>>

-----------------------------------------------------------------------------
(***************************************************************************)
(* validateRuntimeSnapshot.                                                *)
(***************************************************************************)
\* The key under which duplicate delegations are looked for: the ref, and the
\* delegate of one that has none.
DelegationKey(d) == IF d.ref = None THEN <<d.orchestrator, "agent", d.delegate>>
                    ELSE <<d.orchestrator, "ref", d.ref>>

\* No agent and no execution comes twice.
Distinct == IsInjective(agents) /\ IsInjective(threads)

ValidSnapshot ==
    /\ Distinct
    /\ \A d, e \in delegations : DelegationKey(d) = DelegationKey(e) => d = e

Validate ==
    /\ pc = "validating"
    /\ Return(IF ValidSnapshot THEN "snapshot" ELSE "error")
    /\ UNCHANGED <<runtime, agents, threads, page, pool, history>>

-----------------------------------------------------------------------------
(***************************************************************************)
(* The runtime goes on meanwhile.                                          *)
(***************************************************************************)
Change(gone, what) ==
    /\ pc # "idle"
    /\ changes.all < MaxChanges
    /\ changes' = [all |-> changes.all + 1, gone |-> changes.gone + gone]
    /\ kept' = kept \ {what}
    /\ UNCHANGED <<kind, document, pc, agents, threads, page, pool, outcome>>

AgentDeleted == \E a \in there : there' = there \ {a} /\ Change(1, a) /\ UNCHANGED order

AgentCreated == \E a \in Agents \ there : there' = there \cup {a} /\ Change(0, a) /\ UNCHANGED order

\* The list is sorted by the last update, descending.
ThreadCreated ==
    /\ kind = "langgraph"
    /\ \E t \in Threads \ Range(order) : order' = <<t>> \o order /\ Change(0, t)
    /\ UNCHANGED there

ThreadUpdated ==
    /\ kind = "langgraph"
    /\ \E i \in DOMAIN order :
          order' = <<order[i]>> \o RemoveAt(order, i) /\ Change(0, order[i])
    /\ UNCHANGED there

ThreadDeleted ==
    /\ kind = "langgraph"
    /\ \E i \in DOMAIN order : order' = RemoveAt(order, i) /\ Change(1, order[i])
    /\ UNCHANGED there

RuntimeChanges == AgentDeleted \/ AgentCreated \/ ThreadCreated \/ ThreadUpdated \/ ThreadDeleted

Fetch(w) ==
    HandOut(w) \/ ListAgentSkills(w) \/ GetAgentAccess(w) \/ ListAgentDelegates(w) \/ FetchFails(w)

Collect ==
    \/ Check \/ CallFails
    \/ ListAgents \/ ListCatalogs \/ PoolEnds \/ ListSubagentExecutions
    \/ ListAssistants \/ ListThreads \/ ListRuns
    \/ Validate

Next == Begin \/ Collect \/ (\E w \in Workers : Fetch(w)) \/ RuntimeChanges

\* Every call ends, at the timeout of its context at the latest, and goroutines run.
Fairness == WF_collectorVars(Collect) /\ \A w \in Workers : WF_collectorVars(Fetch(w))

Spec == Init /\ [][Next]_collectorVars /\ Fairness

-----------------------------------------------------------------------------
\* Whatever fails and however the runtime changes, the producer of jobs, the
\* goroutines and the page loops come to an end.
CollectionReturns == pc # "idle" ~> pc = "idle"

\* A Gantry snapshot has skills, access and delegates of every agent it lists: an
\* agent that went away, or a call that failed in one goroutine, refuses it whole.
SnapshotWhole == outcome = "snapshot" /\ kind = "gantry" => full = DOMAIN agents

\* What stayed on the runtime all the while is in the snapshot, but for as many
\* as were deleted, each of which may have hidden one behind a page boundary, and
\* for threads beyond the last page.
HiddenByDeletions ==
    outcome = "snapshot" =>
        /\ Cardinality((kept \cap Agents) \ Range(agents))
              <= IF kind = "gantry" THEN 0 ELSE changes.gone
        /\ \/ Len(threads) = MaxThreadPages * PageSize
           \/ Cardinality((kept \cap Threads) \ Range(threads)) <= changes.gone

\* No two parts of an accepted snapshot are stored in one row, also when a thread
\* that moved was listed on two pages; delegations are stored by the agent and
\* the ref.
RowsDistinct ==
    outcome = "snapshot" =>
        /\ IsInjective(agents)
        /\ IsInjective(threads)
        /\ \A d, e \in delegations : d.orchestrator = e.orchestrator /\ d.ref = e.ref => d = e

=============================================================================
