----------------------- MODULE SnapshotCollector_proofs -----------------------
(***************************************************************************)
(* Proofs about SnapshotCollector, for any finite sets of agents and       *)
(* threads, any documents, pool and page sizes and under every fault.  The *)
(* argument: goroutines work only while CollectSnapshot waits for them, so *)
(* what was validated does not change before the next collection begins;   *)
(* every delegation has a ref, so the key that is checked is the key that  *)
(* is stored; every job handed out is filled in, in work, or has failed;   *)
(* and a page that is not full reaches to the end of its list, while a     *)
(* deletion moves at most one member of the list over the boundary of the  *)
(* next page, so that no more are passed over than were deleted.           *)
(***************************************************************************)
EXTENDS SnapshotCollector, FiniteSetTheorems, SequenceTheorems, TLAPS

\* A goroutine with a job is one of the started ones, and CollectSnapshot waits.
PoolInv ==
    /\ worker \in [Workers -> [step : {"waiting", "skills", "access", "delegates"}, job : Nat]]
    /\ next \in Nat
    /\ \A w \in Workers : worker[w].step # "waiting" => pc = "pool" /\ w \in Started

\* Every delegation has the ref that it is stored under.
RefsInv ==
    /\ document \in Documents \cup {NoDocument}
    /\ \A d \in delegations : d.ref # None

\* What a snapshot was accepted for is what it holds.
AcceptedInv == outcome = "snapshot" => pc = "idle" /\ ValidSnapshot

CollectorInv == PoolInv /\ RefsInv /\ AcceptedInv

-----------------------------------------------------------------------------
\* A set that is listed: a sequence of its members, each of them once.
LEMMA SetToSeqList ==
    ASSUME NEW S, IsFiniteSet(S)
    PROVE  /\ SetToSeq(S) \in Seq(S) /\ Len(SetToSeq(S)) = Cardinality(S)
           /\ Cardinality(S) \in Nat /\ Range(SetToSeq(S)) = S
<1> DEFINE n == Cardinality(S)
<1>1. n \in Nat /\ ExistsBijection(1..n, S)
    BY FS_CardinalityType
<1>2. \E f \in [1..n -> S] : IsInjective(f)
    BY <1>1 DEF ExistsBijection, Bijection, Injection, IsInjective
<1>3. SetToSeq(S) \in [1..n -> S] /\ IsInjective(SetToSeq(S))
    BY <1>2 DEF SetToSeq
<1>4. SetToSeq(S) \in Injection(1..n, S)
    BY <1>3 DEF Injection, IsInjective
<1>5. IsFiniteSet(1..n) /\ Cardinality(1..n) = n
    BY <1>1, FS_Interval
<1>6. SetToSeq(S) \in Surjection(1..n, S)
    BY <1>4, <1>5, FS_Injection
<1>7. Range(SetToSeq(S)) = S
    BY <1>3, <1>6 DEF Surjection, Range
<1> HIDE DEF n
<1>8. SetToSeq(S) \in Seq(S)
    BY <1>1, <1>3, SeqDef
<1>9. Len(SetToSeq(S)) = n
    BY <1>1, <1>3, <1>8, LenProperties
<1> QED  BY <1>1, <1>7, <1>8, <1>9 DEF n

\* A list without its i-th member.
LEMMA ListWithout ==
    ASSUME NEW S, NEW s \in Seq(S), NEW i \in DOMAIN s
    PROVE  /\ RemoveAt(s, i) \in Seq(S)
           /\ Len(RemoveAt(s, i)) = Len(s) - 1
           /\ \A j \in 1..Len(s) - 1 :
                 RemoveAt(s, i)[j] = IF j < i THEN s[j] ELSE s[j + 1]
<1> DEFINE u == SubSeq(s, 1, i - 1)
<1> DEFINE v == SubSeq(s, i + 1, Len(s))
<1>1. Len(s) \in Nat /\ i \in 1..Len(s) /\ DOMAIN s = 1..Len(s)
    BY LenProperties
<1>2. /\ u \in Seq(S) /\ Len(u) = i - 1 /\ \A j \in 1..i - 1 : u[j] = s[j]
    BY <1>1, SubSeqProperties
<1>3. /\ v \in Seq(S) /\ Len(v) = Len(s) - i /\ \A j \in 1..Len(s) - i : v[j] = s[i + j]
    BY <1>1, SubSeqProperties
<1>4. RemoveAt(s, i) = u \o v
    BY DEF RemoveAt
<1> HIDE DEF u, v
<1>5. /\ u \o v \in Seq(S) /\ Len(u \o v) = Len(s) - 1
      /\ \A j \in 1..Len(s) - 1 : (u \o v)[j] = IF j <= i - 1 THEN u[j] ELSE v[j - (i - 1)]
    <2>1. /\ u \o v \in Seq(S) /\ Len(u \o v) = Len(u) + Len(v)
          /\ \A j \in 1..Len(u) + Len(v) :
                (u \o v)[j] = IF j <= Len(u) THEN u[j] ELSE v[j - Len(u)]
        BY <1>2, <1>3, ConcatProperties
    <2>2. Len(u) + Len(v) = Len(s) - 1
        BY <1>1, <1>2, <1>3
    <2> QED  BY <1>2, <2>1, <2>2
<1>6. ASSUME NEW j \in 1..Len(s) - 1
      PROVE  (u \o v)[j] = IF j < i THEN s[j] ELSE s[j + 1]
    <2>1. CASE j < i
        BY <1>1, <1>2, <1>5, <2>1
    <2>2. CASE ~(j < i)
        <3>1. j - (i - 1) \in 1..Len(s) - i /\ i + (j - (i - 1)) = j + 1
            BY <1>1, <2>2
        <3>2. v[j - (i - 1)] = s[j + 1]
            BY <1>3, <3>1
        <3> QED  BY <1>1, <1>5, <2>2, <3>2
    <2> QED  BY <2>1, <2>2
<1> QED  BY <1>4, <1>5, <1>6

\* Of two numbers.
LEMMA MinOfTwo == \A a, b \in Int : Min({a, b}) = IF a <= b THEN a ELSE b
    BY DEF Min

-----------------------------------------------------------------------------
(***************************************************************************)
(* Offsets in the list of agents.                                          *)
(***************************************************************************)
\* The offsets of a list are in its bounds, and no two agents have the same.
LEMMA OffsetOrder ==
    ASSUME NEW S \in SUBSET Nat, IsFiniteSet(S)
    PROVE  /\ \A a \in S : Offset(a, S) \in Nat /\ Offset(a, S) < Cardinality(S)
           /\ \A a, b \in S : Offset(a, S) = Offset(b, S) => a = b
<1>1. ASSUME NEW a \in S PROVE IsFiniteSet({b \in S : b < a}) /\ Offset(a, S) \in Nat
    <2>1. {b \in S : b < a} \in SUBSET S
        OBVIOUS
    <2> QED  BY <2>1, FS_Subset, FS_CardinalityType DEF Offset
<1>2. ASSUME NEW a \in S PROVE Offset(a, S) < Cardinality(S)
    <2>1. /\ IsFiniteSet(S \ {a}) /\ Cardinality(S \ {a}) = Cardinality(S) - 1
          /\ Cardinality(S) \in Nat
        BY FS_RemoveElement, FS_CardinalityType
    <2>2. {b \in S : b < a} \in SUBSET (S \ {a})
        OBVIOUS
    <2>3. Offset(a, S) <= Cardinality(S \ {a})
        BY <2>1, <2>2, FS_Subset DEF Offset
    <2>4. Offset(a, S) \in Nat
        BY <1>1
    <2> QED  BY <2>1, <2>3, <2>4
<1>3. ASSUME NEW a \in S, NEW b \in S, a < b PROVE Offset(a, S) < Offset(b, S)
    <2> DEFINE T == {c \in S : c < b}
    <2>1. IsFiniteSet(T) /\ a \in T
        BY <1>1, <1>3
    <2>2. /\ IsFiniteSet(T \ {a}) /\ Cardinality(T \ {a}) = Cardinality(T) - 1
          /\ Cardinality(T) \in Nat
        BY <2>1, FS_RemoveElement, FS_CardinalityType
    <2>3. {c \in S : c < a} \in SUBSET (T \ {a})
        <3>1. \A c \in S : c < a => c < b /\ c # a
            BY <1>3
        <3> QED  BY <3>1
    <2>4. Cardinality({c \in S : c < a}) <= Cardinality(T \ {a})
        BY <2>2, <2>3, FS_Subset
    <2> QED  BY <1>1, <2>2, <2>4 DEF Offset
<1>4. ASSUME NEW a \in S, NEW b \in S, Offset(a, S) = Offset(b, S) PROVE a = b
    <2>1. a \in Nat /\ b \in Nat
        OBVIOUS
    <2>2. a < b \/ b < a \/ a = b
        BY <2>1
    <2>3. Offset(a, S) \in Nat /\ Offset(b, S) \in Nat
        BY <1>1
    <2>4. ~(a < b) /\ ~(b < a)
        BY <1>3, <1>4, <2>3
    <2> QED  BY <2>2, <2>4
<1> QED  BY <1>1, <1>2, <1>4

\* Every offset below the length is that of some agent.
LEMMA OffsetTaken ==
    ASSUME NEW S \in SUBSET Nat, IsFiniteSet(S), NEW n \in Nat, n < Cardinality(S)
    PROVE  \E a \in S : Offset(a, S) = n
<1> DEFINE m == Cardinality(S)
<1> DEFINE T == 0..m - 1
<1>1. m \in Nat /\ n \in T
    BY FS_CardinalityType
<1>2. IsFiniteSet(T) /\ Cardinality(T) = m
    BY <1>1, FS_Interval
<1>3. IsFiniteSet(T \ {n}) /\ Cardinality(T \ {n}) = m - 1
    <2> HIDE DEF T, m
    <2> QED  BY <1>1, <1>2, FS_RemoveElement
<1> SUFFICES ASSUME \A a \in S : Offset(a, S) # n PROVE FALSE
    OBVIOUS
<1> DEFINE f == [a \in S |-> Offset(a, S)]
<1>4. f \in [S -> T \ {n}]
    BY <1>1, OffsetOrder
<1>5. Cardinality(T \ {n}) < Cardinality(S)
    BY <1>1, <1>3
<1> HIDE DEF T, m
<1>6. PICK a \in S, b \in S : a # b /\ f[a] = f[b]
    <2> HIDE DEF f
    <2> QED  BY <1>3, <1>4, <1>5, FS_PigeonHole
<1> QED  BY <1>6, OffsetOrder

\* An agent that goes away moves those behind it one place forward; one that
\* comes moves them back.
LEMMA OffsetMoves ==
    ASSUME NEW S \in SUBSET Nat, IsFiniteSet(S), NEW x \in Nat
    PROVE  /\ \A a \in S : x \in S => Offset(a, S) <= Offset(a, S \ {x}) + 1
           /\ \A a \in S : Offset(a, S) <= Offset(a, S \cup {x})
<1>1. ASSUME NEW a \in S, x \in S PROVE Offset(a, S) <= Offset(a, S \ {x}) + 1
    <2> DEFINE T == {b \in S : b < a}
    <2>1. IsFiniteSet(T) /\ Cardinality(T) \in Nat
        BY FS_Subset, FS_CardinalityType
    <2>2. Cardinality(T \ {x}) >= Cardinality(T) - 1 /\ Cardinality(T \ {x}) \in Nat
        <3> HIDE DEF T
        <3>1. IsFiniteSet(T \ {x})
            BY <2>1, FS_RemoveElement
        <3> QED  BY <2>1, <3>1, FS_RemoveElement, FS_CardinalityType
    <2>3. {b \in S \ {x} : b < a} = T \ {x}
        OBVIOUS
    <2> QED  BY <2>1, <2>2, <2>3 DEF Offset
<1>2. ASSUME NEW a \in S PROVE Offset(a, S) <= Offset(a, S \cup {x})
    <2>1. IsFiniteSet(S \cup {x})
        BY FS_AddElement
    <2>2. IsFiniteSet({b \in S \cup {x} : b < a})
        BY <2>1, FS_Subset
    <2>3. {b \in S : b < a} \in SUBSET {b \in S \cup {x} : b < a}
        OBVIOUS
    <2> QED  BY <2>2, <2>3, FS_Subset DEF Offset
<1> QED  BY <1>1, <1>2


-----------------------------------------------------------------------------
\* What the delegates document yields always has a ref.
LEMMA DelegationsHaveRefs ==
    ASSUME RefsInv, NEW a, NEW d \in Resolved(a) \cup Unresolved(a)
    PROVE  d.ref # None
<1>1. /\ document.resolved \subseteq Entries /\ document.configured \subseteq Names
    BY DocumentsAssumption DEF RefsInv, NoDocument
<1>2. ASSUME d \in Resolved(a) PROVE d.ref # None
    <2>1. PICK r \in document.resolved :
              /\ r.agent # None
              /\ d = [orchestrator |-> a, delegate |-> r.agent,
                      ref |-> IF r.ref = None THEN r.agent ELSE r.ref, entry |-> r]
        BY <1>2 DEF Resolved
    <2>2. d.ref = IF r.ref = None THEN r.agent ELSE r.ref
        BY <2>1
    <2> QED  BY <2>1, <2>2
<1>3. ASSUME d \in Unresolved(a) PROVE d.ref # None
    <2>1. PICK n \in document.configured :
              d = [orchestrator |-> a, delegate |-> GantryAgentIDForDelegateRef(n), ref |-> n,
                   entry |-> [ref |-> n, agent |-> None]]
        BY <1>3 DEF Unresolved
    <2>2. d.ref = n
        BY <2>1
    <2> QED  BY <1>1, <2>2, NamesAssumption
<1> QED  BY <1>2, <1>3

\* Nothing has been collected at first.
LEMMA CollectorInit == Init => CollectorInv
<1> SUFFICES ASSUME Init PROVE CollectorInv
    OBVIOUS
<1>1. PoolInv
    BY DEF Init, PoolInv, Idle
<1>2. RefsInv
    <2>1. kind = "gantry" \/ kind = "langgraph"
        BY DEF Init
    <2> QED  BY <2>1 DEF Init, RefsInv
<1>3. AcceptedInv
    BY DEF Init, AcceptedInv
<1> QED  BY <1>1, <1>2, <1>3 DEF CollectorInv

\* A change of the runtime touches nothing that a collection has read.
LEMMA ChangesApart ==
    ASSUME RuntimeChanges
    PROVE  UNCHANGED <<kind, document, pc, agents, threads, page, pool, outcome>>
BY DEF RuntimeChanges, AgentDeleted, AgentCreated, ThreadCreated, ThreadUpdated, ThreadDeleted, Change

\* Outside the pool no goroutine has a job.
LEMMA PoolStep == CollectorInv /\ [Next]_collectorVars => PoolInv'
<1> SUFFICES ASSUME CollectorInv, [Next]_collectorVars PROVE PoolInv'
    OBVIOUS
<1>y. /\ worker \in [Workers -> [step : {"waiting", "skills", "access", "delegates"}, job : Nat]]
      /\ next \in Nat
      /\ \A w \in Workers : worker[w].step # "waiting" => pc = "pool" /\ w \in Started
    BY DEF CollectorInv, PoolInv
<1>1. ASSUME \A w \in Workers : worker[w].step = "waiting", worker' = worker, next' \in Nat
      PROVE  PoolInv'
    BY <1>1, <1>y DEF PoolInv
<1>2. ASSUME pc # "pool", worker' = worker, next' \in Nat PROVE PoolInv'
    BY <1>1, <1>2, <1>y
<1>3. ASSUME NEW w \in Workers,
             NEW x \in [step : {"waiting", "skills", "access", "delegates"}, job : Nat],
             worker' = [worker EXCEPT ![w] = x], pc' = pc, agents' = agents, next' \in Nat,
             pc = "pool", w \in Started
      PROVE  PoolInv'
    BY <1>3, <1>y DEF PoolInv, Started
<1>4. CASE Begin
    BY <1>2, <1>4 DEF Begin
<1>5. CASE \/ Check \/ CallFails \/ ListAgents \/ ListCatalogs \/ ListSubagentExecutions
           \/ ListAssistants \/ ListThreads \/ ListRuns \/ Validate
    BY <1>2, <1>5, <1>y DEF Check, CallFails, ListAgents, ListCatalogs, ListSubagentExecutions,
       ListAssistants, ListThreads, ListRuns, Validate, pool
<1>6. CASE PoolEnds
    <2>1. /\ pc = "pool" /\ \A w \in Started : worker[w] = Idle
          /\ worker' = worker /\ next' = next
        BY <1>6 DEF PoolEnds, pool
    <2>2. \A w \in Workers : worker[w].step = "waiting"
        BY <1>y, <2>1 DEF Idle
    <2> QED  BY <1>1, <1>y, <2>1, <2>2
<1>7. ASSUME NEW w \in Workers, HandOut(w) PROVE PoolInv'
    <2>1. [step |-> "skills", job |-> next] \in
              [step : {"waiting", "skills", "access", "delegates"}, job : Nat]
        BY <1>y
    <2>2. /\ worker' = [worker EXCEPT ![w] = [step |-> "skills", job |-> next]]
          /\ pc' = pc /\ agents' = agents /\ pc = "pool" /\ w \in Started
          /\ next' = next + 1
        BY <1>7 DEF HandOut
    <2>3. next' \in Nat
        BY <1>y, <2>2
    <2> QED  BY <1>3, <2>1, <2>2, <2>3
<1>8. ASSUME NEW w \in Workers, NEW step \in {"access", "delegates"}, GoOn(w, step),
             worker[w].step # "waiting", UNCHANGED <<pc, agents, next>>
      PROVE  PoolInv'
    <2> DEFINE x == [worker[w] EXCEPT !.step = step]
    <2>1. x \in [step : {"waiting", "skills", "access", "delegates"}, job : Nat]
        BY <1>y
    <2>2. worker' = [worker EXCEPT ![w] = x]
        BY <1>8, <1>y DEF GoOn
    <2> HIDE DEF x
    <2> QED  BY <1>3, <1>8, <1>y, <2>1, <2>2
<1>9. ASSUME NEW w \in Workers, worker' = [worker EXCEPT ![w] = Idle],
             worker[w].step # "waiting", UNCHANGED <<pc, agents, next>>
      PROVE  PoolInv'
    <2>1. Idle \in [step : {"waiting", "skills", "access", "delegates"}, job : Nat]
        BY DEF Idle
    <2> QED  BY <1>3, <1>9, <1>y, <2>1
<1>10. ASSUME NEW w \in Workers, Fetch(w) PROVE PoolInv'
    <2>1. CASE ListAgentSkills(w)
        BY <1>8, <2>1 DEF ListAgentSkills
    <2>2. CASE GetAgentAccess(w)
        BY <1>8, <2>2 DEF GetAgentAccess
    <2>3. CASE ListAgentDelegates(w)
        BY <1>9, <2>3 DEF ListAgentDelegates
    <2>4. CASE FetchFails(w)
        BY <1>9, <2>4 DEF FetchFails, AfterFailure
    <2> QED  BY <1>7, <1>10, <2>1, <2>2, <2>3, <2>4 DEF Fetch
<1>11. CASE RuntimeChanges \/ UNCHANGED collectorVars
    <2>1. UNCHANGED <<pc, agents, worker, next>>
        BY <1>11, ChangesApart DEF pool, collectorVars
    <2> QED  BY <1>y, <2>1 DEF PoolInv, Started
<1> QED  BY <1>4, <1>5, <1>6, <1>10, <1>11 DEF Next, Collect

\* Delegations are only added, with refs, and only by the pool.
LEMMA RefsStep == CollectorInv /\ [Next]_collectorVars => RefsInv'
<1> SUFFICES ASSUME CollectorInv, [Next]_collectorVars PROVE RefsInv'
    OBVIOUS
<1>1. CASE \E w \in Workers : ListAgentDelegates(w)
    <2>1. PICK w \in Workers : ListAgentDelegates(w)
        BY <1>1
    <2>2. PICK a : delegations' = delegations \cup Resolved(a) \cup Unresolved(a)
        BY <2>1 DEF ListAgentDelegates
    <2>3. document' = document
        BY <2>1 DEF ListAgentDelegates, runtime
    <2>4. \A d \in Resolved(a) \cup Unresolved(a) : d.ref # None
        BY DelegationsHaveRefs DEF CollectorInv
    <2> QED  BY <2>2, <2>3, <2>4 DEF CollectorInv, RefsInv
<1>2. CASE document' = document /\ delegations' \subseteq delegations
    BY <1>2 DEF CollectorInv, RefsInv
<1> QED
    BY <1>1, <1>2, ChangesApart
    DEF Next, Begin, Collect, Check, CallFails, ListAgents, ListCatalogs, PoolEnds,
        ListSubagentExecutions, ListAssistants, ListThreads, ListRuns, Validate, Fetch, HandOut,
        ListAgentSkills, GetAgentAccess, FetchFails, runtime, pool, collectorVars

\* After a snapshot was accepted nothing of it changes.
LEMMA AcceptedStep == CollectorInv /\ [Next]_collectorVars => AcceptedInv'
<1> SUFFICES ASSUME CollectorInv, [Next]_collectorVars PROVE AcceptedInv'
    OBVIOUS
<1>1. CASE Validate
    <2>1. /\ pc' = "idle" /\ UNCHANGED <<agents, threads, delegations>>
          /\ outcome' = "snapshot" => ValidSnapshot
        BY <1>1 DEF Validate, Return, pool
    <2> QED  BY <2>1 DEF AcceptedInv, ValidSnapshot, Distinct, DelegationKey
<1>2. CASE outcome' # "snapshot"
    BY <1>2 DEF AcceptedInv
<1>3. CASE UNCHANGED <<pc, outcome, agents, threads, delegations>>
    BY <1>3 DEF CollectorInv, AcceptedInv, ValidSnapshot, Distinct, DelegationKey
<1>4. CASE pc # "idle" /\ outcome' = outcome
    BY <1>2, <1>4 DEF CollectorInv, AcceptedInv
<1>5. CASE \E w \in Workers : ListAgentDelegates(w)
    <2>1. PICK w \in Workers : ListAgentDelegates(w)
        BY <1>5
    <2>2. pc = "pool" /\ outcome' = outcome
        BY <2>1 DEF ListAgentDelegates, CollectorInv, PoolInv
    <2> QED  BY <1>4, <2>2
<1> QED
    BY <1>1, <1>2, <1>3, <1>4, <1>5, ChangesApart
    DEF Next, Begin, Collect, Check, CallFails, ListAgents, ListCatalogs, PoolEnds, Return,
        ListSubagentExecutions, ListAssistants, ListThreads, ListRuns, Fetch, HandOut,
        ListAgentSkills, GetAgentAccess, FetchFails, runtime, pool, collectorVars

\* No two parts of an accepted snapshot are stored in one row, whatever the
\* runtime answers and however it changes while it is read: every delegation has
\* a ref, so that the key validateRuntimeSnapshot checks is the one that is stored,
\* and agents and threads that were listed twice are refused.
THEOREM RowsDistinctCorrect == Spec => []RowsDistinct
<1>1. CollectorInv /\ [Next]_collectorVars => CollectorInv'
    BY PoolStep, RefsStep, AcceptedStep DEF CollectorInv
<1>2. CollectorInv => RowsDistinct
    <2> SUFFICES ASSUME CollectorInv, outcome = "snapshot"
                 PROVE  /\ IsInjective(agents) /\ IsInjective(threads)
                        /\ \A d, e \in delegations :
                              d.orchestrator = e.orchestrator /\ d.ref = e.ref => d = e
        BY DEF RowsDistinct
    <2>1. ValidSnapshot
        BY DEF CollectorInv, AcceptedInv
    <2>2. ASSUME NEW d \in delegations, NEW e \in delegations,
                 d.orchestrator = e.orchestrator, d.ref = e.ref
          PROVE  d = e
        <3>1. d.ref # None /\ e.ref # None
            BY DEF CollectorInv, RefsInv
        <3>2. DelegationKey(d) = DelegationKey(e)
            BY <2>2, <3>1 DEF DelegationKey
        <3> QED  BY <2>1, <3>2 DEF ValidSnapshot
    <2> QED  BY <2>1, <2>2 DEF ValidSnapshot, Distinct
<1> QED  BY CollectorInit, <1>1, <1>2, PTL DEF Spec

-----------------------------------------------------------------------------
Busy(j) == \E w \in Workers : worker[w].step # "waiting" /\ worker[w].job = j

Listed == DOMAIN agents = 1..Len(agents) /\ Len(agents) \in Nat

\* Every job of the pool is filled in, in work, or the pool has failed.
WholeInv ==
    /\ there \subseteq Agents
    /\ kind = "gantry" =>
        /\ pc \notin {"threads", "runs"}
        /\ pc \in {"catalogs", "pool", "executions", "validating"} \/ outcome = "snapshot" => Listed
        /\ pc \in {"checking", "agents", "catalogs"} => next = 1 /\ full = {}
        /\ pc = "pool" =>
              /\ next \in 1..Len(agents) + 1
              /\ full \subseteq 1..next - 1
              /\ \A w \in Workers : worker[w].step # "waiting" => worker[w].job \in 1..next - 1
              /\ ~failed => \A j \in 1..next - 1 : j \in full \/ Busy(j)
        /\ pc \in {"executions", "validating"} \/ outcome = "snapshot" => full = DOMAIN agents

\* Every step accounts for the jobs.
LEMMA WholeStep == CollectorInv /\ WholeInv /\ [Next]_collectorVars => WholeInv'
<1> SUFFICES ASSUME CollectorInv, WholeInv, [Next]_collectorVars PROVE WholeInv'
    OBVIOUS
<1>y. /\ worker \in [Workers -> [step : {"waiting", "skills", "access", "delegates"}, job : Nat]]
      /\ next \in Nat
      /\ \A w \in Workers : worker[w].step # "waiting" => pc = "pool" /\ w \in Started
      /\ outcome = "snapshot" => pc = "idle"
    BY DEF CollectorInv, PoolInv, AcceptedInv
<1>1. CASE Begin
    BY <1>1 DEF Begin, WholeInv, runtime
<1>2. CASE CallFails
    BY <1>2 DEF CallFails, Return, WholeInv, runtime
<1>3. CASE Check
    <2>1. /\ pc = "checking" /\ pc' = "agents" /\ outcome # "snapshot"
          /\ UNCHANGED <<there, kind, agents, next, full, outcome>>
        BY <1>3, <1>y DEF Check, runtime, pool
    <2> QED  BY <2>1 DEF WholeInv
<1>4. CASE ListAgents
    <2>1. IsFiniteSet(there)
        BY FS_Subset, AgentsAssumption DEF WholeInv
    <2>2. /\ pc = "agents" /\ pc' = "catalogs" /\ outcome' # "snapshot"
          /\ UNCHANGED <<there, kind, next, full>> /\ agents' = SetToSeq(there)
        BY <1>4, <1>y DEF ListAgents, runtime, pool
    <2>3. Listed'
        BY <2>1, <2>2, SetToSeqList, LenProperties DEF Listed
    <2> QED  BY <2>2, <2>3 DEF WholeInv
<1>5. CASE ListCatalogs
    <2>1. /\ pc = "catalogs" /\ pc' = "pool" /\ outcome' # "snapshot"
          /\ UNCHANGED <<there, kind, agents, next, worker, full, failed>>
        BY <1>5, <1>y DEF ListCatalogs, runtime, pool
    <2>2. \A w \in Workers : worker'[w].step = "waiting"
        BY <1>y, <2>1
    <2>3. ASSUME kind = "gantry" PROVE next' = 1 /\ full' = {} /\ Listed'
        BY <2>1, <2>3 DEF WholeInv, Listed
    <2> QED  BY <2>1, <2>2, <2>3 DEF WholeInv, Listed
<1>6. ASSUME NEW w \in Workers, HandOut(w) PROVE WholeInv'
    <2>1. /\ pc = "pool" /\ next <= Len(agents) /\ next' = next + 1
          /\ worker' = [worker EXCEPT ![w] = [step |-> "skills", job |-> next]]
          /\ worker[w].step = "waiting"
          /\ UNCHANGED <<there, kind, pc, agents, full, failed, outcome>>
        BY <1>6 DEF HandOut, runtime
    <2>2. /\ worker'[w].step = "skills" /\ worker'[w].job = next
          /\ \A v \in Workers \ {w} : worker'[v] = worker[v]
        BY <1>y, <2>1
    <2>3. ASSUME kind = "gantry"
          PROVE  /\ next' \in 1..Len(agents) + 1
                 /\ full \subseteq 1..next' - 1
                 /\ \A v \in Workers : worker'[v].step # "waiting" => worker'[v].job \in 1..next' - 1
                 /\ ~failed => \A j \in 1..next' - 1 : j \in full \/ Busy(j)'
        <3>1. /\ next \in 1..Len(agents) + 1 /\ full \subseteq 1..next - 1 /\ Len(agents) \in Nat
              /\ \A v \in Workers : worker[v].step # "waiting" => worker[v].job \in 1..next - 1
              /\ ~failed => \A j \in 1..next - 1 : j \in full \/ Busy(j)
            BY <2>1, <2>3 DEF WholeInv, Listed
        <3>2. \A j \in 1..next' - 1 : j \in 1..next - 1 \/ j = next
            BY <1>y, <2>1
        <3>3. /\ next' \in 1..Len(agents) + 1
              /\ \A j \in 1..next - 1 : j \in 1..next' - 1
              /\ next \in 1..next' - 1
            BY <1>y, <2>1, <3>1
        <3>4. \A j : Busy(j) => Busy(j)'
            BY <2>1, <2>2 DEF Busy
        <3>5. \A j : j = next => Busy(j)'
            BY <2>2 DEF Busy
        <3> QED  BY <2>2, <3>1, <3>2, <3>3, <3>4, <3>5
    <2> QED  BY <1>y, <2>1, <2>3 DEF WholeInv, Listed
<1>7. ASSUME NEW w \in Workers, ListAgentSkills(w) \/ GetAgentAccess(w) PROVE WholeInv'
    <2>1. PICK step \in {"access", "delegates"} : worker' = [worker EXCEPT ![w].step = step]
        BY <1>7 DEF ListAgentSkills, GetAgentAccess, GoOn
    <2>2. /\ worker[w].step # "waiting"
          /\ UNCHANGED <<there, kind, pc, agents, next, full, failed, outcome>>
        BY <1>7 DEF ListAgentSkills, GetAgentAccess, runtime
    <2>3. /\ worker'[w].step # "waiting" /\ worker'[w].job = worker[w].job
          /\ \A v \in Workers \ {w} : worker'[v] = worker[v]
        BY <1>y, <2>1
    <2>4. \A j : Busy(j) => Busy(j)'
        BY <2>3 DEF Busy
    <2> QED  BY <2>2, <2>3, <2>4 DEF WholeInv, Listed
<1>8. ASSUME NEW w \in Workers, ListAgentDelegates(w) PROVE WholeInv'
    <2>1. /\ worker[w].step # "waiting" /\ worker' = [worker EXCEPT ![w] = Idle]
          /\ full' = full \cup {worker[w].job}
          /\ UNCHANGED <<there, kind, pc, agents, next, failed, outcome>>
        BY <1>8 DEF ListAgentDelegates, runtime
    <2>2. /\ worker'[w].step = "waiting" /\ \A v \in Workers \ {w} : worker'[v] = worker[v]
        BY <1>y, <2>1 DEF Idle
    <2>3. \A j : Busy(j) => j = worker[w].job \/ Busy(j)'
        BY <2>2 DEF Busy
    <2>4. pc = "pool"
        BY <1>y, <2>1
    <2> QED  BY <1>y, <2>1, <2>2, <2>3, <2>4 DEF WholeInv, Listed
<1>9. ASSUME NEW w \in Workers, FetchFails(w) PROVE WholeInv'
    <2>1. /\ worker[w].step # "waiting" /\ worker' = [worker EXCEPT ![w] = Idle]
          /\ UNCHANGED <<there, kind, pc, agents, next, full, outcome>>
        BY <1>9 DEF FetchFails, AfterFailure, runtime
    <2>2. /\ worker'[w].step = "waiting" /\ \A v \in Workers \ {w} : worker'[v] = worker[v]
        BY <1>y, <2>1 DEF Idle
    <2>3. failed'
        BY <1>9 DEF FetchFails, Fatal
    <2>4. pc = "pool"
        BY <1>y, <2>1
    <2> QED  BY <1>y, <2>1, <2>2, <2>3, <2>4 DEF WholeInv, Listed
<1>10. CASE PoolEnds
    <2>1. /\ pc = "pool" /\ next = Len(agents) + 1 /\ \A w \in Started : worker[w] = Idle
          /\ UNCHANGED <<there, kind, agents, full>>
          /\ \/ failed /\ pc' = "idle" /\ outcome' = "error"
             \/ ~failed /\ pc' = "executions" /\ outcome' = outcome
        BY <1>10 DEF PoolEnds, Return, runtime, pool
    <2>2. \A j : ~Busy(j)
        BY <1>y, <2>1 DEF Busy, Idle
    <2>3. ASSUME kind = "gantry", ~failed PROVE full = DOMAIN agents
        <3>1. /\ full \subseteq 1..next - 1 /\ \A j \in 1..next - 1 : j \in full
              /\ DOMAIN agents = 1..Len(agents) /\ Len(agents) \in Nat
            BY <2>1, <2>2, <2>3 DEF WholeInv, Listed
        <3>2. next - 1 = Len(agents)
            BY <2>1, <3>1
        <3> QED  BY <3>1, <3>2
    <2> QED  BY <1>y, <2>1, <2>3 DEF WholeInv, Listed
<1>11. CASE ListSubagentExecutions
    <2>1. /\ pc = "executions" /\ pc' = "validating"
          /\ UNCHANGED <<there, kind, agents, full, outcome>>
        BY <1>11 DEF ListSubagentExecutions, runtime, pool
    <2> QED  BY <2>1 DEF WholeInv, Listed
<1>12. CASE Validate
    <2>1. /\ pc = "validating" /\ pc' = "idle" /\ UNCHANGED <<there, kind, agents, full>>
        BY <1>12 DEF Validate, Return, runtime, pool
    <2> QED  BY <2>1 DEF WholeInv, Listed
<1>13. CASE ListAssistants \/ ListThreads \/ ListRuns
    <2>1. kind # "gantry" /\ kind' = kind /\ there' = there
        BY <1>13 DEF ListAssistants, ListThreads, ListRuns, WholeInv, runtime
    <2> QED  BY <2>1 DEF WholeInv
<1>14. CASE RuntimeChanges \/ UNCHANGED collectorVars
    <2>1. UNCHANGED <<kind, pc, agents, next, worker, full, failed, outcome>>
        BY <1>14, ChangesApart DEF runtime, pool, collectorVars
    <2>2. there' \subseteq Agents
        BY <1>14 DEF RuntimeChanges, AgentDeleted, AgentCreated, ThreadCreated, ThreadUpdated,
                     ThreadDeleted, WholeInv, runtime, collectorVars
    <2>3. \A j : Busy(j) => Busy(j)'
        BY <2>1 DEF Busy
    <2> QED  BY <2>1, <2>2, <2>3 DEF WholeInv, Listed
<1> QED
    BY <1>1, <1>2, <1>3, <1>4, <1>5, <1>6, <1>7, <1>8, <1>9, <1>10, <1>11, <1>12, <1>13, <1>14
    DEF Next, Collect, Fetch

\* A Gantry snapshot is accepted only when every agent it lists was fetched whole,
\* for any number of goroutines and agents that come, go and fail meanwhile.
THEOREM SnapshotWholeCorrect == Spec => []SnapshotWhole
<1>1. Init => WholeInv
    BY DEF Init, WholeInv
<1>2. CollectorInv /\ [Next]_collectorVars => CollectorInv'
    BY PoolStep, RefsStep, AcceptedStep DEF CollectorInv
<1>3. WholeInv => SnapshotWhole
    BY DEF WholeInv, SnapshotWhole
<1> QED  BY CollectorInit, <1>1, <1>2, <1>3, WholeStep, PTL DEF Spec

-----------------------------------------------------------------------------
\* Where pages begin and end.
LEMMA PageBounds ==
    ASSUME NEW p \in Nat
    PROVE  p * PageSize \in Nat /\ (p + 1) * PageSize = p * PageSize + PageSize
<1>1. PageSize \in Nat
    BY PagesAssumption
<1>2. \A m, n \in Nat : m * n \in Nat /\ (m + 1) * n = m * n + n
    OBVIOUS
<1> QED  BY <1>1, <1>2

\* A page of agents that is not full reaches to the end of the list.
LEMMA AssistantPageEnds ==
    ASSUME NEW S \in SUBSET Nat, IsFiniteSet(S), page \in Nat
    PROVE  /\ IsFiniteSet(AssistantPage(S)) /\ AssistantPage(S) \subseteq S
           /\ Cardinality(AssistantPage(S)) < PageSize =>
                 \A a \in S : Offset(a, S) < (page + 1) * PageSize
<1> DEFINE lo == page * PageSize
<1> DEFINE hi == (page + 1) * PageSize
<1> DEFINE Items == AssistantPage(S)
<1>1. lo \in Nat /\ PageSize \in Nat /\ hi = lo + PageSize
    BY PageBounds, PagesAssumption
<1>2. IsFiniteSet(Items) /\ Items \subseteq S /\ Cardinality(Items) \in Nat
    BY FS_Subset, FS_CardinalityType DEF AssistantPage
<1>3. ASSUME NEW a \in S, ~(Offset(a, S) < hi) PROVE ~(Cardinality(Items) < PageSize)
    <2> DEFINE f == [b \in Items |-> Offset(b, S)]
    <2>1. \A b \in S : Offset(b, S) \in Nat /\ Offset(b, S) < Cardinality(S)
        BY OffsetOrder
    <2>2. \A b \in Items : Offset(b, S) \in lo..hi - 1
        BY <1>1, <2>1 DEF AssistantPage
    <2>3. ASSUME NEW n \in lo..hi - 1 PROVE \E b \in Items : Offset(b, S) = n
        <3>1. n \in Nat /\ n < Cardinality(S)
            BY <1>1, <1>3, <2>1, FS_CardinalityType
        <3>2. PICK b \in S : Offset(b, S) = n
            BY <3>1, OffsetTaken
        <3>3. lo <= n /\ n < hi
            BY <1>1
        <3>4. b \in Items
            BY <3>2, <3>3 DEF AssistantPage
        <3> QED  BY <3>2, <3>4
    <2> HIDE DEF Items, lo, hi
    <2>4. f \in Surjection(Items, lo..hi - 1)
        BY <2>2, <2>3 DEF Surjection
    <2>5. Cardinality(lo..hi - 1) <= Cardinality(Items)
        <3> HIDE DEF f
        <3> QED  BY <1>2, <2>4, FS_Surjection
    <2>6. Cardinality(lo..hi - 1) = PageSize
        <3>1. lo \in Int /\ hi - 1 \in Int /\ hi - 1 - lo + 1 = PageSize /\ PageSize > 0
            BY <1>1, PagesAssumption
        <3> QED  BY <3>1, FS_Interval
    <2> QED  BY <1>1, <1>2, <2>5, <2>6
<1> QED  BY <1>2, <1>3

\* A page of threads has the rows at its offsets, and one that is not full
\* reaches to the end of the list.
LEMMA ThreadPage ==
    ASSUME NEW S, NEW list \in Seq(S), page \in Nat
    PROVE  /\ Page(list) \in Seq(S) /\ Len(Page(list)) <= PageSize
           /\ Len(Page(list)) < PageSize => Len(list) < (page + 1) * PageSize
           /\ \A j \in DOMAIN list :
                 page * PageSize < j /\ j <= (page + 1) * PageSize => list[j] \in Range(Page(list))
<1> DEFINE lo == page * PageSize
<1> DEFINE hi == (page + 1) * PageSize
<1> DEFINE last == Min({Len(list), hi})
<1>1. /\ lo \in Nat /\ PageSize \in Nat \ {0} /\ hi = lo + PageSize
      /\ Len(list) \in Nat /\ DOMAIN list = 1..Len(list)
    BY PageBounds, PagesAssumption, LenProperties
<1>2. Page(list) = SubSeq(list, lo + 1, last)
    BY DEF Page
<1> HIDE DEF lo, hi
<1>3. last = IF Len(list) <= hi THEN Len(list) ELSE hi
    BY <1>1, MinOfTwo
<1> HIDE DEF last
<1>4. /\ SubSeq(list, lo + 1, last) \in Seq(S)
      /\ Len(SubSeq(list, lo + 1, last)) = IF lo + 1 <= last THEN last - lo ELSE 0
      /\ \A i \in 1..last - lo : SubSeq(list, lo + 1, last)[i] = list[lo + i]
    BY <1>1, <1>3, SubSeqProperties
<1>5. ASSUME NEW j \in DOMAIN list, lo < j, j <= hi
      PROVE  list[j] \in Range(SubSeq(list, lo + 1, last))
    <2>1. j - lo \in 1..last - lo /\ lo + (j - lo) = j /\ lo + 1 <= last
        BY <1>1, <1>3, <1>5
    <2>2. SubSeq(list, lo + 1, last)[j - lo] = list[j]
        BY <1>4, <2>1
    <2>3. j - lo \in DOMAIN SubSeq(list, lo + 1, last)
        BY <1>4, <2>1, LenProperties
    <2> QED  BY <2>2, <2>3 DEF Range
<1>6. Page(list) \in Seq(S) /\ Len(Page(list)) <= PageSize
    BY <1>1, <1>2, <1>3, <1>4
<1>7. Len(Page(list)) < PageSize => Len(list) < hi
    BY <1>1, <1>2, <1>3, <1>4
<1> QED  BY <1>2, <1>5, <1>6, <1>7 DEF lo, hi

-----------------------------------------------------------------------------
\* The delegations of an agent are of that agent, and each is made of an entry.
LEMMA DelegationTypes ==
    ASSUME document \in Documents \cup {NoDocument}, NEW a, NEW d \in Resolved(a) \cup Unresolved(a)
    PROVE  d.orchestrator = a /\ d.entry \in Entries
<1>1. /\ document.resolved \subseteq Entries /\ document.configured \subseteq Names
    BY DocumentsAssumption DEF NoDocument
<1>2. ASSUME d \in Resolved(a) PROVE d.orchestrator = a /\ d.entry \in Entries
    BY <1>1, <1>2 DEF Resolved
<1>3. ASSUME d \in Unresolved(a) PROVE d.orchestrator = a /\ d.entry \in Entries
    <2>1. PICK n \in document.configured :
              d = [orchestrator |-> a, delegate |-> GantryAgentIDForDelegateRef(n), ref |-> n,
                   entry |-> [ref |-> n, agent |-> None]]
        BY <1>3 DEF Unresolved
    <2>2. [ref |-> n, agent |-> None] \in Entries
        BY <1>1 DEF Entries
    <2> QED  BY <2>1, <2>2
<1> QED  BY <1>2, <1>3

\* A step of a goroutine keeps the pool well typed.
LEMMA WorkerType ==
    ASSUME CollectorTypeOK, NEW w \in Workers
    PROVE  /\ \A step \in {"access", "delegates"} : GoOn(w, step) =>
                 worker' \in [Workers -> [step : {"waiting", "skills", "access", "delegates"},
                                          job : Nat]]
           /\ [worker EXCEPT ![w] = Idle] \in
                 [Workers -> [step : {"waiting", "skills", "access", "delegates"}, job : Nat]]
<1>1. worker \in [Workers -> [step : {"waiting", "skills", "access", "delegates"}, job : Nat]]
    BY DEF CollectorTypeOK
<1>2. ASSUME NEW step \in {"access", "delegates"}, GoOn(w, step)
      PROVE  worker' \in [Workers -> [step : {"waiting", "skills", "access", "delegates"},
                                      job : Nat]]
    <2> DEFINE x == [worker[w] EXCEPT !.step = step]
    <2>1. x \in [step : {"waiting", "skills", "access", "delegates"}, job : Nat]
        BY <1>1
    <2>2. worker' = [worker EXCEPT ![w] = x]
        BY <1>1, <1>2 DEF GoOn
    <2> HIDE DEF x
    <2> QED  BY <1>1, <2>1, <2>2
<1>3. Idle \in [step : {"waiting", "skills", "access", "delegates"}, job : Nat]
    BY DEF Idle
<1> QED  BY <1>1, <1>2, <1>3

\* Every step keeps the state well typed.
LEMMA CollectorTypeStep == CollectorTypeOK /\ [Next]_collectorVars => CollectorTypeOK'
<1> SUFFICES ASSUME CollectorTypeOK, [Next]_collectorVars PROVE CollectorTypeOK'
    OBVIOUS
<1> USE DEF CollectorTypeOK
<1>s. there \in SUBSET Agents /\ IsFiniteSet(there) /\ there \in SUBSET Nat
    BY AgentsAssumption, FS_Subset
<1>1. CASE Begin
    <2>1. there \cup Range(order) \subseteq Agents \cup Threads
        BY RangeOfSeq
    <2>2. /\ <<>> \in Seq(Agents) /\ <<>> \in Seq(Threads)
          /\ [all |-> 0, gone |-> 0] \in [all : Nat, gone : Nat]
        OBVIOUS
    <2>3. /\ delegations' = {} /\ full' = {} /\ failed' = FALSE /\ outcome' = "none" /\ page' = 0
          /\ next' = 1 /\ agents' = <<>> /\ threads' = <<>> /\ pc' = "checking"
          /\ kept' = there \cup Range(order) /\ changes' = [all |-> 0, gone |-> 0]
          /\ UNCHANGED <<kind, there, order, document, worker>>
        BY <1>1 DEF Begin, runtime
    <2>4. agents' \in Seq(Agents) /\ threads' \in Seq(Threads) /\ kept' \subseteq Agents \cup Threads
        BY <2>1, <2>2, <2>3
    <2>5. full' \subseteq Nat /\ next' \in Nat \ {0} /\ page' \in Nat
        BY <2>3
    <2>8. pc' \in Steps /\ failed' \in BOOLEAN /\ outcome' \in {"none", "error", "snapshot"}
        BY <2>3 DEF Steps
    <2>6. \A d \in delegations' : d.orchestrator \in Agents /\ d.entry \in Entries
        BY <2>3
    <2>7. changes' \in [all : Nat, gone : Nat]
        BY <2>2, <2>3
    <2> QED  BY <2>3, <2>4, <2>5, <2>6, <2>7, <2>8
<1>2. CASE Check \/ CallFails \/ ListCatalogs \/ ListSubagentExecutions \/ ListRuns \/ Validate
           \/ PoolEnds
    BY <1>2 DEF Check, CallFails, ListCatalogs, ListSubagentExecutions, ListRuns, Validate,
                PoolEnds, Return, Steps, runtime, pool, history
<1>3. CASE ListAgents
    <2>1. SetToSeq(there) \in Seq(Agents)
        BY <1>s, SetToSeqList, SeqMonotonic
    <2> QED  BY <1>3, <2>1 DEF ListAgents, Steps, runtime, pool, history
<1>4. CASE ListAssistants
    <2>1. SetToSeq(AssistantPage(there)) \in Seq(Agents)
        <3>1. IsFiniteSet(AssistantPage(there)) /\ AssistantPage(there) \in SUBSET Agents
            BY <1>s, AssistantPageEnds
        <3> QED  BY <3>1, SetToSeqList, SeqMonotonic
    <2>2. agents \o SetToSeq(AssistantPage(there)) \in Seq(Agents)
        BY <2>1, ConcatProperties
    <2>3. page + 1 \in Nat /\ 0 \in Nat
        OBVIOUS
    <2> QED  BY <1>4, <2>2, <2>3 DEF ListAssistants, Return, Steps, runtime, pool, history
<1>5. CASE ListThreads
    <2>1. threads \o Page(order) \in Seq(Threads)
        BY ThreadPage, ConcatProperties
    <2>2. page + 1 \in Nat /\ 0 \in Nat
        OBVIOUS
    <2> QED  BY <1>5, <2>1, <2>2 DEF ListThreads, Steps, runtime, pool, history
<1>6. ASSUME NEW w \in Workers, HandOut(w) PROVE CollectorTypeOK'
    <2>1. [step |-> "skills", job |-> next] \in
              [step : {"waiting", "skills", "access", "delegates"}, job : Nat]
        OBVIOUS
    <2> QED  BY <1>6, <2>1 DEF HandOut, runtime, history
<1>7. ASSUME NEW w \in Workers, ListAgentSkills(w) \/ GetAgentAccess(w) PROVE CollectorTypeOK'
    BY <1>7, WorkerType DEF ListAgentSkills, GetAgentAccess, runtime, history
<1>8. ASSUME NEW w \in Workers, ListAgentDelegates(w) PROVE CollectorTypeOK'
    <2> DEFINE a == agents[worker[w].job]
    <2>1. /\ worker' = [worker EXCEPT ![w] = Idle] /\ full' = full \cup {worker[w].job}
          /\ delegations' = delegations \cup Resolved(a) \cup Unresolved(a) /\ a \in Agents
          /\ UNCHANGED <<runtime, pc, agents, threads, page, next, failed, outcome, history>>
        BY <1>8 DEF ListAgentDelegates, Answers
    <2> HIDE DEF a
    <2>2. \A d \in delegations' : d.orchestrator \in Agents /\ d.entry \in Entries
        BY <2>1, DelegationTypes
    <2>3. worker[w].job \in Nat
        OBVIOUS
    <2> QED  BY <2>1, <2>2, <2>3, WorkerType DEF runtime, history
<1>9. ASSUME NEW w \in Workers, FetchFails(w) PROVE CollectorTypeOK'
    BY <1>9, WorkerType DEF FetchFails, AfterFailure, Fatal, runtime, history
<1>10. ASSUME NEW gone \in {0, 1}, NEW what, Change(gone, what), there' \subseteq Agents,
              order' \in Seq(Threads)
       PROVE  CollectorTypeOK'
    <2>1. changes' \in [all : Nat, gone : Nat]
        BY <1>10 DEF Change
    <2> QED  BY <1>10, <2>1 DEF Change, pool
<1>11. CASE RuntimeChanges
    <2>1. CASE AgentDeleted \/ AgentCreated
        BY <1>10, <2>1 DEF AgentDeleted, AgentCreated
    <2>2. CASE ThreadCreated
        <3>1. PICK t \in Threads : order' = <<t>> \o order /\ Change(0, t) /\ there' = there
            BY <2>2 DEF ThreadCreated
        <3> QED  BY <1>10, <3>1
    <2>3. CASE ThreadUpdated \/ ThreadDeleted
        <3>1. PICK i \in DOMAIN order, gone \in {0, 1} :
                 /\ order' = <<order[i]>> \o RemoveAt(order, i) \/ order' = RemoveAt(order, i)
                 /\ Change(gone, order[i]) /\ there' = there
            BY <2>3 DEF ThreadUpdated, ThreadDeleted
        <3>2. order[i] \in Threads /\ RemoveAt(order, i) \in Seq(Threads)
            BY ListWithout
        <3> HIDE DEF CollectorTypeOK
        <3>3. <<order[i]>> \o RemoveAt(order, i) \in Seq(Threads)
            BY <3>2
        <3> QED  BY <1>10, <1>s, <3>1, <3>2, <3>3
    <2> QED  BY <1>11, <2>1, <2>2, <2>3 DEF RuntimeChanges
<1>12. CASE UNCHANGED collectorVars
    BY <1>12 DEF collectorVars, runtime, pool, history
<1> QED
    BY <1>1, <1>2, <1>3, <1>4, <1>5, <1>6, <1>7, <1>8, <1>9, <1>11, <1>12
    DEF Next, Collect, Fetch

\* Every reachable state is well typed: offsets stay numbers, lists stay lists of
\* ids, a goroutine is at one of the three calls (CollectSnapshot).
THEOREM CollectorTypeCorrect == Spec => []CollectorTypeOK
<1>1. Init => CollectorTypeOK
    <2> SUFFICES ASSUME Init PROVE CollectorTypeOK
        OBVIOUS
    <2>1. SetToSeq(Threads) \in Seq(Threads) /\ <<>> \in Seq(Threads) /\ <<>> \in Seq(Agents)
        BY ThreadsAssumption, SetToSeqList
    <2>2. document \in Documents \cup {NoDocument}
        BY DEF Init
    <2>3. [w \in Workers |-> Idle] \in
              [Workers -> [step : {"waiting", "skills", "access", "delegates"}, job : Nat]]
        BY DEF Idle
    <2>4. order \in Seq(Threads)
        BY <2>1 DEF Init
    <2>5. [all |-> 0, gone |-> 0] \in [all : Nat, gone : Nat]
        OBVIOUS
    <2>6. /\ kind \in {"gantry", "langgraph"} /\ there \subseteq Agents /\ pc = "idle"
          /\ agents = <<>> /\ threads = <<>> /\ page = 0 /\ next = 1 /\ full = {}
          /\ worker = [w \in Workers |-> Idle] /\ delegations = {} /\ failed = FALSE
          /\ outcome = "none" /\ kept = {} /\ changes = [all |-> 0, gone |-> 0]
        BY DEF Init
    <2>7. full \subseteq Nat /\ next \in Nat \ {0} /\ page \in Nat
        BY <2>6
    <2>s. pc \in Steps /\ failed \in BOOLEAN /\ outcome \in {"none", "error", "snapshot"}
        BY <2>6 DEF Steps
    <2>d. \A d \in delegations : d.orchestrator \in Agents /\ d.entry \in Entries
        BY <2>6
    <2>c. changes \in [all : Nat, gone : Nat]
        BY <2>5, <2>6
    <2>8. worker \in [Workers -> [step : {"waiting", "skills", "access", "delegates"}, job : Nat]]
        BY <2>3, <2>6
    <2>9. agents \in Seq(Agents) /\ threads \in Seq(Threads) /\ kept \subseteq Agents \cup Threads
        BY <2>1, <2>6
    <2> QED  BY <2>2, <2>4, <2>6, <2>7, <2>s, <2>d, <2>c, <2>8, <2>9 DEF CollectorTypeOK
<1> QED  BY <1>1, CollectorTypeStep, PTL DEF Spec

-----------------------------------------------------------------------------
(***************************************************************************)
(* What deletions may hide.                                                *)
(***************************************************************************)
HiddenAgents == (kept \cap Agents) \ Range(agents)

HiddenThreads == (kept \cap Threads) \ Range(threads)

\* Those among them that the pages read so far have passed over.
PassedAgents == {a \in HiddenAgents : Offset(a, there) < page * PageSize}

PassedThreads ==
    {t \in HiddenThreads : \E i \in DOMAIN order : i <= page * PageSize /\ order[i] = t}

\* What is kept is still there, and each runtime has steps of its own.
KeptInv ==
    /\ kept \cap Agents \subseteq there
    /\ kept \cap Threads \subseteq Range(order)
    /\ kind = "gantry" => order = <<>> /\ pc \notin {"threads", "runs"}
    /\ kind = "langgraph" => pc \notin {"catalogs", "pool", "executions"}
    /\ pc = "checking" => page = 0
    /\ pc \in {"checking", "agents"} => threads = <<>>

AgentsListed ==
    pc \in {"catalogs", "pool", "executions", "threads", "runs", "validating"} \/ outcome = "snapshot"

\* A deletion moves at most one kept agent over the boundary of the next page.
AgentsInv ==
    /\ pc = "agents" => Cardinality(PassedAgents) <= changes.gone
    /\ AgentsListed => IF kind = "gantry" THEN HiddenAgents = {}
                       ELSE Cardinality(HiddenAgents) <= changes.gone

ThreadsListed == pc \in {"runs", "validating"} \/ outcome = "snapshot"

\* The same of threads; each page read before was a full one.
ThreadsInv ==
    /\ pc = "threads" => /\ page < MaxThreadPages /\ Len(threads) = page * PageSize
                         /\ Cardinality(PassedThreads) <= changes.gone
    /\ ThreadsListed => \/ Len(threads) = MaxThreadPages * PageSize
                        \/ Cardinality(HiddenThreads) <= changes.gone

HiddenInv == KeptInv /\ AgentsInv /\ ThreadsInv

\* A part of a finite set has no more members.
LEMMA Fewer ==
    ASSUME NEW S, IsFiniteSet(S), NEW T \in SUBSET S
    PROVE  /\ IsFiniteSet(T) /\ Cardinality(T) \in Nat /\ Cardinality(S) \in Nat
           /\ Cardinality(T) <= Cardinality(S)
    BY FS_Subset, FS_CardinalityType

\* With one added it has at most one more.
LEMMA OneMore ==
    ASSUME NEW S, IsFiniteSet(S), NEW x, NEW T \in SUBSET (S \cup {x})
    PROVE  /\ Cardinality(T) \in Nat /\ Cardinality(S) \in Nat
           /\ Cardinality(T) <= Cardinality(S) + 1
<1>1. /\ IsFiniteSet(S \cup {x}) /\ Cardinality(S) \in Nat
      /\ Cardinality(S \cup {x}) <= Cardinality(S) + 1
    <2>1. Cardinality(S) \in Nat
        BY FS_CardinalityType
    <2>2. /\ IsFiniteSet(S \cup {x})
          /\ Cardinality(S \cup {x}) = IF x \in S THEN Cardinality(S) ELSE Cardinality(S) + 1
        BY FS_AddElement
    <2> QED  BY <2>1, <2>2
<1>2. /\ Cardinality(T) \in Nat /\ Cardinality(S \cup {x}) \in Nat
      /\ Cardinality(T) <= Cardinality(S \cup {x})
    BY <1>1, Fewer
<1> QED  BY <1>1, <1>2

\* What is hidden can be counted.
LEMMA HiddenFinite ==
    /\ IsFiniteSet(HiddenAgents) /\ IsFiniteSet(PassedAgents)
    /\ IsFiniteSet(HiddenThreads) /\ IsFiniteSet(PassedThreads)
<1>1. IsFiniteSet(Agents) /\ IsFiniteSet(Threads)
    BY AgentsAssumption, ThreadsAssumption
<1>2. /\ HiddenAgents \in SUBSET Agents /\ PassedAgents \in SUBSET Agents
      /\ HiddenThreads \in SUBSET Threads /\ PassedThreads \in SUBSET Threads
    BY DEF HiddenAgents, PassedAgents, HiddenThreads, PassedThreads
<1> QED  BY <1>1, <1>2, FS_Subset

\* What changes on the runtime is no longer kept; the others stay.
LEMMA KeptStep == CollectorTypeOK /\ AcceptedInv /\ KeptInv /\ [Next]_collectorVars => KeptInv'
<1> SUFFICES ASSUME CollectorTypeOK, AcceptedInv, KeptInv, [Next]_collectorVars PROVE KeptInv'
    OBVIOUS
<1>d. Threads \cap Agents = {} /\ there \subseteq Agents /\ Range(order) \subseteq Threads
    BY ThreadsAssumption, RangeOfSeq DEF CollectorTypeOK
<1>1. CASE Begin
    <2>1. /\ kept' = there \cup Range(order) /\ there' = there /\ order' = order /\ kind' = kind
          /\ pc' = "checking" /\ page' = 0 /\ threads' = <<>>
        BY <1>1 DEF Begin, runtime
    <2> QED  BY <1>d, <2>1 DEF KeptInv
<1>2. CASE Collect
    BY <1>2
    DEF Collect, Check, CallFails, ListAgents, ListCatalogs, PoolEnds, ListSubagentExecutions,
        ListAssistants, ListThreads, ListRuns, Validate, Return, KeptInv, CollectorTypeOK,
        runtime, pool, history
<1>3. CASE UNCHANGED <<kind, there, order, pc, page, threads, kept>>
    BY <1>3 DEF KeptInv
<1>4. ASSUME NEW w \in Workers, Fetch(w) PROVE KeptInv'
    BY <1>3, <1>4 DEF Fetch, HandOut, ListAgentSkills, GetAgentAccess, ListAgentDelegates, FetchFails,
                      runtime, history
<1>5. ASSUME NEW what, kept' = kept \ {what}, UNCHANGED <<kind, pc, page, threads>>,
             there \ {what} \subseteq there', what \in Agents => order' = order,
             Range(order) \ {what} \subseteq Range(order'), kind = "gantry" => order' = order
      PROVE  KeptInv'
    BY <1>5 DEF KeptInv
<1>6. CASE AgentDeleted \/ AgentCreated
    <2>1. PICK a \in Agents : /\ there' = there \ {a} \/ there' = there \cup {a}
                              /\ kept' = kept \ {a} /\ order' = order
                              /\ UNCHANGED <<kind, pc, page, threads>>
        BY <1>6, <1>d DEF AgentDeleted, AgentCreated, Change
    <2> QED  BY <1>5, <2>1
<1>7. CASE ThreadCreated
    <2>1. PICK t \in Threads : /\ order' = <<t>> \o order /\ kept' = kept \ {t} /\ there' = there
                               /\ kind = "langgraph" /\ UNCHANGED <<kind, pc, page, threads>>
        BY <1>7 DEF ThreadCreated, Change
    <2>2. Range(order') = Range(<<t>>) \cup Range(order)
        <3>1. <<t>> \in Seq(Threads) /\ order \in Seq(Threads)
            BY DEF CollectorTypeOK
        <3> QED  BY <2>1, <3>1, RangeConcatenation
    <2> QED  BY <1>5, <1>d, <2>1, <2>2
<1>8. CASE ThreadUpdated \/ ThreadDeleted
    <2>1. PICK i \in DOMAIN order :
             /\ order' = <<order[i]>> \o RemoveAt(order, i) \/ order' = RemoveAt(order, i)
             /\ kept' = kept \ {order[i]} /\ there' = there
             /\ kind = "langgraph" /\ UNCHANGED <<kind, pc, page, threads>>
        BY <1>8 DEF ThreadUpdated, ThreadDeleted, Change
    <2> DEFINE rest == RemoveAt(order, i)
    <2>2. /\ rest \in Seq(Threads) /\ Len(rest) = Len(order) - 1 /\ order[i] \in Threads
          /\ \A j \in 1..Len(order) - 1 : rest[j] = IF j < i THEN order[j] ELSE order[j + 1]
          /\ Len(order) \in Nat /\ DOMAIN order = 1..Len(order) /\ DOMAIN rest = 1..Len(rest)
        <3>1. order \in Seq(Threads)
            BY DEF CollectorTypeOK
        <3>2. /\ rest \in Seq(Threads) /\ Len(rest) = Len(order) - 1
              /\ \A j \in 1..Len(order) - 1 : rest[j] = IF j < i THEN order[j] ELSE order[j + 1]
            BY <3>1, ListWithout
        <3> HIDE DEF rest
        <3>3. Len(order) \in Nat /\ DOMAIN order = 1..Len(order) /\ DOMAIN rest = 1..Len(rest)
            BY <3>1, <3>2, LenProperties
        <3>4. order[i] \in Threads
            BY <3>1, <3>3, ElementOfSeq
        <3> QED  BY <3>2, <3>3, <3>4
    <2> HIDE DEF rest
    <2>3. Range(order) \ {order[i]} \subseteq Range(rest)
        <3>1. ASSUME NEW j \in 1..Len(order), j # i PROVE order[j] \in Range(rest)
            <4>1. CASE j < i
                <5>1. j \in 1..Len(rest) /\ rest[j] = order[j]
                    BY <2>2, <4>1
                <5> QED  BY <2>2, <5>1 DEF Range
            <4>2. CASE j > i
                <5>1. j - 1 \in 1..Len(rest) /\ rest[j - 1] = order[j]
                    BY <2>2, <4>2
                <5> QED  BY <2>2, <5>1 DEF Range
            <4> QED  BY <2>2, <3>1, <4>1, <4>2
        <3> QED  BY <2>2, <3>1 DEF Range
    <2>4. Range(rest) \subseteq Range(order')
        <3>1. Range(<<order[i]>> \o rest) = Range(<<order[i]>>) \cup Range(rest)
            <4>1. <<order[i]>> \in Seq(Threads)
                BY <2>2
            <4> QED  BY <2>2, <4>1, RangeConcatenation
        <3> QED  BY <2>1, <3>1 DEF rest
    <2> QED  BY <1>5, <1>d, <2>1, <2>2, <2>3, <2>4
<1> QED
    BY <1>1, <1>2, <1>3, <1>4, <1>6, <1>7, <1>8
    DEF Next, RuntimeChanges, collectorVars, runtime, history

\* Lists that only grow, and deletions that are only counted, hide no more.
LEMMA HiddenSame ==
    ASSUME CollectorTypeOK, UNCHANGED <<agents, threads>>, kept' \subseteq kept,
           changes'.gone >= changes.gone, changes'.gone \in Nat
    PROVE  /\ HiddenAgents' \subseteq HiddenAgents /\ HiddenThreads' \subseteq HiddenThreads
           /\ Cardinality(HiddenAgents) <= changes.gone => Cardinality(HiddenAgents)' <= changes'.gone
           /\ Cardinality(HiddenThreads) <= changes.gone => Cardinality(HiddenThreads)' <= changes'.gone
<1>1. HiddenAgents' \subseteq HiddenAgents /\ HiddenThreads' \subseteq HiddenThreads
    BY DEF HiddenAgents, HiddenThreads
<1>2. /\ Cardinality(HiddenAgents)' <= Cardinality(HiddenAgents)
      /\ Cardinality(HiddenThreads)' <= Cardinality(HiddenThreads)
      /\ Cardinality(HiddenAgents)' \in Nat /\ Cardinality(HiddenThreads)' \in Nat
      /\ Cardinality(HiddenAgents) \in Nat /\ Cardinality(HiddenThreads) \in Nat
    BY <1>1, HiddenFinite, Fewer
<1>3. changes.gone \in Nat
    BY DEF CollectorTypeOK
<1> QED  BY <1>1, <1>2, <1>3

\* A change of the runtime takes at most one from what is kept, and counts it.
LEMMA ChangesCounted ==
    ASSUME CollectorTypeOK, RuntimeChanges
    PROVE  /\ kept' \subseteq kept /\ changes'.gone \in Nat
           /\ changes'.gone >= changes.gone
           /\ AgentDeleted \/ ThreadDeleted => changes'.gone = changes.gone + 1
<1>1. PICK gone \in {0, 1}, what \in Agents \cup Threads : Change(gone, what)
    <2>1. there \subseteq Agents /\ \A i \in DOMAIN order : order[i] \in Threads
        BY DEF CollectorTypeOK
    <2> QED
        BY <2>1 DEF RuntimeChanges, AgentDeleted, AgentCreated, ThreadCreated, ThreadUpdated,
                    ThreadDeleted
<1>2. changes.gone \in Nat
    BY DEF CollectorTypeOK
<1>3. AgentDeleted \/ ThreadDeleted => changes'.gone = changes.gone + 1
    BY DEF AgentDeleted, ThreadDeleted, Change
<1> QED  BY <1>1, <1>2, <1>3 DEF Change

\* A page that was read passes over none of its agents.
LEMMA ReadAgents ==
    ASSUME CollectorTypeOK, KeptInv, ListAssistants
    PROVE  /\ page' = page + 1 => PassedAgents' \subseteq PassedAgents
           /\ pc' = "threads" => HiddenAgents' \subseteq PassedAgents
<1> DEFINE items == SetToSeq(AssistantPage(there))
<1>1. IsFiniteSet(there) /\ there \in SUBSET Nat /\ there \subseteq Agents /\ page \in Nat
    BY AgentsAssumption, FS_Subset DEF CollectorTypeOK
<1>2. IsFiniteSet(AssistantPage(there)) /\ AssistantPage(there) \subseteq Agents
    BY <1>1, AssistantPageEnds
<1>3. /\ items \in Seq(Agents) /\ Len(items) = Cardinality(AssistantPage(there))
      /\ Range(items) = AssistantPage(there)
    BY <1>2, SetToSeqList, SeqMonotonic
<1> HIDE DEF items
<1>4. /\ agents' = agents \o items /\ kept' = kept /\ there' = there
      /\ pc' = "threads" => LastPage(items)
    BY DEF ListAssistants, Return, runtime, history, items
<1>5. Range(agents') = Range(agents) \cup AssistantPage(there)
    BY <1>3, <1>4, RangeConcatenation DEF CollectorTypeOK
<1>6. HiddenAgents' = HiddenAgents \ AssistantPage(there) /\ HiddenAgents \subseteq there
    BY <1>4, <1>5 DEF HiddenAgents, KeptInv
<1>7. \A a \in there : Offset(a, there) \in Nat /\ page * PageSize \in Nat
    BY <1>1, OffsetOrder, PageBounds
<1>8. \A a \in HiddenAgents' : Offset(a, there) < (page + 1) * PageSize => a \in PassedAgents
    BY <1>6, <1>7 DEF PassedAgents, AssistantPage
<1>9. ASSUME page' = page + 1 PROVE PassedAgents' \subseteq PassedAgents
    <2>1. \A a \in PassedAgents' : a \in HiddenAgents' /\ Offset(a, there) < (page + 1) * PageSize
        BY <1>4, <1>9 DEF PassedAgents
    <2> QED  BY <1>8, <2>1
<1>10. ASSUME pc' = "threads" PROVE HiddenAgents' \subseteq PassedAgents
    <2>1. Cardinality(AssistantPage(there)) < PageSize
        BY <1>3, <1>4, <1>10 DEF LastPage
    <2>2. \A a \in there : Offset(a, there) < (page + 1) * PageSize
        BY <1>1, <2>1, AssistantPageEnds
    <2> QED  BY <1>6, <1>8, <2>2
<1> QED  BY <1>9, <1>10

\* An agent that goes away pulls at most one over the boundary, one that comes none.
LEMMA AgentsMove ==
    ASSUME CollectorTypeOK, KeptInv, AgentDeleted \/ AgentCreated
    PROVE  /\ AgentDeleted => \E x : PassedAgents' \subseteq PassedAgents \cup {x}
           /\ AgentCreated => PassedAgents' \subseteq PassedAgents
<1> DEFINE bound == page * PageSize
<1>1. IsFiniteSet(there) /\ there \in SUBSET Nat /\ Agents \subseteq Nat /\ bound \in Nat
    BY AgentsAssumption, FS_Subset, PageBounds DEF CollectorTypeOK
<1>2. /\ agents' = agents /\ page' = page /\ kept' \subseteq kept
    BY DEF AgentDeleted, AgentCreated, Change
<1>3. HiddenAgents' \subseteq HiddenAgents /\ HiddenAgents \subseteq there
    BY <1>2 DEF HiddenAgents, KeptInv
<1>4. /\ PassedAgents = {a \in HiddenAgents : Offset(a, there) < bound}
      /\ \A a \in PassedAgents' : a \in HiddenAgents' /\ Offset(a, there') < bound
    BY <1>2 DEF PassedAgents
<1> HIDE DEF bound
<1>5. \A a \in there : Offset(a, there) \in Nat
    BY <1>1, OffsetOrder
<1>6. ASSUME AgentDeleted PROVE \E x : PassedAgents' \subseteq PassedAgents \cup {x}
    <2>1. PICK d \in there : there' = there \ {d} /\ kept' = kept \ {d}
        BY <1>6 DEF AgentDeleted, Change
    <2>2. ASSUME NEW a \in PassedAgents' PROVE a \in there /\ Offset(a, there) <= bound
        <3>1. a \in there /\ a # d /\ Offset(a, there') < bound
            BY <1>3, <1>4, <2>1 DEF HiddenAgents
        <3>2. IsFiniteSet(there') /\ there' \in SUBSET Nat /\ a \in there'
            BY <1>1, <2>1, <3>1, FS_Subset
        <3>3. Offset(a, there') \in Nat
            BY <3>2, OffsetOrder
        <3>4. Offset(a, there) <= Offset(a, there') + 1
            BY <1>1, <2>1, <3>1, OffsetMoves
        <3> QED  BY <1>1, <1>5, <3>1, <3>3, <3>4
    <2>3. CASE PassedAgents' \subseteq PassedAgents
        BY <2>3
    <2>4. CASE ~(PassedAgents' \subseteq PassedAgents)
        <3>1. PICK x \in PassedAgents' : x \notin PassedAgents
            BY <2>4
        <3>2. \A a \in PassedAgents' : a \notin PassedAgents => Offset(a, there) = bound
            <4>1. ASSUME NEW a \in PassedAgents', a \notin PassedAgents
                  PROVE  Offset(a, there) = bound
                <5>1. a \in HiddenAgents /\ a \in there /\ Offset(a, there) <= bound
                    BY <1>3, <1>4, <2>2
                <5>2. ~(Offset(a, there) < bound)
                    BY <1>4, <4>1, <5>1
                <5> QED  BY <1>1, <1>5, <5>1, <5>2
            <4> QED  BY <4>1
        <3>3. \A a \in PassedAgents' : a \notin PassedAgents => a = x
            BY <1>1, <2>2, <3>1, <3>2, OffsetOrder
        <3>4. PassedAgents' \subseteq PassedAgents \cup {x}
            BY <3>3
        <3> QED  BY <3>4
    <2> QED  BY <2>3, <2>4
<1>7. ASSUME AgentCreated PROVE PassedAgents' \subseteq PassedAgents
    <2>1. PICK c \in Agents : there' = there \cup {c}
        BY <1>7 DEF AgentCreated
    <2>2. ASSUME NEW a \in PassedAgents' PROVE a \in PassedAgents
        <3>1. a \in HiddenAgents /\ a \in there /\ Offset(a, there') < bound
            BY <1>3, <1>4
        <3>2. Offset(a, there) <= Offset(a, there')
            BY <1>1, <2>1, <3>1, OffsetMoves
        <3>3. IsFiniteSet(there') /\ there' \in SUBSET Nat /\ a \in there' /\ c \in Nat
            BY <1>1, <2>1, <3>1, FS_AddElement
        <3>4. Offset(a, there') \in Nat
            BY <3>3, OffsetOrder
        <3> QED  BY <1>1, <1>4, <1>5, <3>1, <3>2, <3>4
    <2> QED  BY <2>2
<1> QED  BY <1>6, <1>7

\* Every step counts the agents that its boundary hides.
LEMMA AgentsStep ==
    CollectorTypeOK /\ AcceptedInv /\ KeptInv /\ AgentsInv /\ [Next]_collectorVars => AgentsInv'
<1> SUFFICES ASSUME CollectorTypeOK, AcceptedInv, KeptInv, AgentsInv, [Next]_collectorVars
             PROVE  AgentsInv'
    OBVIOUS
<1>g. changes.gone \in Nat /\ (outcome = "snapshot" => pc = "idle")
    BY DEF CollectorTypeOK, AcceptedInv
<1>1. CASE Begin
    BY <1>1 DEF Begin, AgentsInv, AgentsListed
<1>2. CASE Check
    <2>1. /\ pc = "checking" /\ pc' = "agents" /\ outcome' = outcome /\ page' = page
          /\ UNCHANGED <<there, agents, kept, changes>>
        BY <1>2 DEF Check, runtime, history
    <2>2. page = 0 /\ HiddenAgents \subseteq there
        BY <2>1 DEF KeptInv, HiddenAgents
    <2>3. \A a \in there : ~(Offset(a, there) < 0)
        <3>1. there \in SUBSET Nat /\ IsFiniteSet(there)
            BY AgentsAssumption, FS_Subset DEF CollectorTypeOK
        <3>2. \A a \in there : Offset(a, there) \in Nat
            BY <3>1, OffsetOrder
        <3> QED  BY <3>2
    <2>4. 0 * PageSize = 0
        BY PagesAssumption
    <2>5. \A a \in there : a \notin PassedAgents'
        BY <2>1, <2>2, <2>3, <2>4 DEF PassedAgents
    <2>6. PassedAgents' \subseteq there
        BY <2>1, <2>2 DEF PassedAgents, HiddenAgents
    <2>7. Cardinality(PassedAgents') = 0
        BY <2>5, <2>6, FS_EmptySet
    <2> QED  BY <1>g, <2>1, <2>7 DEF AgentsInv, AgentsListed
<1>3. CASE pc' = "idle" /\ outcome' = "error"
    BY <1>3 DEF AgentsInv, AgentsListed
<1>4. CASE ListAgents
    <2>1. /\ pc' = "catalogs" /\ kind = "gantry" /\ kind' = kind /\ kept' = kept
          /\ agents' = SetToSeq(there)
        BY <1>4 DEF ListAgents, runtime, history
    <2>2. IsFiniteSet(there)
        BY AgentsAssumption, FS_Subset DEF CollectorTypeOK
    <2>3. Range(agents') = there
        BY <2>1, <2>2, SetToSeqList
    <2>4. HiddenAgents' = {}
        BY <2>1, <2>3 DEF HiddenAgents, KeptInv
    <2> QED  BY <2>1, <2>4 DEF AgentsInv
<1>5. CASE ListAssistants
    <2>1. /\ pc = "agents" /\ kind = "langgraph" /\ kind' = kind /\ changes' = changes
          /\ \/ pc' = "threads" /\ outcome' = outcome
             \/ pc' = "agents" /\ outcome' = outcome /\ page' = page + 1
             \/ pc' = "idle" /\ outcome' = "error"
        BY <1>5 DEF ListAssistants, Return, runtime, history
    <2>2. Cardinality(PassedAgents) <= changes.gone
        BY <2>1 DEF AgentsInv
    <2>3. ASSUME NEW S \in SUBSET PassedAgents PROVE Cardinality(S) <= changes.gone
        <3>1. /\ Cardinality(S) <= Cardinality(PassedAgents) /\ Cardinality(S) \in Nat
              /\ Cardinality(PassedAgents) \in Nat
            BY HiddenFinite, Fewer
        <3> QED  BY <1>g, <2>2, <3>1
    <2>4. CASE pc' = "threads"
        <3>1. Cardinality(HiddenAgents') <= changes.gone
            BY <1>5, <2>3, <2>4, ReadAgents
        <3> QED  BY <2>1, <2>4, <3>1 DEF AgentsInv
    <2>5. CASE pc' = "agents"
        <3>1. Cardinality(PassedAgents') <= changes.gone
            BY <1>5, <2>1, <2>3, <2>5, ReadAgents
        <3> QED  BY <1>g, <2>1, <2>5, <3>1 DEF AgentsInv, AgentsListed
    <2> QED  BY <1>3, <2>1, <2>4, <2>5
<1>6. ASSUME UNCHANGED <<kind, agents, kept, changes>>, AgentsListed, pc' # "agents"
      PROVE  AgentsInv'
    BY <1>6 DEF AgentsInv, HiddenAgents
<1>7. CASE \/ ListCatalogs \/ ListSubagentExecutions \/ ListThreads
    BY <1>6, <1>7 DEF ListCatalogs, ListSubagentExecutions, ListThreads, AgentsListed, runtime, history
<1>8. CASE ListRuns \/ PoolEnds \/ Validate
    BY <1>3, <1>6, <1>8 DEF ListRuns, PoolEnds, Validate, AgentsListed, Return, runtime, history
<1>9. CASE CallFails
    BY <1>3, <1>9 DEF CallFails, Return
<1>10. ASSUME UNCHANGED <<kind, there, pc, agents, page, outcome, kept, changes>> PROVE AgentsInv'
    BY <1>10 DEF AgentsInv, AgentsListed, HiddenAgents, PassedAgents
<1>11. ASSUME NEW w \in Workers, Fetch(w) PROVE AgentsInv'
    BY <1>10, <1>11 DEF Fetch, HandOut, ListAgentSkills, GetAgentAccess, ListAgentDelegates, FetchFails,
                        runtime, history
<1>12. CASE RuntimeChanges
    <2>1. /\ UNCHANGED <<kind, pc, agents, threads, page, outcome>>
          /\ kept' \subseteq kept /\ changes'.gone \in Nat /\ changes'.gone >= changes.gone
          /\ AgentDeleted \/ ThreadDeleted => changes'.gone = changes.gone + 1
        BY <1>12, ChangesApart, ChangesCounted
    <2>2. /\ HiddenAgents' \subseteq HiddenAgents
          /\ Cardinality(HiddenAgents) <= changes.gone => Cardinality(HiddenAgents)' <= changes'.gone
        BY <2>1, HiddenSame
    <2>3. ASSUME AgentsListed'
          PROVE  IF kind' = "gantry" THEN HiddenAgents' = {}
                 ELSE Cardinality(HiddenAgents)' <= changes'.gone
        <3>1. AgentsListed
            BY <2>1, <2>3 DEF AgentsListed
        <3> QED  BY <2>1, <2>2, <3>1 DEF AgentsInv
    <2>4. ASSUME pc' = "agents" PROVE Cardinality(PassedAgents)' <= changes'.gone
        <3>1. Cardinality(PassedAgents) <= changes.gone /\ Cardinality(PassedAgents) \in Nat
            BY <2>1, <2>4, HiddenFinite, FS_CardinalityType DEF AgentsInv
        <3>2. CASE AgentDeleted
            <4>1. PICK x : PassedAgents' \subseteq PassedAgents \cup {x}
                BY <3>2, AgentsMove
            <4>2. /\ Cardinality(PassedAgents') <= Cardinality(PassedAgents) + 1
                  /\ Cardinality(PassedAgents') \in Nat
                BY <4>1, HiddenFinite, OneMore
            <4> QED  BY <1>g, <2>1, <3>1, <3>2, <4>2
        <3>3. CASE ~AgentDeleted
            <4>1. PassedAgents' \subseteq PassedAgents
                <5>1. CASE AgentCreated
                    BY <5>1, AgentsMove
                <5>2. CASE ~AgentCreated
                    <6>1. there' = there
                        BY <1>12, <3>3, <5>2 DEF RuntimeChanges, ThreadCreated, ThreadUpdated,
                                                 ThreadDeleted
                    <6> QED  BY <2>1, <2>2, <6>1 DEF PassedAgents
                <5> QED  BY <5>1, <5>2
            <4>2. /\ Cardinality(PassedAgents') <= Cardinality(PassedAgents)
                  /\ Cardinality(PassedAgents') \in Nat
                BY <4>1, HiddenFinite, Fewer
            <4> QED  BY <1>g, <2>1, <3>1, <4>2
        <3> QED  BY <3>2, <3>3
    <2> QED  BY <2>3, <2>4 DEF AgentsInv
<1> QED
    BY <1>1, <1>2, <1>4, <1>5, <1>7, <1>8, <1>9, <1>10, <1>11, <1>12
    DEF Next, Collect, collectorVars, runtime, history

\* A page that was read passes over none of its threads.
LEMMA ReadThreads ==
    ASSUME CollectorTypeOK, KeptInv, ListThreads
    PROVE  /\ page' = page + 1 => PassedThreads' \subseteq PassedThreads
           /\ LastPage(Page(order)) => HiddenThreads' \subseteq PassedThreads
           /\ Len(threads') = Len(threads) + Len(Page(order))
<1> DEFINE items == Page(order)
<1> DEFINE lo == page * PageSize
<1> DEFINE hi == (page + 1) * PageSize
<1>1. /\ items \in Seq(Threads) /\ threads \in Seq(Threads)
      /\ Len(items) < PageSize => Len(order) < hi
      /\ \A j \in DOMAIN order : lo < j /\ j <= hi => order[j] \in Range(items)
    BY ThreadPage DEF CollectorTypeOK
<1>2. /\ lo \in Nat /\ hi = lo + PageSize /\ PageSize \in Nat
      /\ Len(order) \in Nat /\ DOMAIN order = 1..Len(order)
    BY PageBounds, PagesAssumption, LenProperties DEF CollectorTypeOK
<1>3. threads' = threads \o items /\ kept' = kept /\ order' = order
    BY DEF ListThreads, runtime, history
<1>4. PassedThreads = {t \in HiddenThreads : \E i \in DOMAIN order : i <= lo /\ order[i] = t}
    BY DEF PassedThreads
<1>5. LastPage(items) => Len(items) < PageSize
    BY DEF LastPage
<1>6. page' = page + 1 => page' * PageSize = hi
    OBVIOUS
<1> HIDE DEF items, lo, hi
<1>7. /\ Range(threads') = Range(threads) \cup Range(items)
      /\ Len(threads') = Len(threads) + Len(items)
    <2>1. Range(threads \o items) = Range(threads) \cup Range(items)
        BY <1>1, RangeConcatenation
    <2>2. Len(threads \o items) = Len(threads) + Len(items)
        BY <1>1, ConcatProperties
    <2> QED  BY <1>3, <2>1, <2>2
<1>8. HiddenThreads' = HiddenThreads \ Range(items) /\ HiddenThreads \subseteq Range(order)
    BY <1>3, <1>7 DEF HiddenThreads, KeptInv
<1>9. ASSUME NEW t \in HiddenThreads', NEW i \in DOMAIN order, i <= hi, order[i] = t
      PROVE  t \in PassedThreads
    <2>1. ~(lo < i)
        BY <1>1, <1>8, <1>9
    <2>2. i <= lo
        BY <1>2, <2>1
    <2> QED  BY <1>4, <1>8, <1>9, <2>2
<1>10. ASSUME page' = page + 1 PROVE PassedThreads' \subseteq PassedThreads
    <2>1. \A t \in PassedThreads' :
              t \in HiddenThreads' /\ \E i \in DOMAIN order : i <= hi /\ order[i] = t
        BY <1>3, <1>6, <1>10 DEF PassedThreads
    <2> QED  BY <1>9, <2>1
<1>11. ASSUME LastPage(items) PROVE HiddenThreads' \subseteq PassedThreads
    <2>1. ASSUME NEW t \in HiddenThreads' PROVE t \in PassedThreads
        <3>1. PICK i \in DOMAIN order : order[i] = t
            BY <1>8 DEF Range
        <3>2. Len(order) < hi /\ i \in 1..Len(order) /\ hi \in Nat
            BY <1>1, <1>2, <1>5, <1>11
        <3>3. i <= hi
            BY <1>2, <3>2
        <3> QED  BY <1>9, <3>1, <3>3
    <2> QED  BY <2>1
<1> QED  BY <1>7, <1>10, <1>11 DEF items

\* A thread that is deleted pulls at most one over the boundary; one that is
\* created or moved to the front none.
LEMMA ThreadsMove ==
    ASSUME CollectorTypeOK, KeptInv, RuntimeChanges
    PROVE  /\ ThreadDeleted => \E x : PassedThreads' \subseteq PassedThreads \cup {x}
           /\ ~ThreadDeleted => PassedThreads' \subseteq PassedThreads
<1> DEFINE bound == page * PageSize
<1>1. /\ bound \in Nat /\ order \in Seq(Threads)
      /\ Len(order) \in Nat /\ DOMAIN order = 1..Len(order)
    BY PageBounds, LenProperties DEF CollectorTypeOK
<1>2. threads' = threads /\ page' = page /\ kept' \subseteq kept
    BY ChangesApart, ChangesCounted
<1>3. HiddenThreads' \subseteq HiddenThreads
    BY <1>2 DEF HiddenThreads
<1>4. /\ \A t \in HiddenThreads : \A i \in DOMAIN order :
             i <= bound /\ order[i] = t => t \in PassedThreads
      /\ \A t \in PassedThreads' :
             t \in HiddenThreads' /\ \E i \in DOMAIN order' : i <= bound /\ order'[i] = t
    BY <1>2 DEF PassedThreads
<1> HIDE DEF bound
<1>r. ASSUME NEW i \in DOMAIN order
      PROVE  /\ RemoveAt(order, i) \in Seq(Threads) /\ Len(RemoveAt(order, i)) = Len(order) - 1
             /\ DOMAIN RemoveAt(order, i) = 1..Len(order) - 1
             /\ \A j \in 1..Len(order) - 1 :
                   RemoveAt(order, i)[j] = IF j < i THEN order[j] ELSE order[j + 1]
    BY <1>1, ListWithout, LenProperties
<1>f. ASSUME NEW t \in Threads, NEW list \in Seq(Threads)
      PROVE  /\ DOMAIN (<<t>> \o list) = 1..Len(list) + 1 /\ Len(list) \in Nat
             /\ \A j \in 1..Len(list) + 1 :
                   (<<t>> \o list)[j] = IF j = 1 THEN t ELSE list[j - 1]
    <2>1. <<t>> \in Seq(Threads) /\ Len(<<t>>) = 1 /\ <<t>>[1] = t
        OBVIOUS
    <2>2. /\ <<t>> \o list \in Seq(Threads) /\ Len(<<t>> \o list) = 1 + Len(list)
          /\ \A j \in 1..1 + Len(list) :
                (<<t>> \o list)[j] = IF j <= 1 THEN <<t>>[j] ELSE list[j - 1]
        BY <2>1, ConcatProperties
    <2>3. Len(list) \in Nat /\ DOMAIN (<<t>> \o list) = 1..1 + Len(list)
        BY <2>2, LenProperties
    <2> QED  BY <2>1, <2>2, <2>3
<1>5. CASE AgentDeleted \/ AgentCreated
    <2>1. order' = order
        BY <1>5 DEF AgentDeleted, AgentCreated
    <2>2. PassedThreads' \subseteq PassedThreads
        BY <1>3, <1>4, <2>1
    <2> QED  BY <2>2
<1>6. CASE ThreadCreated
    <2>1. PICK t \in Threads : order' = <<t>> \o order /\ kept' = kept \ {t}
        BY <1>6 DEF ThreadCreated, Change
    <2>2. ASSUME NEW u \in PassedThreads' PROVE u \in PassedThreads
        <3>1. PICK j \in DOMAIN order' : j <= bound /\ order'[j] = u
            BY <1>4
        <3>2. u \in HiddenThreads /\ u # t
            BY <1>3, <1>4, <2>1 DEF HiddenThreads
        <3>3. j \in 1..Len(order) + 1 /\ j # 1 /\ order[j - 1] = u
            BY <1>1, <1>f, <2>1, <3>1, <3>2
        <3>4. j - 1 \in DOMAIN order /\ j - 1 <= bound
            BY <1>1, <3>1, <3>3
        <3> QED  BY <1>4, <3>2, <3>3, <3>4
    <2> QED  BY <2>2
<1>7. CASE ThreadUpdated
    <2>1. PICK i \in DOMAIN order : /\ order' = <<order[i]>> \o RemoveAt(order, i)
                                    /\ kept' = kept \ {order[i]}
        BY <1>7 DEF ThreadUpdated, Change
    <2> DEFINE first == order[i]
    <2> DEFINE rest == RemoveAt(order, i)
    <2>2. first \in Threads
        BY <1>1, ElementOfSeq
    <2>3. /\ rest \in Seq(Threads) /\ Len(rest) = Len(order) - 1
          /\ \A j \in 1..Len(order) - 1 : rest[j] = IF j < i THEN order[j] ELSE order[j + 1]
        BY <1>r
    <2>4. /\ order' = <<first>> \o rest /\ kept' = kept \ {first}
          /\ i \in 1..Len(order)
        BY <1>1, <2>1
    <2> HIDE DEF first, rest
    <2>5. /\ DOMAIN order' = 1..Len(rest) + 1
          /\ \A j \in 1..Len(rest) + 1 : order'[j] = IF j = 1 THEN first ELSE rest[j - 1]
        BY <1>f, <2>2, <2>3, <2>4
    <2>6. ASSUME NEW u \in PassedThreads' PROVE u \in PassedThreads
        <3>1. PICK j \in DOMAIN order' : j <= bound /\ order'[j] = u
            BY <1>4
        <3>2. u \in HiddenThreads /\ u # first
            BY <1>3, <1>4, <2>4 DEF HiddenThreads
        <3>3. j \in 1..Len(rest) + 1 /\ j # 1 /\ rest[j - 1] = u
            BY <2>5, <3>1, <3>2
        <3>4. j \in 1..Len(order) /\ j - 1 \in 1..Len(order) - 1
            BY <1>1, <2>3, <3>3
        <3>5. CASE j - 1 < i
            <4>1. order[j - 1] = u
                BY <2>3, <3>3, <3>4, <3>5
            <4>2. j - 1 \in DOMAIN order /\ j - 1 <= bound
                BY <1>1, <3>1, <3>4
            <4> QED  BY <1>4, <3>2, <4>1, <4>2
        <3>6. CASE ~(j - 1 < i)
            <4>1. order[j - 1 + 1] = u /\ j - 1 + 1 = j
                BY <2>3, <3>3, <3>4, <3>6
            <4>2. j \in DOMAIN order
                BY <1>1, <3>4
            <4> QED  BY <1>4, <3>1, <3>2, <4>1, <4>2
        <3> QED  BY <3>5, <3>6
    <2> QED  BY <2>6
<1>8. CASE ThreadDeleted
    <2>1. PICK i \in DOMAIN order : /\ order' = RemoveAt(order, i)
                                    /\ kept' = kept \ {order[i]}
        BY <1>8 DEF ThreadDeleted, Change
    <2>2. ASSUME NEW u \in PassedThreads' PROVE u \in PassedThreads \/ u = order[bound + 1]
        <3>1. PICK j \in DOMAIN order' : j <= bound /\ order'[j] = u
            BY <1>4
        <3>2. u \in HiddenThreads
            BY <1>3, <1>4
        <3>3. j \in 1..Len(order) - 1 /\ u = IF j < i THEN order[j] ELSE order[j + 1]
            BY <1>r, <2>1, <3>1
        <3>4. j \in DOMAIN order /\ j + 1 \in DOMAIN order /\ (j = bound \/ j + 1 <= bound)
            BY <1>1, <3>1, <3>3
        <3> QED  BY <1>4, <3>1, <3>2, <3>3, <3>4
    <2>3. PassedThreads' \subseteq PassedThreads \cup {order[bound + 1]}
        BY <2>2
    <2> QED  BY <1>8, <2>3
<1> QED  BY <1>5, <1>6, <1>7, <1>8 DEF RuntimeChanges

\* Every step counts the threads that its boundary hides.
LEMMA ThreadsStep ==
    CollectorTypeOK /\ AcceptedInv /\ KeptInv /\ ThreadsInv /\ [Next]_collectorVars => ThreadsInv'
<1> SUFFICES ASSUME CollectorTypeOK, AcceptedInv, KeptInv, ThreadsInv, [Next]_collectorVars
             PROVE  ThreadsInv'
    OBVIOUS
<1>g. changes.gone \in Nat /\ (outcome = "snapshot" => pc = "idle")
    BY DEF CollectorTypeOK, AcceptedInv
<1>1. CASE pc' \notin {"threads", "runs", "validating"} /\ outcome' # "snapshot"
    BY <1>1 DEF ThreadsInv, ThreadsListed
<1>2. CASE ListAssistants
    <2>1. CASE pc' # "threads"
        BY <1>1, <1>2, <1>g, <2>1 DEF ListAssistants, Return
    <2>2. CASE pc' = "threads"
        <3>1. /\ pc = "agents" /\ page' = 0 /\ outcome' = outcome
              /\ UNCHANGED <<order, threads, kept, changes>>
            BY <1>2, <2>2 DEF ListAssistants, Return, runtime, history
        <3>2. threads = <<>> /\ DOMAIN order \subseteq Nat \ {0}
            BY <3>1, LenProperties DEF KeptInv, CollectorTypeOK
        <3>3. 0 * PageSize = 0 /\ 0 < MaxThreadPages
            BY PagesAssumption
        <3>4. PassedThreads' = {}
            BY <3>1, <3>2, <3>3 DEF PassedThreads
        <3> QED  BY <1>g, <2>2, <3>1, <3>2, <3>3, <3>4, FS_EmptySet DEF ThreadsInv, ThreadsListed
    <2> QED  BY <2>1, <2>2
<1>3. CASE ListThreads
    <2>1. /\ pc = "threads" /\ outcome' = outcome /\ changes' = changes
          /\ \/ /\ pc' = "runs"
                /\ LastPage(Page(order)) \/ ~MorePages(MaxThreadPages)
             \/ /\ pc' = "threads" /\ page' = page + 1
                /\ ~LastPage(Page(order)) /\ MorePages(MaxThreadPages)
        BY <1>3 DEF ListThreads, history
    <2>2. /\ page < MaxThreadPages /\ Len(threads) = page * PageSize
          /\ Cardinality(PassedThreads) <= changes.gone
        BY <2>1 DEF ThreadsInv
    <2>3. /\ Len(Page(order)) <= PageSize /\ Len(Page(order)) \in Nat
          /\ Len(threads') = Len(threads) + Len(Page(order))
          /\ page \in Nat /\ MaxThreadPages \in Nat /\ PageSize \in Nat
          /\ page * PageSize \in Nat /\ (page + 1) * PageSize = page * PageSize + PageSize
        <3>1. page \in Nat /\ Page(order) \in Seq(Threads) /\ Len(Page(order)) <= PageSize
            BY ThreadPage DEF CollectorTypeOK
        <3> QED  BY <1>3, <3>1, ReadThreads, PageBounds, PagesAssumption, LenProperties
    <2>4. ASSUME ~LastPage(Page(order)) PROVE Len(threads') = (page + 1) * PageSize
        BY <2>2, <2>3, <2>4 DEF LastPage
    <2>5. ASSUME NEW S \in SUBSET PassedThreads PROVE Cardinality(S) <= changes.gone
        <3>1. /\ Cardinality(S) <= Cardinality(PassedThreads) /\ Cardinality(S) \in Nat
              /\ Cardinality(PassedThreads) \in Nat
            BY HiddenFinite, Fewer
        <3> QED  BY <1>g, <2>2, <3>1
    <2>6. CASE pc' = "runs"
        <3>1. CASE LastPage(Page(order))
            <4>1. Cardinality(HiddenThreads') <= changes.gone
                BY <1>3, <2>5, <3>1, ReadThreads
            <4> QED  BY <2>1, <2>6, <4>1 DEF ThreadsInv
        <3>2. CASE ~LastPage(Page(order))
            <4>1. page + 1 = MaxThreadPages
                BY <2>1, <2>2, <2>3, <2>6, <3>2 DEF MorePages
            <4>2. Len(threads') = MaxThreadPages * PageSize
                BY <2>4, <3>2, <4>1
            <4> QED  BY <2>6, <4>2 DEF ThreadsInv
        <3> QED  BY <3>1, <3>2
    <2>7. CASE pc' = "threads"
        <3>1. /\ page' = page + 1 /\ ~LastPage(Page(order)) /\ page + 1 < MaxThreadPages
            BY <2>1, <2>7 DEF MorePages
        <3>2. Cardinality(PassedThreads') <= changes.gone
            BY <1>3, <2>5, <3>1, ReadThreads
        <3> QED  BY <1>g, <2>1, <2>4, <2>7, <3>1, <3>2 DEF ThreadsInv, ThreadsListed
    <2> QED  BY <2>1, <2>6, <2>7
<1>4. CASE ListSubagentExecutions
    <2>1. /\ pc = "executions" /\ pc' = "validating" /\ outcome' = outcome
          /\ UNCHANGED <<kind, order, threads, kept, changes>>
        BY <1>4 DEF ListSubagentExecutions, runtime, history
    <2>2. order = <<>>
        BY <2>1 DEF KeptInv, CollectorTypeOK
    <2>3. HiddenThreads' = {}
        BY <2>1, <2>2 DEF KeptInv, HiddenThreads, Range
    <2> QED  BY <1>g, <2>1, <2>3, FS_EmptySet DEF ThreadsInv
<1>5. ASSUME UNCHANGED <<threads, kept, changes>>, ThreadsListed, pc' # "threads"
      PROVE  ThreadsInv'
    BY <1>5 DEF ThreadsInv, HiddenThreads
<1>6. CASE ListRuns \/ Validate
    BY <1>5, <1>6, <1>1 DEF ListRuns, Validate, ThreadsListed, Return, history
<1>7. CASE CallFails \/ Check \/ ListAgents \/ ListCatalogs \/ PoolEnds \/ Begin
    BY <1>1, <1>7, <1>g DEF CallFails, Check, ListAgents, ListCatalogs, PoolEnds, Begin, Return
<1>8. ASSUME UNCHANGED <<order, pc, threads, page, outcome, kept, changes>> PROVE ThreadsInv'
    BY <1>8 DEF ThreadsInv, ThreadsListed, HiddenThreads, PassedThreads
<1>9. ASSUME NEW w \in Workers, Fetch(w) PROVE ThreadsInv'
    BY <1>8, <1>9 DEF Fetch, HandOut, ListAgentSkills, GetAgentAccess, ListAgentDelegates, FetchFails,
                      runtime, history
<1>10. CASE RuntimeChanges
    <2>1. /\ UNCHANGED <<pc, agents, threads, page, outcome>>
          /\ kept' \subseteq kept /\ changes'.gone \in Nat /\ changes'.gone >= changes.gone
          /\ AgentDeleted \/ ThreadDeleted => changes'.gone = changes.gone + 1
        BY <1>10, ChangesApart, ChangesCounted
    <2>2. Cardinality(HiddenThreads) <= changes.gone => Cardinality(HiddenThreads)' <= changes'.gone
        BY <2>1, HiddenSame
    <2>3. ASSUME ThreadsListed'
          PROVE  \/ Len(threads') = MaxThreadPages * PageSize
                 \/ Cardinality(HiddenThreads)' <= changes'.gone
        <3>1. ThreadsListed
            BY <2>1, <2>3 DEF ThreadsListed
        <3> QED  BY <2>1, <2>2, <3>1 DEF ThreadsInv
    <2>4. ASSUME pc' = "threads" PROVE Cardinality(PassedThreads)' <= changes'.gone
        <3>1. Cardinality(PassedThreads) <= changes.gone /\ Cardinality(PassedThreads) \in Nat
            BY <2>1, <2>4, HiddenFinite, FS_CardinalityType DEF ThreadsInv
        <3>2. CASE ThreadDeleted
            <4>1. PICK x : PassedThreads' \subseteq PassedThreads \cup {x}
                BY <1>10, <3>2, ThreadsMove
            <4>2. /\ Cardinality(PassedThreads') <= Cardinality(PassedThreads) + 1
                  /\ Cardinality(PassedThreads') \in Nat
                BY <4>1, HiddenFinite, OneMore
            <4> QED  BY <1>g, <2>1, <3>1, <3>2, <4>2
        <3>3. CASE ~ThreadDeleted
            <4>1. /\ Cardinality(PassedThreads') <= Cardinality(PassedThreads)
                  /\ Cardinality(PassedThreads') \in Nat
                BY <1>10, <3>3, ThreadsMove, HiddenFinite, Fewer
            <4> QED  BY <1>g, <2>1, <3>1, <4>1
        <3> QED  BY <3>2, <3>3
    <2> QED  BY <2>1, <2>3, <2>4 DEF ThreadsInv
<1> QED
    BY <1>2, <1>3, <1>4, <1>6, <1>7, <1>8, <1>9, <1>10
    DEF Next, Collect, collectorVars, runtime, history


\* At first nothing is kept, read or accepted.
LEMMA HiddenInit == Init => HiddenInv
<1> SUFFICES ASSUME Init PROVE HiddenInv
    OBVIOUS
<1>1. /\ kind \in {"gantry", "langgraph"} /\ pc = "idle" /\ outcome = "none"
      /\ kept = {} /\ threads = <<>> /\ kind = "gantry" => order = <<>>
    BY DEF Init
<1>2. KeptInv
    BY <1>1 DEF KeptInv, Init
<1>3. AgentsInv
    BY <1>1 DEF AgentsInv, AgentsListed
<1>4. ThreadsInv
    BY <1>1 DEF ThreadsInv, ThreadsListed
<1> QED  BY <1>2, <1>3, <1>4 DEF HiddenInv

\* However the runtime moves while it is read page by page, an accepted snapshot
\* lacks no more agents than were deleted meanwhile, and no more threads unless it
\* was cut at the last page; a Gantry snapshot lacks none (listAssistants,
\* listThreads, whose offsets skip what a deletion moves).
THEOREM HiddenByDeletionsCorrect == Spec => []HiddenByDeletions
<1>1. CollectorInv /\ [Next]_collectorVars => CollectorInv'
    BY PoolStep, RefsStep, AcceptedStep DEF CollectorInv
<1>2. CollectorInv => AcceptedInv
    BY DEF CollectorInv
<1>3. CollectorTypeOK /\ AcceptedInv /\ HiddenInv /\ [Next]_collectorVars => HiddenInv'
    BY KeptStep, AgentsStep, ThreadsStep DEF HiddenInv
<1>4. HiddenInv => HiddenByDeletions
    <2> SUFFICES ASSUME HiddenInv, outcome = "snapshot"
                 PROVE  /\ Cardinality(HiddenAgents) <= IF kind = "gantry" THEN 0 ELSE changes.gone
                        /\ \/ Len(threads) = MaxThreadPages * PageSize
                           \/ Cardinality(HiddenThreads) <= changes.gone
        BY DEF HiddenByDeletions, HiddenAgents, HiddenThreads
    <2>1. AgentsListed /\ ThreadsListed
        BY DEF AgentsListed, ThreadsListed
    <2>2. kind = "gantry" => Cardinality(HiddenAgents) = 0
        BY <2>1, FS_EmptySet DEF HiddenInv, AgentsInv
    <2> QED  BY <2>1, <2>2 DEF HiddenInv, AgentsInv, ThreadsInv
<1> QED  BY CollectorInit, CollectorTypeCorrect, HiddenInit, <1>1, <1>2, <1>3, <1>4, PTL DEF Spec

=============================================================================
