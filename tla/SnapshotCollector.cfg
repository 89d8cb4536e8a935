SPECIFICATION Spec
CONSTANTS
    Agents = {1, 2, 3}
    Threads = {t1, t2, t3}
    n1 = n1
    n2 = n2
    Names = {n1, n2}
    AgentIds = {n2}
    None = none
    Documents <- MCDocuments
    PoolSize = 2
    PageSize = 1
    MaxAssistantPages = 3
    MaxThreadPages = 2
    MaxChanges = 3
    Faults = {"call"}
INVARIANT SnapshotWhole
INVARIANT HiddenByDeletions
INVARIANT RowsDistinct
PROPERTY CollectionReturns
