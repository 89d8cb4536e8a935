SPECIFICATION Spec
CONSTANTS
    Syncers = {s1, s2}
    NoSyncer = NoSyncer
    Pooled = Pooled
    Agents = {a1}
    Skills = {k1}
    RuntimeStatuses = {"enabled"}
    MissingThreshold = 2
    MaxRuns = 3
    Runs <- MCRuns
    Faults = {"cancel", "crash", "dbError", "unlockFails"}
SYMMETRY Symmetry
INVARIANT SyncExclusive
INVARIANT FailedRunsLeaveNoTrace
INVARIANT ConnectionShowsLatestRun
INVARIANT AuditAgrees
INVARIANT MissingCountsSuccesses
INVARIANT StaleIffMissed
INVARIANT StaleCoherent
PROPERTY RunsFinishOnce
PROPERTY CatalogMovesForward
PROPERTY KnownForever
PROPERTY TombstoneYields
PROPERTY CatalogSpec
