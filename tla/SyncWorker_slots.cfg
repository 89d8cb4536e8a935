SPECIFICATION FairSpec
CONSTANTS
    Runtimes = {1, 2, 3}
    MaxConcurrency = 2
    MaxGoroutines = 3
CHECK_DEADLOCK FALSE
INVARIANT SlotsAccounted
INVARIANT StoppedIsDrained
PROPERTY WorkerStops
PROPERTY FirstIsServed
