SPECIFICATION FairSpec
CONSTANTS
    Syncers = {s1, s2}
    NoSyncer = NoSyncer
    Pooled = Pooled
    Agents = {}
    Skills = {}
    RuntimeStatuses = {"enabled"}
    MissingThreshold = 1
    MaxRuns = 2
    Runs <- MCRuns
    Faults = {"cancel", "crash", "dbError", "ackLost", "sessionLost", "unlockFails"}
CHECK_DEADLOCK FALSE
PROPERTY LockReleased
