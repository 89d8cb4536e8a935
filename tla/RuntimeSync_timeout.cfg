SPECIFICATION FairSpec
CONSTANTS
    Syncers = {s1}
    NoSyncer = NoSyncer
    Pooled = Pooled
    Agents = {a1}
    Skills = {}
    RuntimeStatuses = {"enabled"}
    MissingThreshold = 1
    MaxRuns = 1
    Runs <- MCRuns
    Faults = {"cancel"}
PROPERTY RunsFinish
