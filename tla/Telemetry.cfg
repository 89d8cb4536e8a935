SPECIFICATION Spec
CONSTANTS
    Gantry = {g1}
    LangGraph = {l1}
    Unknown = unknown
    None = none
    Pushes = {}
    Window = 2
    Overlap = 1
    Lateness = 1
    Froms = {}
    Tos = {}
    MaxTime = 4
    MaxRecords = 1
    MaxSpans = 1
    Faults = {"query", "statement", "crash"}
INVARIANT NothingSlipsThrough
PROPERTY CollectionEnds
