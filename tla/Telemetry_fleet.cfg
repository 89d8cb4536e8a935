SPECIFICATION Spec
CONSTANTS
    Gantry = {g1}
    LangGraph = {l1}
    Unknown = unknown
    None = none
    Pushes = {p1}
    Window = 2
    Overlap = 1
    Lateness = 1
    Froms = {0}
    Tos = {5}
    MaxTime = 4
    MaxRecords = 2
    MaxSpans = 1
    Faults = {"query", "statement", "crash"}
INVARIANT OneSourcePerSummary
