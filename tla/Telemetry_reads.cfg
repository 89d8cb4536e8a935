SPECIFICATION Spec
CONSTANTS
    Gantry = {}
    LangGraph = {l1}
    Unknown = unknown
    None = none
    Pushes = {p1}
    Window = 2
    Overlap = 1
    Lateness = 1
    Froms = {1}
    Tos = {2}
    MaxTime = 2
    MaxRecords = 1
    MaxSpans = 2
    Faults = {"statement", "crash"}
INVARIANT CountedOnce
PROPERTY AnsweredMeansStored
 
