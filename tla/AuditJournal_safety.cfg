SPECIFICATION IntactSpec
CONSTANTS
    NoWriter = NoWriter
    Writer = {w1, w2, w3}
    MaxRecords = 2
    MaxAppends = 5
    Fault = {"io", "crash", "operator"}
SYMMETRY Symmetry
INVARIANTS
    MutualExclusion
    ReplaceIsCurrent
    AppendRestoresRetention
    ReadersSeeNewest
    AckedIsReadable
PROPERTIES
    ImplementsBoundedLog
CHECK_DEADLOCK FALSE
