SPECIFICATION MetricsSpec
CONSTANTS
    Thread = {t1, t2}
    MaxRecent = 1
    HistoryLimit = 2
    MaxRuns = 4
    Fault = {"io", "crash"}
SYMMETRY Symmetry
INVARIANTS
    MetricsTypeOK
    RestartIsInvisible
    RecentIsBounded
    
