SPECIFICATION Spec
CONSTANTS
    NoFile = NoFile
    Thread = {t1, t2}
    CooldownRuns = 2
    MinRuns = 1
    ValidPct = 95
    HistoryLimit = 2
    MaxRuns = 1
    Inode = {i1, i2, i3}
    Fault = {}
INVARIANTS
    AnsweredIsSaved
CHECK_DEADLOCK FALSE
