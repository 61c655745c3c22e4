SPECIFICATION Spec
CONSTANTS
    NoFile = NoFile
    Thread = {t1}
    CooldownRuns = 2
    MinRuns = 1
    ValidPct = 95
    HistoryLimit = 1
    MaxRuns = 2
    Inode = {i1, i2}
    Fault = {"io", "crash"}
INVARIANTS
    TypeOK
    AnsweredIsDurable
    HiddenInCooldown
    ShownAfterCooldown
