SPECIFICATION Spec
CONSTANTS
    NoWriter = NoWriter
    Writer = {w1, w2}
    Reader = {r1, r2}
    MaxRecords = 2
    MaxAppends = 4
    MaxHarm = 2
    Fault = {"io", "torn", "crash", "operator", "age", "damage"}
SYMMETRY Symmetry
INVARIANTS
    TypeOK
    MutualExclusion
    BackupPrecedesReplace
    BackupCoversHistory
    AckedIsServed
    AppendRestoresRetention
    DamageIsReported
    RecoveryReportedOncePerThread
PROPERTIES
    ServedUntilRetired
CHECK_DEADLOCK FALSE
