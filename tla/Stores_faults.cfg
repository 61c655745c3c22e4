SPECIFICATION Spec
CONSTANTS
    NoWriter = NoWriter
    Writer = {w1, w2}
    Reader = {r1}
    MaxRecords = 1
    AuditRecords = 1
    Patience = 1
    MaxAppends = 3
    AuditCalls = 7
    MaxFaults = 1
    MaxHarm = 1
INVARIANTS
    WaitsAreBounded
PROPERTIES
    EveryCallEnds
    LocksAreReleased
CHECK_DEADLOCK FALSE
