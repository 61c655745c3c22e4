SPECIFICATION Spec
CONSTANTS
    NoRequest = NoRequest
    Client = {c1, c2}
    Request <- RequestSet
    DailyPnl <- PnlSet
    MaxNotional = 2
    MaxDailyLoss = 1
    MaxCalls = 2
SYMMETRY Symmetry
INVARIANTS
    TypeOK
    NothingPassesAClosedGate
    EveryAttemptIsDecided
