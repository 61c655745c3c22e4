SPECIFICATION Spec
CONSTANTS
    InitialCapital = 100
    Scale = 20
    Risk = 1
    Fee = 1
    Slippage = 1
    Price = {1, 10, 20, 60}
    StopDistance = {1, 2}
    MaxRows = 6
INVARIANTS
    ProfitsExplainCapital
    ShortByFeeAtMost
CHECK_DEADLOCK FALSE
