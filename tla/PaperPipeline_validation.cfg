SPECIFICATION Spec
CONSTANTS
    share = share
    future = future
    Symbol = {share, future}
    LotSize <- TwoLotSizes
    StartingCash = 120
    RiskBps = 500
    Reading <- Thresholds
    Price = {5, 30, 31}
    Quantity = {1, 2, 4, 24}
    MaxTrades = 4
INVARIANTS
    FilledRunIsValid
CHECK_DEADLOCK FALSE
