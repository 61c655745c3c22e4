SPECIFICATION PortfolioSpec
CONSTANTS
    Symbol = {a, b}
    StartingCash = 40
    LimitPct = 60
    OrderPrice = {2, 3, 7}
    Quantity = {1, 2, 3}
    MaxTrades = 5
SYMMETRY Symmetry
INVARIANTS
    PortfolioTypeOK
    SummaryBalances
    PositionsWithinLimit
CHECK_DEADLOCK FALSE
