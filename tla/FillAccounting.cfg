SPECIFICATION MCSpec
CONSTANTS
    None = None
    MaxOrders = 2
    Symbols = {s1}
    Sides = {"BUY", "SELL"}
    Quantities = {1, 2, 3}
    Prices = {1, 2, 4}
    MaxFills = 4
    MaxUpdates = 4
    MaxMet = 3
INVARIANTS
    ProfitIdentity
    StoreAverageIsVolumeWeighted
    EntryPriceIsAttainable
    QueriesAgree
    ReportsAddUpToTotals
CHECK_DEADLOCK FALSE
