SPECIFICATION TradingSpec
SYMMETRY Symmetry
CONSTANTS
    None = None
    MaxOrders = 2
    Symbols = {s1}
    Sides = {"SELL"}
    Quantities = {2}
    Clients = {c1, c2}
    Prices = {1}
    FaultyCalls = {}
    Streaming = TRUE
    MaxQuantity = 0
    MaxOpenOrders = 1
    DailyPnlLimit = 0
    SizeModulus = 256
INVARIANTS
    LiveOrdersAreTracked
    FillsAreConserved
    PositionMatchesStore
    AuditTrail
PROPERTY
    KillSwitchCancelsAll
