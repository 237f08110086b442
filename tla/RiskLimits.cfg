SPECIFICATION PaperSpec
CONSTANTS
    None = None
    MaxOrders = 3
    Symbols = {s1}
    Sides = {"BUY"}
    Quantities = {1, 2}
    Clients = {c1}
    Prices = {1}
    FaultyCalls = {}
    Streaming = FALSE
    MaxQuantity = 1
    MaxOpenOrders = 1
    DailyPnlLimit = 0
    SizeModulus = 256
INVARIANT
    RiskLimitsHold
