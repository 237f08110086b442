SPECIFICATION PaperSpec
CONSTANTS
    None = None
    MaxOrders = 2
    Symbols = {s1}
    Sides = {"BUY"}
    Quantities = {1}
    Clients = {c1}
    Prices = {1}
    FaultyCalls = {}
    Streaming = FALSE
    MaxQuantity = 0
    MaxOpenOrders = 0
    DailyPnlLimit = 0
    SizeModulus = 256
PROPERTY
    EveryFillMovesThePosition
