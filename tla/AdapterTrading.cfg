SPECIFICATION AdapterTradingSpec
CONSTANTS
    None = None
    NoId = NoId
    MaxOrders = 2
    Symbols = {s1}
    Sides = {"BUY"}
    Quantities = {2}
    Clients = {c1}
    Prices = {1}
    FaultyCalls = {"timestamp", "update_order_status"}
    Streaming = FALSE
    MaxQuantity = 0
    MaxOpenOrders = 0
    DailyPnlLimit = 0
    SizeModulus = 256
    MaxStreams = 2
    kMaxSeenIds = 1
    Resent = 1
    MaxSurprises = 1
    MaxRestarts = 1
    MaxExecutions = 2
    MaxCommands = 2
INVARIANTS
    EachExecutionCountsOnce
    LiveOrdersStayReachable
    OpenStreamsAreFed
CHECK_DEADLOCK FALSE
