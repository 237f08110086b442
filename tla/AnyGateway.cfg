SPECIFICATION MCSpec
CONSTANTS
    None = None
    MaxOrders = 2
    Symbols = {s1}
    Sides = {"BUY"}
    Quantities = {2}
    Clients = {c1}
    Prices = {1}
    FaultyCalls = {"timestamp", "store_order", "update_order_status", "update_broker_id", "apply_fill", "get_order", "get_open_orders"}
    Streaming = FALSE
    MaxQuantity = 0
    MaxOpenOrders = 1
    DailyPnlLimit = 0
    SizeModulus = 256
    MaxReports = 2
INVARIANTS
    MapperInverse
    MappedOrdersAreOpen
    CountCoversMapped
PROPERTY
    LifecycleRefined
