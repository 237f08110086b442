SPECIFICATION JournalSpec
CONSTANTS
    None = None
    Threads = {t1, t2}
    Loggers = {t1}
    Events = {"ORDER_PARTIALLY_FILLED"}
    Correlations = {o1}
    MAX_QUEUE_DEPTH = 2
    BATCH_SIZE = 2
    TicksPerSecond = 2
    MaxClock = 1
    MaxLogged = 3
    MaxCrashes = 1
INVARIANTS
    FlushedIsDurable
    NoLostWakeup
    HistoryInLogOrder
    ResumingSkipsNothing
PROPERTIES
    FlushReturns
CHECK_DEADLOCK FALSE
