SPECIFICATION EngineAdaptersFairSpec
CONSTANTS
    None = None
    Strategies = {s1, s2}
    Threads = {t1, t2}
    MaxManagers = 2
    MaxDepth = 1
    PaperToo = FALSE
CHECK_DEADLOCK FALSE
INVARIANTS
    FeedReachesLiveManagers
    KilledStrategiesLeaveNothingLive
    WritersAreAlive
    NothingLiveAfterRun
    AdaptersOutliveTheirUsers
PROPERTIES
    EveryCallReturns
    RunEnds
