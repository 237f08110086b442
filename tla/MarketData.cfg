SPECIFICATION MCSpec
CONSTANTS
    None = None
    Symbols = {s1}
    Periods <- MCPeriods
    Prices = {1, 2}
    StartTime = 7
    MaxTime = 9
    MaxTicks = 3
    Managers = {m1, m2}
    MaxSubscriptions = 2
    TickStreams = {}
    FillStreams = {f1, f2}
    NoStream = NoStream
    MAX_MARKETDATA_QUEUE_DEPTH = 1
    Window = 1
    MaxEvents = 3
INVARIANTS
    BarsSummariseTheirTicks
    NoTickIsLost
    SubscribersAreFed
    TicksArriveWithoutGaps
    CrashesAreExplained
PROPERTIES
    ReconnectionRequestsAll
    StopEndsUnlessMissed
    OnlyUnreadStreamsBlock
CHECK_DEADLOCK FALSE
