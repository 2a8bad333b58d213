SPECIFICATION TimeoutSpec
CONSTANTS
    ht = ht
    p1 = p1
    t1 = t1
    t2 = t2
    b1 = b1
    b2 = b2
    main = main
    NoEvent = NoEvent
    NoBlock = NoBlock
    Handlers = {ht}
    TimeoutTasklet = ht
    PoolEvents = {p1}
    HeapCells = {}
    TimerEvents <- MCTimers
    StaticTimers = {t1}
    Callers = {main}
    Loop = main
    EventIds = {0, 1}
    Sends <- MCSends
    MaxId = 1
    HandlerMayInvalidate = FALSE
    Blocks = {b1, b2}
    OnceMillis = {0, 5}
    EveryMillis = {0, 15}
    Half = 3
    Instants = {}
    Delays = {1}
    Periods = {1}
    Millis = {}
    TickSteps = {2}
    MaxLag = 2
    CancelWhileFreeing = FALSE
INVARIANTS
    TimeoutTypeOK
    NoUseAfterFree
    NoTimeoutLeak

    
