SPECIFICATION FairSchedulerSpec
CONSTANTS
    h1 = h1
    p1 = p1
    p2 = p2
    t1 = t1
    t2 = t2
    main = main
    isr = isr
    NoEvent = NoEvent
    Handlers = {h1}
    PoolEvents = {p1}
    HeapCells = {}
    TimerEvents = {t1, t2}
    StaticTimers = {t1, t2}
    Callers = {main, isr}
    Loop = main
    EventIds = {0}
    Sends <- MCSends
    MaxId = 0
    HandlerMayInvalidate = FALSE
    Half = 3
    Instants = {}
    Delays = {2}
    Periods = {1}
    Millis = {}
    TickSteps = {1}
    MaxLag = 2
    CancelWhileFreeing = FALSE
    MaxMillis = 127
    Naps = {9}
CHECK_DEADLOCK FALSE
INVARIANTS
    SchedulerTypeOK
    NoLostWakeup
    
PROPERTIES
    WokenForEvents
    
