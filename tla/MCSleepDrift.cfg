SPECIFICATION DriftSpec
CONSTANTS
    h1 = h1
    p1 = p1
    t1 = t1
    main = main
    isr = isr
    NoEvent = NoEvent
    Handlers = {h1}
    PoolEvents = {p1}
    HeapCells = {}
    TimerEvents = {t1}
    StaticTimers = {t1}
    Callers = {main, isr}
    Loop = main
    EventIds = {0}
    Sends <- MCSends
    MaxId = 0
    HandlerMayInvalidate = FALSE
    Half = 4
    Instants = {}
    Delays = {3}
    Periods = {1}
    Millis = {}
    TickSteps = {1}
    MaxLag = 3
    CancelWhileFreeing = FALSE
    MaxMillis = 127
    Naps = {1}
CHECK_DEADLOCK FALSE
PROPERTIES
    AtMostATickEarly
