SPECIFICATION LoopSpec
CONSTANTS
    h1 = h1
    p1 = p1
    c1 = c1
    t1 = t1
    t2 = t2
    t3 = t3
    main = main
    isr = isr
    NoEvent = NoEvent
    Handlers = {h1}
    PoolEvents = {p1}
    HeapCells = {}
    TimerEvents <- MCTimers
    StaticTimers = {t1}
    Callers = {main}
    Loop = main
    EventIds = {0}
    Sends <- MCSends
    MaxId = 0
    HandlerMayInvalidate = FALSE
    Half = 4
    Instants <- MCInstants
    Delays <- MCDelays
    Periods = {1, 3}
    Millis = {5, 25}
    TickSteps = {1, 3}
    MaxLag = 3
    CancelWhileFreeing = FALSE
INVARIANTS
    TimerTypeOK
    TimersConserved
    UnqueuedIsOnTimerList
    TimerListInOrder
PROPERTIES
    KeepsTime
