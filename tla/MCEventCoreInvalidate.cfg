SPECIFICATION Spec
CONSTANTS
    h1 = h1
    h2 = h2
    h3 = h3
    p1 = p1
    p2 = p2
    c1 = c1
    c2 = c2
    main = main
    isr = isr
    NoEvent = NoEvent
    Handlers <- MCHandlers
    PoolEvents = {}
    HeapCells <- MCCells
    TimerEvents = {}
    Callers <- MCCallers
    Loop = main
    EventIds = {0}
    Sends <- MCUrgentSends
    MaxId = 1
    HandlerMayInvalidate = TRUE
INVARIANTS
    QueuedEventsAllocated
