SPECIFICATION Spec
CONSTANTS
    h1 = h1
    h2 = h2
    h3 = h3
    p1 = p1
    p2 = p2
    c1 = c1
    c2 = c2
    main = main
    isr = isr
    NoEvent = NoEvent
    Handlers <- MCHandlers
    PoolEvents <- MCPool
    HeapCells <- MCCells
    TimerEvents = {}
    Callers <- MCCallers
    Loop = main
    EventIds = {0}
    Sends <- MCSends
    MaxId = 1
    HandlerMayInvalidate = FALSE
SYMMETRY MCSymmetry
INVARIANTS
    TypeOK
    PoolConserved
    QueuedEventsAllocated
    NoHeapLeak
    QueueByPriority
    StateAccurate
    NoNullTasklet
    IdsUnique
PROPERTIES
    DeliversInOrder
