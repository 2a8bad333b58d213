SPECIFICATION Spec
CONSTANTS
    MaxTimerId = 2
    MaxSlots = 5
    Slots = {0, 1, 3}
INVARIANTS
    NsTimerTypeOK
    ScheduledIsTimed
    CalledInFull

    
