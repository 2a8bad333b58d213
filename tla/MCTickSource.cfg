SPECIFICATION FairTickSourceSpec
CONSTANTS
    MaxTimerId = 2
    MaxSlots = 5
    Slots = {1, 3}
    TickSlots = 2
INVARIANTS
    TickSourceTypeOK
PROPERTIES
    KeepsBeat
    TicksGoOn
    TimerFires
