SPECIFICATION Spec
CONSTANTS
    None = None
    RoomName = {hall, yard}
    Cap = 2
    InitialBackoff = 1
    MaxBackoff = 3
    Durable = {TRUE, FALSE}
    Accidents = {"refuse", "drop", "disk", "crash"}
    MaxRounds = 3
    MaxLoads = 2
    MaxFaults = 2
CHECK_DEADLOCK FALSE
INVARIANT PictureIsCurrent
PROPERTY OutboxKept
PROPERTY ReportsArrive
