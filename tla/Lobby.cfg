SPECIFICATION Spec
CONSTANTS
    None = None
    Devices = {d1, d2}
    Caps = {1, 2}
    FlashOn = 1
    FlashStep = 2
    BellAt = 1
    ChimeAt = 2
    CeremonyGap = 0
    InviteEvery = 5
    MaxQueue = 5
    MaxReds = 1
CHECK_DEADLOCK FALSE
INVARIANT PulseIsHonest
PROPERTY WhiteMeansInvited
PROPERTY CeremonyPlaysOut
