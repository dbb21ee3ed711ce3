SPECIFICATION MCSpec
CONSTANTS
    studio = studio
    gallery = gallery
    lamp = lamp
    strip = strip
    None = None
    Room <- MCRoom
    Fixture <- MCFixture
    Needed <- MCNeeded
    Driven <- MCDriven
    Factories = {TRUE, FALSE}
    Serves <- RoomOrNot
    MaxLoads = 3
    Accidents = {"crash", "signal"}
CHECK_DEADLOCK FALSE
INVARIANT SparedOrphans
INVARIANT SparedWhole
PROPERTY SparedHub
PROPERTY LoadsEnd
