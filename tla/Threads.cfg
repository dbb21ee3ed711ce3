SPECIFICATION ThreadsSpec
CONSTANTS
    Horizon = 3
    Lead = 1
    KeepAlive = 3
    Patience = 2
    MaxFrames = 5
    MaxFaults = 2
    Accidents = {"lost", "error"}
    Client = {c1, c2}
    Fixture = {f1, f2}
    Player = {d1}
    Room = {r1, r2}
    Nothing = Nothing
    BenchColour = 1
    BenchStep = 1
    Throttle = 2
    MaxEvents = 4
    Capacity = 2
    Startup = 3
    MaxSaid = 5
    ReadyWait = 3
    ResetWait = 2
    StopWait = 1
    JoinWait = 1
    DiskFails = TRUE
CHECK_DEADLOCK FALSE
INVARIANT WakesInTime
INVARIANT ToldAtOnce
INVARIANT HeardInFull
 
PROPERTY ShowsTheLatest
PROPERTY ScreensFollow
PROPERTY FramesArrive
