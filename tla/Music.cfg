SPECIFICATION ProgrammeSpec
CONSTANTS
    Channels = {0, 1, 2, 3}
    DrumChannel = 2
    NoKey = 0
    Tracks = {"piano", "arabesque"}
    Score <- MCScore
    Beat = 2
    ChaseMin = 2
    Lookahead = 3
    Order <- MCOrder
    OneShot = "arabesque"
    PartOf <- MCPartOf
    Player <- MCPlayer
    Roles <- MCRoles
    Hum = 6
    Bell = 7
    Horizon = 2
    BellFor = 1
    Lag = 1
    MaxNow = 8
    MaxInputs = 5
    Drummer = {"a", "b"}
    Rotations <- MCRotations
    Pulse = 4
    PerCycle = 4
    Cycles = 3
    LeadIn = 2
    Tolerance = 1
    Slack = 1
    Finale = 2
    Ahead = 2
    Late = 1
    MaxTaps = 3
    MaxStalls = 1
CHECK_DEADLOCK FALSE
INVARIANT HeardAsWritten
INVARIANT ChannelsKept
INVARIANT CyclesAreFair
