\* Two instruments and two rooms; MaxEdits Console commands; files, Bits and
\* terrarium.toml texts as MCCatalog lists them.
SPECIFICATION CatalogSpec
CONSTANTS
    None = None
    ROOM = ROOM
    TARGET = TARGET
    FixtureNames = {"wall", "post"}
    Reserved = {"flash", "stop", "ping"}
    CueTop = 4
    Capabilities = {"light.pixels", "light.surface", "audio.flsyn"}
    PixelFloor = 2
    MaxParts = 2
    MaxBlock = 3
    PixelsPerUniverse = 2
    MaxUniverse = 2
    TerrariumApi = 1
    InstrumentName = {"lamp", "ring"}
    RoomName = {"hall", "loft"}
    InstrumentFile <- MCInstrumentFile
    RoomFile <- MCRoomFile
    Terrariums <- MCTerrariums
    Shelves <- MCShelves
    Disks <- MCDisks
    Overrides <- MCOverrides
    Gestures <- MCGestures
    MaxEdits = 3
INVARIANT StaysBootable
INVARIANT SurfacesAreWhole
INVARIANT LanesWrittenOnce
CHECK_DEADLOCK FALSE
