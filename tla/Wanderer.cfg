CONSTANTS
    Places <- Corridor
    Versions = {0, 1}
    Near <- CorridorNear
    Spawn <- CorridorSpawn
    Walls <- CorridorWalls
    Pits <- CorridorPits
    Doors <- CorridorDoors
    Thresholds <- CorridorThresholds
    DoorCooldown = 3
    NoclipPush = 2
    NoclipCooldown = 1
    RoutePeriod = 2
    FlareCap = 1
    FlareLife = 2
    LoadsPerTick = 1
    None = None
SPECIFICATION Spec
INVARIANTS
    WhatIsKeptFits
PROPERTIES
    WallsNeverCloseIn
    TransitsAreEarned
    PitsLetGo
CHECK_DEADLOCK TRUE
