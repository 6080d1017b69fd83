SPECIFICATION PartSpec
VIEW Remembered
CONSTANTS
    Keys = {"KeyA", "KeyG"}
    Fingers = {0, 1}
    Buttons = {"flare"}
    Deflections <- JoystickPositions
    None = None
    Supplies <- AllSupplies
    KindOf <- SupplyKinds
    Chunks <- TwoChunks
    Listed <- SupplyLists
    Wears <- TimeSpans
    CarryCap = 2
    MaxDeaths = 1
    Scales = 4
    DropCooldown = 1
    RaiseCooldown = 2
    RaiseProbe = 6
    RaiseLockout = 12
    Layouts <- CornerAndHall
    Arrivals <- TwoArrivals
    Headings <- ThreeHeadings
    FrameTimes = {1, 20}
    Efforts = {100}
    Intents <- AheadOrAslant
    MaxSteps = 4
INVARIANTS
    NoGhostWalk
    PlayNeedsCapture
    FingersHaveOneJob
    SuppliesConserved
    WalksKeepOut
PROPERTIES
    PressesAreActs
    AssistIsMeasured
    RaisesAreApart
CHECK_DEADLOCK TRUE
