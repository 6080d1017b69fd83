SPECIFICATION Spec
CONSTANTS
  Cells = 2
  IdCount = 4
  Chunk <- Cell
  Position <- Cell
  Visual <- SoloFootprint
  Desired <- SoloFootprint
  Near <- CellAlone
  Under <- CellAlone
  Spawn = 1
  Level <- TwoLevels
  Backrooms = 0
  Grassland = 34
  RequestId <- Ids
  MaxConcurrent = 1
  MaxLoads = 1
  MaxDelirium = 1
  PoolCanExhaust = FALSE
  MaxEvents = 3
  MaxFaults = 1
INVARIANTS
  RebuildsReachTheirReality
  HallwaysNeverReturn
PROPERTIES
  NeverRegresses
