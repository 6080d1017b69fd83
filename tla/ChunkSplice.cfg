SPECIFICATION Spec
CONSTANTS
  Cells = 1
  IdCount = 4
  Chunk <- PairChunk
  Position <- Cell
  Visual <- PairFootprint
  Desired <- PairFootprint
  Near <- PairNear
  Under <- CellAlone
  Spawn = 1
  Level <- TwoLevels
  Backrooms = 0
  Grassland = 34
  RequestId <- Ids
  MaxConcurrent = 1
  MaxLoads = 1
  MaxDelirium = 0
  PoolCanExhaust = FALSE
  MaxEvents = 1
  MaxFaults = 0
INVARIANTS
  NoSplicedAddress
