SPECIFICATION PairedFrames
CONSTANTS
  Cells = 2
  IdCount = 4
  Chunk <- PairChunk
  Position <- Cell
  Visual <- PairFootprint
  Desired <- PairFootprint
  Near <- PairNear
  Under <- CellAlone
  Spawn = 1
  Level <- TwoLevels
  Backrooms = 0
  Grassland = 34
  RequestId <- Ids
  MaxConcurrent = 1
  MaxLoads = 1
  MaxDelirium = 0
  PoolCanExhaust = TRUE
  MaxEvents = 1
  MaxFaults = 1
  RowsOf <- PayloadRows
  MaxChunks = 25
INVARIANTS
  ShownIsResident
  RebuiltUnlessBuried
PROPERTIES
  FootprintFills
  RebuildsHappen
  RefinementCompletes
