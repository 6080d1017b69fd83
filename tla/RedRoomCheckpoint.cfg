SPECIFICATION PartSpec
CONSTANTS
  outer = outer
  inner = inner
  deepest = deepest
  other = other
  west = west
  east = east
  Base = base
  Instance <- Rooms
  Gate <- GateIds
  Of <- GateOwner
  Kind <- GateKinds
  Forward <- GatesForward
  Chunk = {west, east}
  Home <- Homes
  At <- Places
  Cell = {c1}
  Supply = {s1}
  MaxDelirium = 1
  MaxCrossings = 10
  MaxWorldCrossings = 5
  MaxDrifts = 1
  Worlds <- ManyWorlds
  Regions <- ManyRegions
  MaxPlans = 2
INVARIANTS
  CheckpointRetained
