SPECIFICATION Spec
CONSTANTS
  Circulations <- BothSpines
  Genomes <- TwoDesigners
  Rolls = {0, 95}
  Shifts = {60, 110}
  Anchors <- StairAnchor
  Outlines <- TwoFootprints
  Rules <- TwoDepths
  Rooms <- SmallRooms
  Reach = 9
  Depth = 2
  Volumes <- FourVolumes
  Sites <- ThreeSites
  Paints <- ThreePaints
  MaxEdits = 3
  Modules <- Treatments
  Lattices <- SixLattices
  Nowhere = Nowhere
  Chunks <- Storeys
  Policies = {"exact", "low spec"}
  MaxCells = 2
  Scenes <- TenScenes
  Rays <- ManyRays
  Queries = {"front to back", "as listed", "occluded"}
  Limits <- SomeLimits
CHECK_DEADLOCK FALSE
INVARIANTS
  AssembliesApart
  SealedOnlyPastBends
  RoomsTile
  SolutionsAreLegal
  ContradictionsAreReal
  LightGoesThroughAir
  ArenaShowsVolume
  MeshIsTheSurface
  RaysStopAtSolids
