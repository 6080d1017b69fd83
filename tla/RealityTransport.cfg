SPECIFICATION Spec
CONSTANTS
  Instance <- Rooms
  Gate <- GateIds
  Of <- GateOwner
  Kind <- GateKinds
  Forward <- GatesForward
  Plane <- GatePlanes
  Axis <- GateAxes
  Cell <- Cells
  Supply = {19, 2}
  MaxDelirium = 1
  MaxCrossings = 8
  MaxDrifts = 2
  HalfWidth = 16
INVARIANTS
  TransportLossless
PROPERTIES
  ImplementsReality
