SPECIFICATION Spec
CONSTANTS
  MaxWindow = 4
  Ids = {1, 2}
  Handles = {h1}
  InitWindow = 1
  MaxFrame = 1
  InitMaxStreams = 2
  MaxReset = 1
  DataSizes = {1}
  ReserveSizes = {}
  Droppable = {1, 2}
  Resettable = {1, 2}
  PeerMoves = {"respond", "reset"}
  WindowSettings = {}
  StreamSettings = {}
  MaxData = 1
  MaxGrant = 2
  MaxSettings = 0
INVARIANTS
  SlabForgets
CHECK_DEADLOCK FALSE
