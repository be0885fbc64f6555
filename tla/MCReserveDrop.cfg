SPECIFICATION Spec
CONSTANTS
  MaxWindow = 4
  Ids = {1, 2}
  Handles = {h1}
  InitWindow = 1
  MaxFrame = 1
  InitMaxStreams = 2
  MaxReset = 1
  DataSizes = {2}
  ReserveSizes = {2}
  Droppable = {1}
  Resettable = {}
  PeerMoves = {}
  WindowSettings = {}
  StreamSettings = {}
  MaxData = 2
  MaxGrant = 2
  MaxSettings = 0
INVARIANTS
  NoAssertFails
CHECK_DEADLOCK FALSE
