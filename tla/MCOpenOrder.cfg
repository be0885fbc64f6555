SPECIFICATION Spec
CONSTANTS
  MaxWindow = 4
  Ids = {1, 2, 3}
  Handles = {h1, h2}
  InitWindow = 1
  MaxFrame = 1
  InitMaxStreams = 1
  MaxReset = 1
  DataSizes = {}
  ReserveSizes = {}
  Droppable = {}
  Resettable = {}
  PeerMoves = {"reset"}
  WindowSettings = {}
  StreamSettings = {}
  MaxData = 0
  MaxGrant = 0
  MaxSettings = 0
PROPERTIES
  OpenedInOrder
CHECK_DEADLOCK FALSE
