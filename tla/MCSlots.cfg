SPECIFICATION Spec
CONSTANTS
  MaxWindow = 4
  Ids = {1, 2}
  Handles = {h1}
  InitWindow = 2
  MaxFrame = 1
  InitMaxStreams = 1
  MaxReset = 1
  DataSizes = {2}
  ReserveSizes = {}
  Droppable = {1, 2}
  Resettable = {2}
  PeerMoves = {"respond", "violate", "expire", "eof", "goaway", "reset"}
  WindowSettings = {}
  StreamSettings = {}
  MaxData = 2
  MaxGrant = 2
  MaxSettings = 0
INVARIANTS
  NoAssertFails
  CountersAgree
  ControlIsWoken
  CleanEndIsComplete
PROPERTIES
  PeerConcurrency
  FramesInOrder
CHECK_DEADLOCK FALSE
