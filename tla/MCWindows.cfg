SPECIFICATION FairSpec
CONSTANTS
  MaxWindow = 4
  Ids = {1, 2}
  Handles = {h1}
  InitWindow = 1
  MaxFrame = 1
  InitMaxStreams = 2
  MaxReset = 1
  DataSizes = {2}
  ReserveSizes = {1}
  Droppable = {}
  Resettable = {}
  PeerMoves = {"reset"}
  WindowSettings = {0, 2}
  StreamSettings = {3}
  MaxData = 2
  MaxGrant = 2
  MaxSettings = 1
INVARIANTS
  CapacityAccounted
  NoStrandedData
  ParkedHasNothingToWrite
PROPERTIES
  WithinGrants
  DataGoesOut
CHECK_DEADLOCK FALSE
