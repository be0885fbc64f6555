SPECIFICATION Spec
CONSTANTS
  FirstCap = 4
  Wrap = 8
  HashOf <- MCHashOf
  TableSize = 4
  RawNames = {}
  LongCoded = {}
  MaxWindow = 3
  LeastFrame = 3
  MostFrame = 5
  Items <- MCItems
  Strays <- MCStrays
  Senders = {"nephele", "other"}
  FrameSizes = {3}
  TableSizes = {0, 2}
  MaxRecvFrame = 5
  MaxListSize = 100
  ChainThreshold = 2
  MaxFrames <- MCMaxFrames
  CanBreak = TRUE
INVARIANTS
  TablesAgree
  TableIsSound
  NoWriteLoop
PROPERTIES
  IsChannel
  AllArrive
