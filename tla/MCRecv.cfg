SPECIFICATION Spec
CONSTANTS
  MaxWindow = 8
  ConnWindow = 5
  StreamWindow <- MCStreamWindow
  MaxReset = 1
  Targets = {2, 6}
  Windows = {1, 6}
  Instances <- MCInstances
  Servers <- MCServers
  MaxRecv <- MCMaxRecv
  PeerIds <- MCPeerIds
  DataSizes <- MCDataSizes
  Lengths <- MCLengths
  Resettable <- MCResettable
  Moves <- MCMoves
  MaxBytes <- MCMaxBytes
  MaxChanges <- MCMaxChanges
INVARIANTS
  NoAssertFails
  BytesAccounted
  NobodyForgotten
  NoStall
  SlotsAccounted
  CleanEndIsComplete
CHECK_DEADLOCK FALSE
