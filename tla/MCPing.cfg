SPECIFICATION FairSpec
CONSTANTS
  MaxPings = 2
  MaxStray = 1
INVARIANTS
  ParkedUserIsWoken
  PingIsNoticed
  OnePongPerPing
  NoAssertFails
PROPERTIES
  ClosedIsFinal
  PingIsAnswered
CHECK_DEADLOCK FALSE
