SPECIFICATION FairSpec
CONSTANTS
  N = 1
  MaxConcurrent = 1
  MaxUnread = 1
  Moves = {"graceful", "abrupt", "goaway", "late", "violate", "eof"}
INVARIANTS
  NoAssertFails
  ProcessedIsAnnounced
  ErrorIsTold
  ClosesWithoutStreams
PROPERTIES
  GoAwayNeverGrows
  GoingAwayEnds
CHECK_DEADLOCK FALSE
