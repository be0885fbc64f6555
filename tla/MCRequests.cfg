SPECIFICATION Spec
CONSTANTS
  N = 2
  MaxConcurrent = 1
  MaxUnread = 1
  Moves = {"graceful", "window", "settings", "badSettings", "reset", "malformed"}
  Absent = absent
  Schemes = {"http", "https"}
  Authorities = {"host"}
  Paths = {"/", "/p"}
  Statuses = {"200", "404"}
  Methods = {"GET", "HEAD", "POST", "OPTIONS", "CONNECT"}
INVARIANTS
  SettingsInStep
  GracefulLosesNothing
CHECK_DEADLOCK FALSE
