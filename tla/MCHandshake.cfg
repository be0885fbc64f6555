SPECIFICATION Spec
CONSTANTS
  Room = 30
  SettingsLen = 3
INVARIANTS
  InvalidIsInvalid
CHECK_DEADLOCK FALSE
