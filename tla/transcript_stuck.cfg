SPECIFICATION TranscriptSpec
CONSTANTS
  ScanWindow = 4
  PageLimit = 2
  MaxTurnLines = 3
  MaxPages = 4
  LineKinds <- MCLineKinds
PROPERTIES
  EarlierTurnsLoad
CHECK_DEADLOCK FALSE
