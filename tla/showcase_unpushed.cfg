SPECIFICATION ShowSpec
CONSTANTS
  MaxReleases = 2
INVARIANTS
  DeployedIsPushed
CHECK_DEADLOCK FALSE
