SPECIFICATION HooksSpec
CONSTANTS
  Scanners = {onScan, daily}
  Bodies = {"x", "y"}
  MaxCommits = 2
  MaxWorks = 5
INVARIANTS
  DivergentIsForeign
CHECK_DEADLOCK FALSE
