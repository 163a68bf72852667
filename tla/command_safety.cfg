SPECIFICATION Spec
CONSTANTS
  mac = mac
  Cmds = {1, 2}
  Spokes = {mac}
  Keyed = {mac}
  Skew <- NoSkew
  TTL = 1
  AckTimeout = 2
  GcAge = 1
  MaxTime = 3
  MaxErrors = 1
  MaxRestarts = 0
INVARIANTS
  AckTruth
  OkReportMeansRun
PROPERTIES
  RejectionIsFinal
