SPECIFICATION Spec
CONSTANTS
  mac = mac
  Cmds = {1}
  Spokes = {mac}
  Keyed = {mac}
  Skew <- NoSkew
  TTL = 1
  AckTimeout = 2
  GcAge = 2
  MaxTime = 4
  MaxErrors = 0
  MaxRestarts = 0
INVARIANTS
  CachedAckReturned
