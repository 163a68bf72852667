SPECIFICATION FairSpec
CONSTANTS
  mac = mac
  stray = stray
  Cmds = {1}
  Spokes = {mac, stray}
  Keyed = {mac}
  Skew <- MixedSkew
  TTL = 1
  AckTimeout = 1
  GcAge = 2
  MaxTime = 2
  MaxErrors = 1
  MaxRestarts = 1
INVARIANTS
  RunsPaidByLapses
  
PROPERTIES
  NothingHangs
  
  
