SPECIFICATION FairSpec
CONSTANTS
  a = a
  Local = {a}
  Relayed = {}
  Sights <- LocalSights
  Cooldown = 3
  MaxTime = 4
  MaxFails = 1
INVARIANTS
  
  QuietIsPacedNotLost
PROPERTIES
  StandingWaitIsAnnounced
