SPECIFICATION Spec
CONSTANTS
  a = a
  Local = {a}
  Relayed = {}
  Sights <- StopSights
  Cooldown = 3
  MaxTime = 3
  MaxFails = 1
INVARIANTS
  OneAlertPerStop
