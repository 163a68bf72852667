SPECIFICATION ThreadsSpec
CONSTANTS
  MaxUpdates = 2
  MaxFaults = 2
  MaxOverlaps = 1
  company = company
  Machines = {company}
  TopicWindow = 1
  Stale = 1
  MaxRelayTime = 3
  MaxRepeats = 1
  MaxSetbacks = 1
  l1 = l1
  l2 = l2
  Launches = {l1, l2}
  Agents = {1, 2}
  Codex = {2}
  BindWindow = 1
  MaxLaunchTime = 1
  MaxCrashes = 1
INVARIANTS
  ThreadTypes
  NoUpdateLost
  
  DemotedByRivals
PROPERTIES
  
  LaunchesAreSound
  UpdateIsHandled
  NewsArrives
  LaunchSettles
CHECK_DEADLOCK FALSE
