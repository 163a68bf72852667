SPECIFICATION RelaySpec
CONSTANTS
  company = company
  Machines = {company}
  TopicWindow = 1
  Stale = 1
  MaxRelayTime = 4
  MaxRepeats = 0
  MaxSetbacks = 0
INVARIANTS
  NeverFalseRunning
