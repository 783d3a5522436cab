CONSTANTS
  Inbound = {i1, i2}
  OwnMessages = {}
  Edits = {}
  Deletions = {}
  NoTask = NoTask
  MaxRevision = 1
  MaxFaults = 0
  MaxCrashes = 0
SPECIFICATION ReviewSpec
INVARIANTS
  SentAsShown
CHECK_DEADLOCK FALSE
