CONSTANTS
  Inbound = {i1}
  OwnMessages = {}
  Edits = {e1}
  Deletions = {x1}
  NoTask = NoTask
  MaxRevision = 2
  MaxFaults = 1
  MaxCrashes = 1
SPECIFICATION Spec
INVARIANTS
  TypeOK
  SentAsApproved
  NothingOverlooked
  OnePendingDraft
  OutcomeTrue
CHECK_DEADLOCK FALSE
