CONSTANTS
  Singles = {}
  Emails = {m1, m2}
  Calendars = {}
  MaxFaults = 2
  MaxCrashes = 2
SPECIFICATION FairSpec
INVARIANTS
  TypeOK
  ClaimedIsInHand
PROPERTIES
  ImplementsPromise
  EventSettles
CHECK_DEADLOCK FALSE
