CONSTANTS
  c1 = c1
  c2 = c2
  c3 = c3
  u1 = u1
  u2 = u2
  s1 = s1
  s2 = s2
  a1 = a1
  a2 = a2
  Replies <- MCReplies
  Optimised = TRUE
  MaxIterations = 2
  MaxWindow = 6
  Budget <- MCBudget
  MaxChars = 6
  TargetChars = 4
  KeepRecent = 3
  MinChars = 1
  Clients = {c1, c2, c3}
  Sockets = {c1, c3}
  Content <- MCContent
  MaxSends = 3
  MaxTrouble <- MCTrouble
  Updaters = {u1, u2}
  MaxMessages = 6
  Window = 5
  Keep = 1
  Slack = 2
  Chunk = 3
  Threshold = 2
  MaxAsks = 3
  MaxRetries = 2
  Capacity = 2
  MaxPieces = 2
  BatchCalls <- MCBatch
  MaxAttempts = 3
  WorkPlans <- MCPlans
  MaxCalls = 3
  MaxFaults = 1
  MaxControls = 2
  Savers = {s1, s2}
  Adders = {a1, a2}
  Extraction = a2
  MaxSaves = 2
  MaxForgets = 1
  MaxVersion = 4
  MaxCrashes = 2
SPECIFICATION MCSpec
INVARIANTS
  TypesOK
  
  PartsKept
  FunctionsHold
PROPERTIES
  TurnSettles
CHECK_DEADLOCK FALSE
