CONSTANTS
  t1 = t1
  t2 = t2
  n1 = n1
  n2 = n2
  f1 = f1
  f2 = f2
  c1 = c1
  r1 = r1
  r2 = r2
  w1 = w1
  w2 = w2
  m1 = m1
  m2 = m2
  m3 = m3
  k1 = k1
  k2 = k2
  Tasks = {t1, t2}
  Repeating = {t2}
  MaxRuns <- MCMaxRuns
  NoLimit = NoLimit
  Wish <- MCWish
  RunBound = 2
  MaxTurns = 1
  MaxFaults = 1
  Notes = {n1, n2}
  Linked = {n1}
  Recorded = {n2}
  MaxBeats = 1
  Files = {f1, f2}
  Conversations = {c1}
  Requests = {r1, r2}
  Workers = {w1, w2}
  Chunks = {k1, k2}
  Learned <- MCLearned
  Sensitive = {m3}
  MaxMemories = 2
  MaxAttempts = 2
  Feeds = {"gmail", "calendar"}
  MaxMail = 2
  MaxMailboxes = 2
  FetchLimit = 1
  MaxItems <- MCItems
  MaxTokens = 2
  MaxResets = 1
  MaxCrashes = 1
SPECIFICATION MCSpec
INVARIANTS
  TypesOK
  ScheduleKept
  OutboxKept
  FilesKept
  MailKept
  TextsRead
PROPERTIES
  ScheduleSettles
  BackgroundSettles
CHECK_DEADLOCK FALSE
