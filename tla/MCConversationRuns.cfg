CONSTANTS
  c1 = c1
  c2 = c2
  e2 = e2
  NoWorker = NoWorker
  Detached = Detached
  Conversations = {c1, c2}
  Foreground = {f1}
  Continuations = {k1}
  Evaluators = {e1, e2}
  ConvOf <- MCConvOf
SPECIFICATION FairSpec
INVARIANTS
  TypeOK
  MutualExclusion
  PreemptionDelivered
  OwnTokenRegistered
  CancellationAssertion
PROPERTIES
  ImplementsLock
  ForegroundAdmitted
