CONSTANTS
  c1 = c1
  NoWorker = NoWorker
  Detached = Detached
  Conversations = {c1}
  Foreground = {f1}
  Continuations = {k1}
  Evaluators = {e1}
  ConvOf <- MCConvOf
SPECIFICATION StopsSpec
INVARIANTS
  StopHonoured
