CONSTANTS
  Goals = {g1}
  Runs = {t1, k1, k2}
  Turns = {t1}
  Actions = {a1, a2}
  NoGoal = NoGoal
  NoRun = NoRun
  PlanStatuses = {"active"}
  MaxCrashes = 0
  MaxControls = 2
SYMMETRY Symmetry
SPECIFICATION Spec
CONSTRAINT Within
INVARIANTS
  TypeOK
  ClaimExclusive
  ConsumedIsCarriedOn
  
  
CHECK_DEADLOCK FALSE
