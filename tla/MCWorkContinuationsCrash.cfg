CONSTANTS
  Goals = {g1}
  Runs = {t1, k1}
  Turns = {t1}
  Actions = {a1}
  NoGoal = NoGoal
  NoRun = NoRun
  PlanStatuses = {"active", "blocked"}
  MaxCrashes = 2
  MaxControls = 1
SPECIFICATION FairSpec
INVARIANTS
  InterruptedGoalCovered
PROPERTIES
  QueuedWorkContinues
CHECK_DEADLOCK FALSE
