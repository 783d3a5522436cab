CONSTANTS
  Goals = {g1}
  Runs = {t1, k1, k2}
  Turns = {t1}
  Actions = {}
  NoGoal = NoGoal
  NoRun = NoRun
  PlanStatuses = {"active"}
  MaxCrashes = 0
  MaxControls = 1
SPECIFICATION Spec
PROPERTIES
  PauseHolds
CHECK_DEADLOCK FALSE
