CONSTANTS
  Actions = {a1, a2}
  Deciders = {d1, d2, d3}
  NoAction = NoAction
  MaxCrashes = 1
SYMMETRY Symmetry
SPECIFICATION Spec
INVARIANTS
  TypeOK
  OutcomeTrue
  LastDecisionResumes
PROPERTIES
  SettledForGood
CHECK_DEADLOCK FALSE
