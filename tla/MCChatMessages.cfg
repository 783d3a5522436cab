CONSTANTS
  c1 = c1
  Clients = {c1}
  Sockets = {c1}
  Content <- MCContent
  MaxSends = 2
  MaxTrouble <- MCTrouble
SPECIFICATION Spec
INVARIANT TurnBegunOnce
CHECK_DEADLOCK FALSE
