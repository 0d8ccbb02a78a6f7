SPECIFICATION Spec
CONSTANTS
  main = main
  w1 = w1
  w2 = w2
  Thread <- MCThread
  Main = main
  MAX_NOTIFICATIONS = 2
  MaxPushes = 5
SYMMETRY MCSymmetry
INVARIANTS
  LimitNeedsOverlap
  EachMessageHasItsPlace
CHECK_DEADLOCK FALSE
