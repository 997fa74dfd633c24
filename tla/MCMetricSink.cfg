CONSTANTS
  Pollers = {p1, p2}
  Subscribers = {u1}
  NoValue = NoValue
  NoStep = NoStep
  MayFailLoad = {p1}
  Rate = 1
  Cap = 1
  MaxStep = 2
  MaxVersion = 3
SPECIFICATION MCSpec
SYMMETRY MCSymmetry
INVARIANTS TypeOK PublishedIsStored LastStepIsStored StoredFollowsHistory ViewersSeeStepsOnce
CHECK_DEADLOCK FALSE
