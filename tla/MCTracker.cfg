CONSTANTS
  Runs = {r1}
  Handles = {h1, h2}
  NoHandle = NoHandle
  NoRun = NoRun
  NoSnap = NoSnap
  TinkerStatus = {"running", "succeeded"}
SPECIFICATION FairSpec
INVARIANTS
  TypeOK
  ListedIsSupervised
  LateWriteBound
PROPERTIES
  CancelledStops
  FinishedJobReleased
CHECK_DEADLOCK FALSE
