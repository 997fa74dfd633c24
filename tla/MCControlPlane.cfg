CONSTANTS
  Runs = {r1}
  Handles = {h1}
  NoHandle = NoHandle
  NoRun = NoRun
  NoSnap = NoSnap
  TinkerStatus = {"queued", "running", "paused", "succeeded", "cancelled", "completed"}
  Slots = {s1, s2}
  NoDelta = NoDelta
  Setups = {{"routed", "key", "faulty"}, {"routed", "key", "forgets"}, {"key", "forgets", "faulty"}, {"routed"}}
  MaxOps = 2
  MaxFaults = 1
SPECIFICATION Spec
SYMMETRY MCSymmetry
INVARIANTS
  TypeOK
  NoFalseFinish
  CancelledIsStopped
CHECK_DEADLOCK FALSE
