CONSTANTS
  Runs = {r1}
  Handles = {h1}
  NoHandle = NoHandle
  NoRun = NoRun
  NoSnap = NoSnap
  TinkerStatus = {"queued", "running", "paused", "succeeded", "failed", "cancelled"}
  Slots = {s1}
  NoDelta = NoDelta
  Setups = {{"key"}}
  MaxOps = 0
  MaxFaults = 0
SPECIFICATION FairSpec
PROPERTY RunningJobsAreTracked
CHECK_DEADLOCK FALSE
