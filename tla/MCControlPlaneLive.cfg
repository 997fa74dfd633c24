CONSTANTS
  Runs = {r1}
  Handles = {h1}
  NoHandle = NoHandle
  NoRun = NoRun
  NoSnap = NoSnap
  TinkerStatus = {"queued", "running", "paused", "succeeded", "cancelled", "completed"}
  Slots = {s1}
  NoDelta = NoDelta
  Setups = {{"routed", "key", "faulty"}}
  MaxOps = 1
  MaxFaults = 1
SPECIFICATION FairSpec
PROPERTIES
  ActiveRowsConverge
  RunningRowsAreTracked
CHECK_DEADLOCK FALSE
