SPECIFICATION Spec
CONSTANTS
  Runs = {r1, r2}
  MaxAlerts = 2
  MaxToasts = 3
  SeenLimit = 1
  SeenKept = 1
  MaxListed = 1
  MaxRuns = 2
INVARIANTS TypeOK NoDoubleToast ToldIsShown
SYMMETRY RunsAlike
