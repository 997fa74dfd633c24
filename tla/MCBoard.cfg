SPECIFICATION MCSpec
CONSTANTS
  Runs = {r1, r2}
  Mine = {r1}
  Clicks = {c1}
  CompareMax = 2
  People = {p1, p2}
  Tabs = {t1, t2}
  Pinnable = {r1, r2}
  Curves = {v1, v2, v3}
  CurvesMax = 3
  Values = {a, b}
  MaxTimers = 2
INVARIANTS
  MCTypeOK ReportIsHonest
  SignedOutIsNobody  OutliersAreMarked
PROPERTIES CancellationsEnd SoloEndsClean
