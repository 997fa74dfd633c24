SPECIFICATION MCSpec
CONSTANTS
  MaxVersion = 3
  Clicks = {c1, c2}
  MaxStep = 5
  MaxEvents = 3
  MaxWire = 3
INVARIANTS
  MCTypeOK AcknowledgedIsShown
  ChartAscends NothingBetween
PROPERTY EndIsShown
