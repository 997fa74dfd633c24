SPECIFICATION MCSpec
CONSTANTS
  MaxVersion = 2
  Clicks = {c1}
  MaxStep = 1
  MaxEvents = 1
  MaxWire = 1
INVARIANTS PageOpens
