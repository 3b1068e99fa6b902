SPECIFICATION Spec
CONSTANTS
  Targets = {t1}
  Passes = {p1, p2}
  Intervals = {2}
  ShippedEnabled = TRUE
  ShippedInterval = 1
  MaxJitter = 0
  WS = WS
  NULL = NULL
  MaxTime = 3
  MaxRows = 3
  MaxEdits = 1
  MaxFaults = 1
SYMMETRY Symmetry
INVARIANTS TypeOK OncePerRun OneRowPerScope
PROPERTIES RunsAdvance ImplementsLedger
