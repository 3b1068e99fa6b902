SPECIFICATION FairSpec
CONSTANTS
  Targets = {t1}
  Passes = {p1}
  Intervals = {2}
  ShippedEnabled = TRUE
  ShippedInterval = 1
  MaxJitter = 1
  WS = WS
  NULL = NULL
  MaxTime = 1
  MaxRows = 3
  MaxEdits = 2
  MaxFaults = 1
INVARIANTS DueAfterLastRun
PROPERTIES DueIsServed
