SPECIFICATION FairSpec
CONSTANTS
  v1 = v1
  v2 = v2
  w1 = w1
  w2 = w2
  r1 = r1
  Vulns = {v1}
  Blocking = {v1}
  Workers = {w1}
  Reviewers = {r1}
  Cap = 2
  MaxScans = 2
  MaxCommits = 1
  MaxEdits = 0
  MaxSwitches = 1
  MaxErrors = 1
  MaxFaults = 2
  MaxMishaps = 3
INVARIANT GateHolds
PROPERTIES ScanSettles PendingResolved
CHECK_DEADLOCK FALSE
