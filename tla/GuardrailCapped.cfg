SPECIFICATION Spec
CONSTANTS
  v1 = v1
  v2 = v2
  w1 = w1
  w2 = w2
  r1 = r1
  Vulns = {v1, v2}
  Blocking = {v1, v2}
  Workers = {w1}
  Reviewers = {r1}
  Cap = 1
  MaxScans = 2
  MaxCommits = 0
  MaxEdits = 2
  MaxSwitches = 0
  MaxErrors = 0
  MaxFaults = 0
  MaxMishaps = 0
INVARIANT GateHolds
SYMMETRY Symmetric
CHECK_DEADLOCK FALSE
