SPECIFICATION Spec
CONSTANTS
  v1 = v1
  v2 = v2
  w1 = w1
  w2 = w2
  r1 = r1
  Vulns = {v1, v2}
  Blocking = {v1, v2}
  Workers = {w1}
  Reviewers = {r1}
  Cap = 2
  MaxScans = 2
  MaxCommits = 0
  MaxEdits = 2
  MaxSwitches = 1
  MaxErrors = 1
  MaxFaults = 1
  MaxMishaps = 2
INVARIANTS GateHolds BlockedHasReason ApprovalsAreHuman
SYMMETRY Symmetric
CHECK_DEADLOCK FALSE
