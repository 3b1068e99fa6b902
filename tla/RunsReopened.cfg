SPECIFICATION Spec
CONSTANTS
  Hashes = {h1}
  Workers = {w1}
  Sigs = {g}
  Sig <- SharedSig
  MaxRetries = 0
  MaxScans = 4
  MaxCommits = 3
  MaxEdits = 0
  MaxFaults = 0
SYMMETRY Symmetry
PROPERTIES HealthyRunClears
CHECK_DEADLOCK FALSE
