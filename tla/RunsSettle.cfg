SPECIFICATION FairSpec
CONSTANTS
  Hashes = {h1, h2}
  Workers = {w1}
  Sigs = {g}
  Sig <- SharedSig
  MaxRetries = 1
  MaxScans = 2
  MaxCommits = 1
  MaxEdits = 1
  MaxFaults = 0
PROPERTIES ScansSettle ClearedOnEvidence
CHECK_DEADLOCK FALSE
