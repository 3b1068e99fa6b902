SPECIFICATION Spec
CONSTANTS
  Hashes = {h1}
  Workers = {w1, w2}
  Sigs = {g}
  Sig <- SharedSig
  MaxRetries = 0
  MaxScans = 2
  MaxCommits = 2
  MaxEdits = 0
  MaxFaults = 1
SYMMETRY Symmetry
INVARIANTS RunsTypeOK AnnouncedOnce ReportedIsOnRecord
CHECK_DEADLOCK FALSE
