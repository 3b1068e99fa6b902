SPECIFICATION Spec
CONSTANTS
  Parts = {"tools", "diffs", "comments", "priority", "security"}
  w1 = w1
  w2 = w2
  i1 = i1
  i2 = i2
  i3 = i3
  d1 = d1
  d2 = d2
  t1 = t1
  t2 = t2
  Runs = {w1, w2}
  RunTools = {"trivy", "trivy-license", "tfsec", "gitleaks"}
  Diffs <- MCDiffs
  Checkout = {"go", "manifest"}
  MaxPeriod = 2
  MaxFiles = 4
  RunFaults = 1
  MaxLines = 3
  Flaws <- MCFlaws
  Importers <- MCImporters
  DiffTools = {"semgrep", "trivy"}
  FAN_IN_CAP = 2
  MAX_EXPANDED_FILES = 3
  MaxPushes = 2
  MaxOptions = 1
  Issues = {i1, i2, i3}
  IssueTool <- MCIssueTool
  IssueLine <- MCIssueLine
  Writers = {w1, w2}
  MaxRenders = 2
  MaxReviews = 3
  MaxGitHub = 1
  Severities = {1, 4}
  Criticalities = {0, 5}
  Vectors <- MCVectors
  Postures <- MCPostures
  PutWeights = {1, 20, 40}
  MaxRows = 1
  Estate = {t1, t2}
  Detections = {d1, d2}
  OnTarget <- MCOnTarget
  SevWeight <- MCSevWeight
  MaxDay = 2
  TREND_WINDOW_DAYS = 1
  COVERAGE_WINDOW_DAYS = 1
  MaxEvents = 4
SYMMETRY Symmetry
INVARIANTS
  HealthyMeansChecked SeededWhole WarmCopyKept
  ReportsTheEdit AllClearIsClear ExaminesImporters
  CommentAgrees
  ScoreExplained LearningNeverLowers
  WorseningIsReal CompositeIsMean
CHECK_DEADLOCK FALSE
