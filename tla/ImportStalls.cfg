SPECIFICATION FairSpec
CONSTANTS
  Parts = {"link"}
  w1 = w1
  w2 = w2
  a1 = a1
  a2 = a2
  p1 = p1
  p2 = p2
  MaxUnusual = 2
  NoName = NoName
  Cves = {a1, a2}
  Packages = {p1, p2}
  MaxVersion = 2
  OsvAnswers <- MCAnswers
  OwnPackages = {p1}
  Raisers = {w1, w2}
  MaxClicks = 1
  MaxRescans = 1
  FixFaults = 1
  Repos = {a1, a2}
  JobTools = {"semgrep", "trivy"}
  Hands = {w1, w2}
  MaxIntegrate = 1
  MaxToggles = 1
  PipeFaults = 1
  Deps <- MCDeps
  GraphLists <- MCGraphLists
  UploadLists <- MCUploadLists
  Jobs = {w1, w2}
  CHUNK_SIZE = 1
  MAX_RETRIES = 1
  MaxVerdicts = 1
  MaxRulings = 1
  SbomFaults = 1
  Tenants <- MCTenants
  FirstTenant = "ws1"
  Places = {"r1", "r2"}
  AccountOf <- MCAccountOf
  Syncs = {w1}
  MaxApps = 2
  MaxAdmin = 3
PROPERTY GrantedIsImported
CHECK_DEADLOCK FALSE
