SPECIFICATION Spec
CONSTANTS
  p1 = p1
  d1 = d1
  None = None
  Pkgs = {p1, d1}
  Fixes = {0, 1, 2}
  DetailIDs = {"github", "nvd", "debian", "vex"}
  Globs = {"/l*"}
  CVEs = {"CVE-1"}
  Refs <- mcRefs
  NameOf <- mcNameOf
  PathsOf <- mcPathsOf
  OwnersOf <- mcOwnersOf
  StateOf <- mcStateOf
  NameMatches <- mcNameMatches
  PathMatches <- mcPathMatches
  Calls <- mcCalls
  Outcomes <- mcOutcomes
  Exclusions <- mcExclusions
  SeverityOf <- mcSeverityOf
  Options <- mcOptions
INVARIANTS
  Conserved
  NegativesRespected
  RulesHonoured
  VexHonoured
  PartialNotReported
CHECK_DEADLOCK FALSE
