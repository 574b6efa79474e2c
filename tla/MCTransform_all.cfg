SPECIFICATION Spec
CONSTANTS
    None = None
    UnknownVersion = UnknownVersion
    PseudoVersions = {4}
    rhelMinorSpan <- MCSpan
    CPEParts = {"a"}
    InferNVDFixVersions = TRUE
    PackageSpecs = {"lib"}
    SupportedDistros <- MCSupported
    ProductNames <- MCProductNames
    MaxVersion = 5
    MaxDistros = 2
    OSVRecords <- MCOSVRecords
    OSRecords <- MCOSRecords
    NVDRecords <- MCNVDRecords
    CSAFAdvisories <- MCCSAFAdvisories
    OpenVEXStatements <- MCOpenVEXStatements
    GitHubAdvisories <- MCGitHubAdvisories
    MSRCUpdates <- MCMSRCUpdates
    EOLReleases <- MCEOLReleases
    KEVs <- MCKEVs
    EPSSs <- MCEPSSs
INVARIANTS
  RangesExact
  HostsServed
  NVDExact
  VEXExact
  BuiltInOneOrder
