SPECIFICATION Spec
CONSTANTS
    None = None
    UnknownVersion = UnknownVersion
    NotSemver = NotSemver
    Garbage = Garbage
    VersionPrefixes <- MCPrefixes
    MaxSBOMEntries = 2
    Rank <- MCRank
    VersionLength = 12
    MaxVersionFieldLength = 30
    NVD <- MCNVD
    Requests <- MCRequests
    Vulns <- MCVulns
    EOL <- MCEOL
    Explained <- MCExplained
INVARIANTS
  EndsClean
  PackagesRight
  ReportsComplete
PROPERTIES
  Terminates
