CONSTANTS
    None = None
    Lower <- MCLower
    EPSSThreshold = 1
    Pools <- MCPools
    Places <- MCPlaces
    Includes <- MCIncludes
    Orders <- MCOrders
    MaxRuns <- MCMaxRuns
    MaxWrites <- MCMaxWrites
    Searches <- MCSearches
    CVEs = {"CVE-1", "cve-1", "CVE-2"}
    FixStates <- MCFixStates
SPECIFICATION SearchSpec
CHECK_DEADLOCK FALSE
INVARIANTS
  StoresFaithful
  CompleteInputs
  DiffExact
  SearchesExact
