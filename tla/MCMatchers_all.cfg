SPECIFICATION Spec
CONSTANTS
    None = None
    UnknownVersion = UnknownVersion
    Scenarios <- MCScenarios
    MaxHandles = 4
CHECK_DEADLOCK FALSE
INVARIANTS
  DenialsHonoured
  DisclosuresKept
  FixesRight
  RowsOfTheDistro
