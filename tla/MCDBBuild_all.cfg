SPECIFICATION Spec
CONSTANTS
  NoSwap = NoSwap
  Keys = {1, 2, 3, 4, 5, 6, 7, 8, 9, 10}
  CVEs = {"CVE-1", "CVE-2", "CVE-3"}
  Inputs <- mcInputs
  BatchSizes = {1, 2, 3, 7}
CHECK_DEADLOCK FALSE
INVARIANTS
  ForeignKeys
  StoredOnce
  AmendmentsReach
  GoKept
