SPECIFICATION Spec
CONSTANTS
  p1 = p1
  p2 = p2
  a = a
  b = b
  Pkgs = {p1, p2}
  Fixes = {0, 1, 2}
  DetailIDs = {"d", "i", "c"}
  Refs <- mcRefs
  Colls = {a, b}
  Inputs <- mcInputs
  MaxAdds = 4
CHECK_DEADLOCK FALSE
INVARIANTS
  IndexesAgree
  DetailsKept
PROPERTIES
  DirectStays
