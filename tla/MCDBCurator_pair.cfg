SPECIFICATION Spec
CONSTANTS
  p1 = p1
  p2 = p2
  d1 = d1
  d2 = d2
  d3 = d3
  NoDir = NoDir
  Procs = {p1, p2}
  Dirs = {d1, d2, d3}
  Client <- MixedClients
  DBVersion = 2
  ValidateAge = TRUE
  ValidateChecksum = TRUE
  RequireUpdateCheck = TRUE
  MaxAllowedBuiltAge = 5
  UpdateCheckMaxFrequency = 1
  ListingLag = 0
  MaxTime = 2
  MaxCrashes = 1
  MaxDamage = 0
  Jobs = {"load", "delete"}
SYMMETRY SymDirs
INVARIANTS
  TypeOK
  ChecksumSound
  TempPrivate
  ReaderStable
PROPERTY
  ImplementsServedDB
