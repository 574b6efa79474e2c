SPECIFICATION LiveSpec
CONSTANTS
  p1 = p1
  p2 = p2
  d1 = d1
  d2 = d2
  d3 = d3
  NoDir = NoDir
  Procs = {p1}
  Dirs = {d1, d2, d3}
  Client <- SameClient
  DBVersion = 2
  ValidateAge = TRUE
  ValidateChecksum = TRUE
  RequireUpdateCheck = TRUE
  MaxAllowedBuiltAge = 0
  UpdateCheckMaxFrequency = 1
  ListingLag = 0
  MaxTime = 2
  MaxCrashes = 1
  MaxDamage = 0
  Jobs = {"load", "delete"}
PROPERTY
  Recovery
