SPECIFICATION Spec
CONSTANTS
  Formats = {"rpm", "pacman", "deb", "gem", "portage", "kb", "semantic", "apk", "maven", "bitnami", "go", "python", "jvm", "unknown"}
  Askers = {"rpm", "semantic", "unknown"}
  Fixes <- mcFixes
  Texts <- mcTexts
  Strategies = {"", "auto", "zero"}
CHECK_DEADLOCK FALSE
INVARIANTS
  ComparatorsSound
PROPERTIES
  SameQuestion
  SatisfiedMeans
