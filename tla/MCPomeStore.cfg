SPECIFICATION Spec
CONSTANTS
  Commands = {c1, c2}
  Pomes = {"a", "b"}
  MaxVersion = 2
  Contents = {1, 2}
  Manifest <- MCManifest
  Private = {"b"}
  None = None
  MaxRuns = 3
  MaxMoves = 1
INVARIANTS CopiesRecorded BuildMeetsRequirements LeavesConsistent BuildFilesStay
SYMMETRY CommandsSymmetry
CHECK_DEADLOCK FALSE
