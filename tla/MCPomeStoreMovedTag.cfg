SPECIFICATION Spec
CONSTANTS
  Commands = {c1}
  Pomes = {"a", "b"}
  MaxVersion = 2
  Contents = {1, 2}
  Manifest <- MCManifest
  Private = {"b"}
  None = None
  MaxRuns = 4
  MaxMoves = 1
INVARIANT BuildAsLocked
CHECK_DEADLOCK FALSE
