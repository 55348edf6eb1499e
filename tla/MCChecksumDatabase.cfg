SPECIFICATION Spec
CONSTANTS
  TILE_HEIGHT = 2
  Clients = {c1, c2}
  MaxSize = 4
  MaxLookups = 2
  MaxTree = 21
INVARIANTS AcceptedInTree HonestNeverRefused OneHistoryKept TilesGiveRoots
SYMMETRY Clients2
