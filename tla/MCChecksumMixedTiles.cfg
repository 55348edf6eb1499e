SPECIFICATION Spec
CONSTANTS
  TILE_HEIGHT = 2
  Clients = {c1}
  MaxSize = 4
  MaxLookups = 2
  MaxTree = 1
INVARIANT ForkIsCaught
