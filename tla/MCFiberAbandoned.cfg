SPECIFICATION FairSpec
CONSTANTS
  NFibers = 2
  NScopes = 1
  NDeferreds = 1
  MaxOps <- MainHasFour
  MaxDepth = 2
  HostEvery = 2
  Ops = {"scope", "fork", "with", "join", "host", "idle"}
PROPERTY RunEnds
