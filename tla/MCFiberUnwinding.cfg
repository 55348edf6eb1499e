SPECIFICATION FairSpec
CONSTANTS
  NFibers = 3
  NScopes = 1
  NDeferreds = 1
  MaxOps <- MainHasFour
  MaxDepth = 2
  HostEvery = 2
  Ops = {"scope", "fork", "with", "deferred", "complete", "get", "join", "interrupt", "pause", "host", "idle"}
PROPERTIES RunEndsOrAbandoned 
