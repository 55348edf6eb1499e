SPECIFICATION Spec
CONSTANTS
  NFibers = 3
  NScopes = 2
  NDeferreds = 1
  MaxOps <- OneChildIsShort
  MaxDepth = 3
  HostEvery = 2
  Ops = {"scope", "fork", "with", "attempt", "join", "await", "interrupt", "pause", "host",
         "deferred", "complete", "get", "fail", "die", "raise"}
INVARIANTS OneContinuation NoSleepThroughInterrupt NoLostWakeup InterruptStaysInScope LifetimesNest NoFailureLost
PROPERTIES ReleaseUninterrupted ImplementsScopes
