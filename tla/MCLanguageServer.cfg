SPECIFICATION FairSpec
CONSTANTS
  Paths = {"p", "q"}
  Uris = {"file:///p", "file:///%70", "file:///q"}
  PathOf <- MCPathOf
  OwnUri <- MCOwnUri
  None = None
  MaxTexts = 2
  MaxMessages = 5
INVARIANTS VersionNamesText DiagnosticsCurrent AnswerIsCurrent
PROPERTY ComesToRest
CHECK_DEADLOCK FALSE
