SPECIFICATION FairSpec
CONSTANTS
  NTasks = 2
  GenCount = 3
  MaxCompletions = 2
  MaxRuns = 2
INVARIANTS TableRight RecordsSafe NothingLost
PROPERTY CompletionArrives
