SPECIFICATION Spec
CONSTANTS
  file1 = file1
  file2 = file2
  Files <- MCFiles
  Batches <- MCBatches
  MaxIter = 3
  Deadlines = {1, 2}
  GracePeriod = 1
  NudgeAfter = 1
  ReadRepeats = 3
  ToolRepeats = 3
  EditRepeats = 4
  LoopWindow = 2
  LoopRepeats = 2
  StreakLimit = 2
  KeepRecent = 1
  RollInterval = 1
  Attempts = 2
  MaxChanges = 1
INVARIANTS DeadlineOnlyWithoutEdits IdlingIsBounded
PROPERTY LoopReturns
