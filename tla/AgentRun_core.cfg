SPECIFICATION Spec
CONSTANTS
  Runs <- Runs2
  Options <- MCOptions
  Directories <- MCDirectories
  Texts <- MCTexts
  MaxIter = 2
  Deadline = 1
  ReadRepeats = 2
  EditRepeats = 2
CHECK_DEADLOCK FALSE
INVARIANTS StatusIsOutcome ReportsAreBacked ResumesContinue
