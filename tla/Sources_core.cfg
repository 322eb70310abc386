SPECIFICATION Spec
CONSTANTS
  Procs = {"p1"}
  Commands <- MCEverything
  Urls <- MCUrls
  FileUrl <- MCFileUrl
  Other <- MCOther
  Token = "none"
  NetFails = TRUE
  MaxHead = 1
  MaxRuns = 4
INVARIANT TypeOK UpdatesReach
PROPERTY PinsFreeze
CHECK_DEADLOCK FALSE
