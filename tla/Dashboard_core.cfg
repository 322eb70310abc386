SPECIFICATION Spec
CONSTANTS
  Sessions = 2
  MaxWork = 2
  MaxPerGroup = 2
  Ends = {"completed"}
  Torn = FALSE
  CoarseTime = TRUE
INVARIANTS TailIsExact LaunchesPairOnce
PROPERTY DeadRowsSettle
