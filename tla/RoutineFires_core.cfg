\* Two fires at a time, one of them perhaps run-now; one slot, two starts, two instants, two reloads.
CONSTANTS
  Routines <- Two
  Period <- Periods
  CatchUp = {"hourly"}
  MaxConcurrent = 1
  MaxFires = 2
  MaxManual = 1
  MaxJobs = 3
  MaxTime = 2
  MaxStarts = 2
SPECIFICATION FairSpec
CHECK_DEADLOCK FALSE
INVARIANTS RunningIsTrue LastRunIsLatest
PROPERTY OwedIsServed
