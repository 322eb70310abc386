\* Three shards in a pool of two, both policies, fair goroutines.
CONSTANTS
  ShardCount = 3
  MaxParallel = 2
  RequireActionable = TRUE
  MaxCost = 1
  MaxCallCost = 1
  RunBudget = 1
SPECIFICATION FairSpec
CHECK_DEADLOCK FALSE
INVARIANTS StopBoundsFailures OutcomesAreHonest
PROPERTY RunReturns
