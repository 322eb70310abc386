\* Two child runs, one of which may be nested, under a budget of two calls; one slot each.
CONSTANTS
  root = root
  c1 = c1
  c2 = c2
  c3 = c3
  Runs <- TwoChildren
  Root = root
  MaxTaskDepth = 2
  Concurrency = 1
  MaxCost = 2
  Dedicated <- Generous
  MaxCallCost = 1
  RunBudget = 2
SPECIFICATION FairSpec
INVARIANT SlotsAccounted
PROPERTIES ResultsAreFinal RunsEnd
CHECK_DEADLOCK FALSE
