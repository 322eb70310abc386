\* Concurrency: two tiers with two goroutines each, every pre-gate and gate policy, fair goroutines.
CONSTANTS
  Stages <- DiamondStages
  Agents <- DiamondAgents
  StageOf <- DiamondStageOf
  DependsOn <- DiamondDependsOn
  PreGates <- DiamondPreGates
  Gates <- DiamondGates
  StageMaxCost <- DiamondStageMaxCost
  Partitioned = {"review"}
  MaxCost = 2
  MaxCallCost = 1
  RunBudget = 2
  GitRepo = TRUE
  NoStage = NoStage
SPECIFICATION FairSpec
INVARIANTS ReportIsHonest UncommittedWorkGated
PROPERTIES SpentIsSound ImplementsStageGraph RunReturns
