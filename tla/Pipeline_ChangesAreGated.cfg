\* ChangesAreGated is documented; the code violates it.
CONSTANTS
  Stages <- DiamondStages
  Agents <- DiamondAgents
  StageOf <- DiamondStageOf
  DependsOn <- DiamondDependsOn
  PreGates <- DiamondPreGates
  Gates <- DiamondGates
  StageMaxCost <- DiamondStageMaxCost
  Partitioned = {"review"}
  NoStage = NoStage
  MaxCost = 2
  MaxCallCost = 1
  RunBudget = 2
  GitRepo = TRUE
SPECIFICATION Spec
INVARIANTS
  ChangesAreGated
