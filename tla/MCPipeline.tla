----------------------------- MODULE MCPipeline -----------------------------
(***************************************************************************)
(* Instances of Pipeline for TLC.  Diamond: a plan stage with two parallel *)
(* agents, then an edit stage and a partitioned review in one tier.        *)
(* Chain: three stages of one agent each.                                  *)
(***************************************************************************)
EXTENDS Pipeline

DiamondStages == {"plan", "edit", "review"}
DiamondAgents == {"p1", "p2", "e1", "r1"}
DiamondStageOf == [a \in DiamondAgents |->
  CASE a \in {"p1", "p2"} -> "plan" [] a = "e1" -> "edit" [] a = "r1" -> "review"]
DiamondDependsOn == [s \in DiamondStages |->
  IF s = "plan" THEN {} ELSE {"plan"}]
DiamondPreGates == [s \in DiamondStages |->
  CASE s = "plan" -> <<"continue">> [] s = "edit" -> <<"continue", "stop">> [] s = "review" -> <<>>]
DiamondGates == [s \in DiamondStages |->
  CASE s = "plan" -> <<"stop">> [] s = "edit" -> <<"revert">> [] s = "review" -> <<>>]
DiamondStageMaxCost == [s \in DiamondStages |-> IF s = "edit" THEN 1 ELSE 0]

ChainStages == {"plan", "edit", "merge"}
ChainAgents == {"a1", "a2", "a3"}
ChainStageOf == [a \in ChainAgents |->
  CASE a = "a1" -> "plan" [] a = "a2" -> "edit" [] a = "a3" -> "merge"]
ChainDependsOn == [s \in ChainStages |->
  CASE s = "plan" -> {} [] s = "edit" -> {"plan"} [] s = "merge" -> {"plan", "edit"}]
ChainPreGates == [s \in ChainStages |-> IF s = "merge" THEN <<"skip">> ELSE <<>>]
ChainGates == [s \in ChainStages |->
  IF s = "edit" THEN <<"stop", "revert">> ELSE <<>>]
ChainStageMaxCost == [s \in ChainStages |-> IF s = "edit" THEN 2 ELSE 0]

=============================================================================
