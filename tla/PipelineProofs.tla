--------------------------- MODULE PipelineProofs ---------------------------
(***************************************************************************)
(* Theorems about Pipeline for every pipeline: any acyclic stage graph,    *)
(* any number of agents, gates and pre-gates, any budget.                  *)
(***************************************************************************)
EXTENDS Pipeline, TLAPS

USE DEF PipelineWellFormed, NoCycle, runVars, budgetVars, money, vars

\* What Run relies on after wg.Wait: the tier's results are final, and gates
\* run for a stage.
TierWaitedFor ==
  /\ runner \in {"collect", "gates"} => \A s \in tier : stage[s] \in StageFinal
  /\ runner = "gates" => current \in Stages

LEMMA TypeInvInit == Init => TypeOK /\ TierWaitedFor
  BY PipelineAssumption
     DEF Init, TypeOK, TierWaitedFor, Statuses, StageFinal, AgentFinal, Active, Edits

\* A step of Run keeps the types.
LEMMA TypeRunnerStep ==
  ASSUME TypeOK, TierWaitedFor, RunnerStep PROVE TypeOK' /\ TierWaitedFor'
<1> USE PipelineAssumption DEF TypeOK, TierWaitedFor
<1>1. CASE StartTier
  BY <1>1 DEF StartTier, Ready, StageFinal
<1>2. CASE Finish
  BY <1>2 DEF Finish
<1>3. CASE TierDone
  BY <1>3 DEF TierDone
<1>4. ASSUME NEW s \in Stages, Collect(s) PROVE TypeOK' /\ TierWaitedFor'
  <2>1. stage[s] \in Statuses
    BY <1>4 DEF Collect, Statuses, StageFinal
  <2> QED BY <1>4, <2>1 DEF Collect
<1>5. CASE SkipGates
  BY <1>5 DEF SkipGates, GatesReturn
<1>6. CASE GatePasses
  BY <1>6 DEF GatePasses, GateRunning
<1>7. CASE GatesPassed
  <2>1. gated' \subseteq Stages
    BY <1>7 DEF GatesPassed
  <2> QED BY <1>7, <2>1 DEF GatesPassed, GatesReturn
<1>8. CASE GateFails
  <2>1. completed' \in [Stages -> Statuses]
    BY <1>8 DEF GateFails, Statuses
  <2> QED BY <1>8, <2>1 DEF GateFails
<1> QED BY <1>1, <1>2, <1>3, <1>4, <1>5, <1>6, <1>7, <1>8 DEF RunnerStep

\* A step of a stage goroutine keeps the types, and leaves final stages alone.
LEMMA TypeStageStep ==
  ASSUME TypeOK, TierWaitedFor, NEW s \in Stages, StageStep(s)
  PROVE  TypeOK' /\ TierWaitedFor'
<1> USE PipelineAssumption DEF TypeOK, TierWaitedFor, StageFinal
<1>1. CASE PreGateContinues(s)
  BY <1>1 DEF PreGateContinues, PreGateRunning
<1>2. CASE PreGateFails(s)
  BY <1>2 DEF PreGateFails, PreGateRunning, EndStage
<1>3. CASE StartAgents(s)
  BY <1>3 DEF StartAgents, PreGatesPassed, Active
<1>4. CASE ExpandFails(s)
  BY <1>4 DEF ExpandFails, PreGatesPassed, EndStage
<1>5. CASE ExpandEmpty(s)
  BY <1>5 DEF ExpandEmpty, PreGatesPassed, EndStage
<1>6. CASE FinishStage(s)
  BY <1>6 DEF FinishStage, EndStage
<1> QED BY <1>1, <1>2, <1>3, <1>4, <1>5, <1>6 DEF StageStep

\* A step of an agent goroutine keeps the types.
LEMMA TypeAgentStep ==
  ASSUME TypeOK, TierWaitedFor, NEW a \in Agents, AgentStep(a)
  PROVE  TypeOK' /\ TierWaitedFor'
<1> USE PipelineAssumption DEF TypeOK, TierWaitedFor, MoveAgent
<1>1. CASE CheckBudget(a)
  BY <1>1 DEF CheckBudget, Active, AgentFinal
<1>2. CASE InitSpent(a)
  BY <1>2 DEF InitSpent, Active
<1>3. CASE InvokeAgent(a)
  BY <1>3 DEF InvokeAgent, EffectiveCap, RemainingBudget, Least, Active
<1>4. CASE CallbackFails(a)
  BY <1>4 DEF CallbackFails, AgentFinal
<1>5. CASE ModelCall(a)
  <2>1. used' \in [Agents -> Nat] /\ total' \in Nat
    BY <1>5 DEF ModelCall
  <2>2. tree' \in [Stages -> Edits]
    BY <1>5 DEF ModelCall, EditTree, Edits
  <2> QED BY <1>5, <2>1, <2>2 DEF ModelCall
<1>6. CASE ModelReturns(a)
  BY <1>6 DEF ModelReturns, Active
<1>7. CASE RecordSpend(a)
  <2>1. agent' \in [Agents -> Active \cup AgentFinal \cup {"idle"}]
    BY <1>7 DEF RecordSpend, Record, Active, AgentFinal
  <2>2. spent' \in Nat
    BY <1>7 DEF RecordSpend, Record
  <2> QED BY <1>7, <2>1, <2>2 DEF RecordSpend, Record
<1>8. CASE FinalCall(a)
  <2>1. used' \in [Agents -> Nat] /\ total' \in Nat
    BY <1>8 DEF FinalCall
  <2>2. agent' \in [Agents -> Active \cup AgentFinal \cup {"idle"}]
    BY <1>8 DEF FinalCall, Active
  <2> QED BY <1>8, <2>1, <2>2 DEF FinalCall
<1>9. CASE Hang(a)
  BY <1>9 DEF Hang, Active
<1> QED BY <1>1, <1>2, <1>3, <1>4, <1>5, <1>6, <1>7, <1>8, <1>9 DEF AgentStep

\* TypeOK holds in every reachable state.
THEOREM TypeCorrect == Spec => []TypeOK
<1>1. TypeOK /\ TierWaitedFor /\ [Next]_vars => TypeOK' /\ TierWaitedFor'
  <2> SUFFICES ASSUME TypeOK, TierWaitedFor, [Next]_vars
               PROVE  TypeOK' /\ TierWaitedFor'
    OBVIOUS
  <2>1. CASE UNCHANGED vars \/ Returned
    BY <2>1 DEF Returned, TypeOK, TierWaitedFor
  <2> QED
    BY <2>1, TypeRunnerStep, TypeStageStep, TypeAgentStep DEF Next
<1> QED BY TypeInvInit, <1>1, PTL DEF Spec

-----------------------------------------------------------------------------
(***************************************************************************)
(* The inductive invariant behind the safety properties.                   *)
(***************************************************************************)

\* Tiers are taken in dependency order, and a stage goroutine exists exactly
\* for the stages of the tiers taken so far.
TierOrder ==
  /\ tier \subseteq placed
  /\ \A s \in Stages : stage[s] = "waiting" <=> s \notin placed
  /\ \A s \in placed : DependsOn[s] \subseteq placed \ tier

\* Everything that runs belongs to the current tier and Run waits for it.
Barrier ==
  /\ runner # "wait" => \A s \in placed : stage[s] \in StageFinal
  /\ \A s \in placed \ tier : stage[s] \in StageFinal
  /\ \A a \in Agents : agent[a] \in Active => stage[StageOf[a]] = "running"

\* The report covers the earlier tiers completely and copies the results.
ReportState ==
  /\ \A s \in placed \ tier : Cleared(s)
  /\ \A s \in Stages \ placed : reported[s] = "absent"
  /\ \A s \in Stages : reported[s] # "absent" =>
       stage[s] \in StageFinal /\ reported[s] = stage[s]
  /\ \A s \in Stages : reported[s] = "failed" =>
       runner = "done" /\ outcome = "failed" /\ s = current
  /\ \A s \in Stages : completed[s] # reported[s] =>
       runner = "done" /\ outcome = "failed" /\ s = current

\* Where Run is determines what has been reported.
RunnerState ==
  /\ runner \in {"next", "wait", "collect"} => current = NoStage
  /\ runner = "wait" => \A s \in tier : reported[s] = "absent"
  /\ runner = "next" => \A s \in placed : Cleared(s)
  /\ runner = "gates" => current \in tier /\ reported[current] # "absent"
  /\ runner = "done" /\ outcome = "passed" =>
       placed = Stages /\ \A s \in Stages : Cleared(s)
  /\ outcome = "failed" =>
       /\ runner = "done"
       /\ current \in tier
       /\ reported[current] = "failed" \/ Gates[current] # <<>>

OrderInv == TypeOK /\ TierOrder /\ Barrier /\ ReportState /\ RunnerState

LEMMA OrderInit == Init => OrderInv
  BY TypeInvInit, PipelineAssumption
     DEF Init, OrderInv, TierOrder, Barrier, ReportState, RunnerState, Active

\* Kahn's loop stops only when every stage is placed, because the graph has
\* no cycle.
LEMMA NothingReadyMeansAllPlaced ==
  ASSUME placed \subseteq Stages, Ready = {} PROVE placed = Stages
<1>1. SUFFICES ASSUME Stages \ placed # {} PROVE FALSE
  OBVIOUS
<1>2. PICK s \in Stages \ placed : DependsOn[s] \cap (Stages \ placed) = {}
  BY <1>1, Acyclic
<1>3. s \in Ready
  BY <1>2, PipelineAssumption DEF Ready
<1> QED BY <1>3

\* One lemma per group of actions: Run's own steps.
LEMMA OrderRunnerStep ==
  ASSUME OrderInv, TypeOK', RunnerStep PROVE OrderInv'
<1> USE PipelineAssumption DEF OrderInv, Cleared
<1>1. CASE StartTier
  <2>1. TierOrder'
    BY <1>1 DEF StartTier, Ready, TierOrder, TypeOK
  <2>2. Barrier'
    BY <1>1 DEF StartTier, Ready, TierOrder, Barrier, TypeOK, StageFinal
  <2>3. ReportState' /\ RunnerState'
    BY <1>1 DEF StartTier, Ready, TierOrder, Barrier, ReportState, RunnerState,
       TypeOK, StageFinal
  <2> QED BY <2>1, <2>2, <2>3
<1>2. CASE Finish
  <2>1. placed = Stages
    BY <1>2, NothingReadyMeansAllPlaced DEF Finish, TypeOK
  <2> QED BY <1>2, <2>1
          DEF Finish, TypeOK, TierOrder, Barrier, ReportState, RunnerState
<1>3. CASE TierDone
  BY <1>3 DEF TierDone, TypeOK, TierOrder, Barrier, ReportState, RunnerState
<1>4. ASSUME NEW s \in Stages, Collect(s) PROVE OrderInv'
  <2>1. TierOrder' /\ Barrier'
    BY <1>4 DEF Collect, TierOrder, Barrier, TypeOK
  <2>2. stage[s] \in StageFinal /\ s \in placed /\ reported[s] = "absent"
        /\ s # NoStage /\ current = NoStage /\ outcome = "passed"
    BY <1>4 DEF Collect, TierOrder, Barrier, RunnerState, TypeOK
  <2>3. ReportState'
    BY <1>4, <2>2 DEF Collect, TierOrder, ReportState, RunnerState, TypeOK, StageFinal
  <2>4. RunnerState'
    BY <1>4, <2>2 DEF Collect, RunnerState, TypeOK, StageFinal
  <2> QED BY <2>1, <2>3, <2>4
<1>5. ASSUME GatesReturn, runner = "gates", TierOrder', Barrier'
      PROVE  ReportState' /\ RunnerState'
  <2>1. \A s \in placed : reported[s] # "absent" => Cleared(s)'
    BY <1>5 DEF GatesReturn, ReportState, RunnerState, TypeOK, StageFinal, Statuses, TierOrder
  <2>2. ReportState'
    BY <1>5, <2>1 DEF GatesReturn, ReportState, RunnerState, TypeOK, StageFinal
  <2>3. RunnerState'
    BY <1>5, <2>1 DEF GatesReturn, ReportState, RunnerState, TypeOK, StageFinal
  <2> QED BY <2>2, <2>3
<1>6. CASE SkipGates
  <2>1. TierOrder' /\ Barrier'
    BY <1>6 DEF SkipGates, GatesReturn, TierOrder, Barrier
  <2> QED BY <1>5, <1>6, <2>1 DEF SkipGates
<1>7. CASE GatePasses
  BY <1>7 DEF GatePasses, GateRunning, TierOrder, Barrier, ReportState, RunnerState
<1>8. CASE GatesPassed
  <2>1. TierOrder' /\ Barrier'
    BY <1>8 DEF GatesPassed, GatesReturn, TierOrder, Barrier
  <2> QED BY <1>5, <1>8, <2>1 DEF GatesPassed
<1>9. CASE GateFails
  <2>1. Gates[current] # <<>> /\ current \in tier
    BY <1>9 DEF GateFails, GateRunning, RunnerState, TypeOK
  <2>2. TierOrder' /\ Barrier'
    BY <1>9 DEF GateFails, GateRunning, TierOrder, Barrier
  <2>3. ReportState'
    BY <1>9, <2>1 DEF GateFails, GateRunning, ReportState, RunnerState, TypeOK
  <2>4. RunnerState'
    BY <1>9, <2>1 DEF GateFails, GateRunning, RunnerState
  <2> QED BY <2>2, <2>3, <2>4
<1> QED BY <1>1, <1>2, <1>3, <1>4, <1>6, <1>7, <1>8, <1>9 DEF RunnerStep

\* A stage goroutine's step: it belongs to the tier Run waits for.
LEMMA OrderStageStep ==
  ASSUME OrderInv, TypeOK', NEW s \in Stages, StageStep(s) PROVE OrderInv'
<1> USE PipelineAssumption
<1>1. stage[s] \in {"preGates", "running"}
  BY DEF StageStep, PreGateContinues, PreGateFails, StartAgents, ExpandFails,
     ExpandEmpty, FinishStage, PreGateRunning, PreGatesPassed
<1>2. s \in tier /\ runner = "wait" /\ reported[s] = "absent"
  BY <1>1 DEF OrderInv, TierOrder, Barrier, RunnerState, StageFinal
<1>3. /\ stage' = [stage EXCEPT ![s] = stage'[s]]
      /\ stage'[s] # "waiting"
      /\ UNCHANGED runVars
  BY DEF OrderInv, TypeOK, StageStep, PreGateContinues, PreGateFails, StartAgents,
     ExpandFails, ExpandEmpty, FinishStage, PreGateRunning, PreGatesPassed, EndStage
<1>4. TierOrder'
  BY <1>2, <1>3 DEF OrderInv, TierOrder, TypeOK
<1>5. \A a \in Agents : agent'[a] \in Active => stage'[StageOf[a]] = "running"
  <2> USE DEF OrderInv, TypeOK, Barrier
  <2>1. CASE PreGateContinues(s)
    BY <2>1 DEF PreGateContinues
  <2>2. CASE PreGateFails(s) \/ ExpandFails(s) \/ ExpandEmpty(s)
    BY <2>2 DEF PreGateFails, PreGateRunning, ExpandFails, ExpandEmpty, PreGatesPassed, EndStage
  <2>3. CASE StartAgents(s)
    BY <2>3 DEF StartAgents, PreGatesPassed, AgentsOf
  <2>4. CASE FinishStage(s)
    BY <2>4 DEF FinishStage, EndStage, AgentsOf
  <2> QED BY <2>1, <2>2, <2>3, <2>4 DEF StageStep
<1>6. Barrier'
  BY <1>2, <1>3, <1>5 DEF OrderInv, Barrier, TypeOK
<1>7. ReportState'
  BY <1>2, <1>3 DEF OrderInv, ReportState, TypeOK, Cleared
<1>8. RunnerState'
  BY <1>3 DEF OrderInv, RunnerState, Cleared
<1> QED BY <1>4, <1>6, <1>7, <1>8 DEF OrderInv

\* An agent goroutine's step: it was active before it.
LEMMA OrderAgentStep ==
  ASSUME OrderInv, TypeOK', NEW a \in Agents, AgentStep(a) PROVE OrderInv'
<1>1. /\ agent[a] \in Active
      /\ \A b \in Agents \ {a} : agent'[b] = agent[b]
      /\ UNCHANGED <<runVars, stage>>
  BY DEF OrderInv, TypeOK, AgentStep, CheckBudget, InitSpent, InvokeAgent, CallbackFails,
     ModelCall, FinalCall, ModelReturns, Hang, RecordSpend, Record, MoveAgent, Active
<1>2. Barrier'
  BY <1>1 DEF OrderInv, Barrier
<1> QED BY <1>1, <1>2 DEF OrderInv, TierOrder, ReportState, RunnerState, Cleared

LEMMA OrderInvariant == Spec => []OrderInv
<1>1. OrderInv /\ TypeOK' /\ [Next]_vars => OrderInv'
  <2> SUFFICES ASSUME OrderInv, TypeOK', [Next]_vars PROVE OrderInv'
    OBVIOUS
  <2>1. CASE UNCHANGED vars \/ Returned
    BY <2>1 DEF Returned, OrderInv, TypeOK, TierOrder, Barrier, ReportState, RunnerState, Cleared
  <2> QED
    BY <2>1, OrderRunnerStep, OrderStageStep, OrderAgentStep DEF Next
<1> QED BY OrderInit, <1>1, TypeCorrect, PTL DEF Spec

\* No stage goroutine exists before all its dependencies were collected,
\* without failure, and passed their gates.
THEOREM DependenciesAreCleared == Spec => []DependenciesCleared
<1>1. OrderInv => DependenciesCleared
  BY PipelineAssumption
     DEF OrderInv, TierOrder, ReportState, DependenciesCleared, Started, Cleared, TypeOK,
         RunnerState
<1> QED BY OrderInvariant, <1>1, PTL

\* Gates, the report and the return of Run never overlap a running agent.
THEOREM QuiescenceOutsideTier == Spec => []QuiescentOutsideTier
<1>1. OrderInv => QuiescentOutsideTier
  BY PipelineAssumption
     DEF OrderInv, TierOrder, Barrier, QuiescentOutsideTier, StageFinal, TypeOK
<1> QED BY OrderInvariant, <1>1, PTL

\* A run that reports success ran and cleared every stage of the pipeline; one
\* that reports failure stopped at one stage, which failed or was gated.
THEOREM ReportHonest == Spec => []ReportIsHonest
<1>1. OrderInv => PassedReportComplete
  BY DEF OrderInv, ReportState, RunnerState, PassedReportComplete, Cleared, TypeOK
<1>2. OrderInv => FailedReportNamesCulprit
  BY DEF OrderInv, TypeOK, ReportState, RunnerState, FailedReportNamesCulprit, StageFinal
<1>3. OrderInv => ReportIsHonest
  BY <1>1, <1>2 DEF ReportIsHonest
<1> QED BY OrderInvariant, <1>3, PTL

-----------------------------------------------------------------------------
(***************************************************************************)
(* Refinement: the runner implements StageGraph.                           *)
(***************************************************************************)

\* A step that leaves the tiers and the report alone is a stutter.
LEMMA StutterPhase ==
  ASSUME UNCHANGED <<placed, reported, current, outcome>> PROVE UNCHANGED phaseBar
  BY DEF phaseBar, Cleared

\* Taking a tier starts its stages, all of whose dependencies are cleared.
LEMMA StartTierStarts ==
  ASSUME OrderInv, StartTier PROVE SG!Start(Ready)
<1> USE PipelineAssumption DEF OrderInv
<1>1. outcome = "passed" /\ current = NoStage /\ \A s \in placed : Cleared(s)
  BY DEF StartTier, RunnerState, TypeOK
<1>2. \A s \in Stages : phaseBar[s] = IF s \in placed THEN "cleared" ELSE "waiting"
  BY <1>1 DEF phaseBar
<1>3. \A s \in Stages : phaseBar'[s] = IF s \in placed THEN "cleared"
                                       ELSE IF s \in Ready THEN "started" ELSE "waiting"
  <2>1. \A s \in Stages : Cleared(s)' = Cleared(s)
    BY DEF StartTier, Cleared
  <2>2. \A s \in Stages \ placed : ~Cleared(s)
    BY DEF ReportState, Cleared
  <2> QED BY <1>1, <2>1, <2>2 DEF phaseBar, StartTier
<1>4. phaseBar' = [s \in Stages |-> IF s \in Ready THEN "started" ELSE phaseBar[s]]
  BY <1>2, <1>3 DEF phaseBar, Ready
<1> QED BY <1>2, <1>4 DEF SG!Start, SG!Rejected, StartTier, Ready, TypeOK

\* The end of a stage's gates, and a failure, judge the current stage.
LEMMA GatesReturnJudges ==
  ASSUME OrderInv, runner = "gates", GatesReturn PROVE SG!Judge(current)
<1> USE PipelineAssumption DEF OrderInv
<1>1. /\ current \in tier /\ current \in Stages /\ current \in placed
      /\ outcome = "passed"
      /\ reported[current] \in {"passed", "skipped"}
  BY DEF RunnerState, ReportState, TierOrder, TypeOK, StageFinal
<1>2. phaseBar' = [phaseBar EXCEPT ![current] = "cleared"]
  BY <1>1 DEF GatesReturn, phaseBar, Cleared
<1>3. phaseBar[current] = "started" /\ ~SG!Rejected
  BY <1>1 DEF phaseBar, Cleared, SG!Rejected
<1> QED BY <1>1, <1>2, <1>3 DEF SG!Judge

LEMMA GateFailsJudges ==
  ASSUME OrderInv, GateFails PROVE SG!Judge(current)
<1> USE PipelineAssumption DEF OrderInv
<1>1. current \in Stages /\ current \in placed /\ outcome = "passed"
  BY DEF GateFails, GateRunning, RunnerState, TierOrder, TypeOK
<1>2. phaseBar' = [phaseBar EXCEPT ![current] = "rejected"]
  BY <1>1 DEF GateFails, phaseBar, Cleared
<1>3. phaseBar[current] = "started" /\ ~SG!Rejected
  BY <1>1 DEF phaseBar, Cleared, SG!Rejected
<1> QED BY <1>1, <1>2, <1>3 DEF SG!Judge

\* Collecting a failed stage rejects it; collecting another is a stutter.
LEMMA CollectJudges ==
  ASSUME OrderInv, NEW s \in Stages, Collect(s)
  PROVE  SG!Judge(s) \/ UNCHANGED phaseBar
<1> USE PipelineAssumption DEF OrderInv
<1>1. /\ current = NoStage /\ outcome = "passed" /\ s \in placed
      /\ reported[s] = "absent" /\ s # NoStage
      /\ stage[s] \in StageFinal
  BY DEF Collect, RunnerState, TierOrder, Barrier, TypeOK
<1>2. phaseBar[s] = "started" /\ ~SG!Rejected
  BY <1>1 DEF phaseBar, Cleared, SG!Rejected
<1>3. \A r \in Stages \ {s} : phaseBar'[r] = phaseBar[r]
  BY <1>1 DEF Collect, phaseBar, Cleared, TypeOK
<1>4. phaseBar'[s] = IF stage[s] = "failed" THEN "rejected" ELSE "started"
  BY <1>1 DEF Collect, phaseBar, Cleared, TypeOK, StageFinal
<1>5. phaseBar' = [phaseBar EXCEPT ![s] = phaseBar'[s]]
  BY <1>3 DEF phaseBar
<1>6. CASE stage[s] = "failed"
  BY <1>2, <1>4, <1>5, <1>6 DEF SG!Judge
<1>7. CASE stage[s] # "failed"
  BY <1>2, <1>4, <1>5, <1>7 DEF phaseBar
<1> QED BY <1>6, <1>7

\* Every behaviour of the runner is, seen as phases, a behaviour of StageGraph.
THEOREM PipelineImplementsStageGraph == Spec => ImplementsStageGraph
<1>1. Init => SG!Init
  BY DEF Init, SG!Init, phaseBar
<1>2. OrderInv /\ [Next]_vars => [SG!Next]_phaseBar
  <2> SUFFICES ASSUME OrderInv, [Next]_vars PROVE SG!Next \/ UNCHANGED phaseBar
    OBVIOUS
  <2>1. CASE StartTier
    BY <2>1, StartTierStarts DEF SG!Next, Ready
  <2>2. ASSUME NEW s \in Stages, Collect(s) PROVE SG!Next \/ UNCHANGED phaseBar
    BY <2>2, CollectJudges DEF SG!Next
  <2>3. CASE SkipGates \/ GatesPassed \/ GateFails
    <3>1. SG!Judge(current)
      BY <2>3, GatesReturnJudges, GateFailsJudges DEF SkipGates, GatesPassed
    <3>2. current \in Stages
      BY <2>3, PipelineAssumption
         DEF OrderInv, RunnerState, TypeOK, SkipGates, GatesPassed, GateFails, GateRunning
    <3> QED BY <3>1, <3>2 DEF SG!Next
  <2>4. CASE Finish \/ TierDone \/ GatePasses \/ Returned \/ UNCHANGED vars
    <3>1. UNCHANGED <<placed, reported, current, outcome>>
      BY <2>4 DEF Finish, TierDone, GatePasses, Returned
    <3> QED BY <3>1, StutterPhase
  <2>5. ASSUME NEW s \in Stages, StageStep(s) PROVE UNCHANGED phaseBar
    <3>1. UNCHANGED <<placed, reported, current, outcome>>
      BY <2>5 DEF StageStep, PreGateContinues, PreGateFails, StartAgents, ExpandFails,
         ExpandEmpty, FinishStage, EndStage
    <3> QED BY <3>1, StutterPhase
  <2>6. ASSUME NEW a \in Agents, AgentStep(a) PROVE UNCHANGED phaseBar
    <3>1. UNCHANGED <<placed, reported, current, outcome>>
      BY <2>6 DEF AgentStep, CheckBudget, InitSpent, InvokeAgent, CallbackFails,
         ModelCall, FinalCall, ModelReturns, Hang, RecordSpend, Record
    <3> QED BY <3>1, StutterPhase
  <2> QED BY <2>1, <2>2, <2>3, <2>4, <2>5, <2>6 DEF Next, RunnerStep
<1> QED
  BY <1>1, <1>2, OrderInvariant, PTL DEF Spec, ImplementsStageGraph, SG!Spec

-----------------------------------------------------------------------------
(***************************************************************************)
(* Uncommitted work is gated before anyone builds on it.                   *)
(***************************************************************************)

\* The gates of a stage passed before it was cleared, if it left a modification.
GatedInv ==
  \A d \in Stages : Cleared(d) /\ tree[d] = "modified" /\ Gates[d] # <<>> => d \in gated

\* A step that clears no stage, and at most commits what a cleared stage left,
\* keeps GatedInv.
LEMMA GatedKept ==
  ASSUME GatedInv, gated \subseteq gated',
         \A d \in Stages :
           Cleared(d)' => Cleared(d) /\ (tree'[d] = tree[d] \/ tree'[d] = "committed")
  PROVE  GatedInv'
BY DEF GatedInv

LEMMA GatedStep == OrderInv /\ GatedInv /\ [Next]_vars => GatedInv'
<1> SUFFICES ASSUME OrderInv, GatedInv, [Next]_vars PROVE GatedInv'
  OBVIOUS
<1> USE PipelineAssumption
<1>1. ASSUME UNCHANGED <<reported, current, gated, tree>> PROVE GatedInv'
  BY <1>1 DEF GatedInv, Cleared
<1>2. ASSUME NEW s \in Stages, Collect(s) PROVE GatedInv'
  <2>1. current = NoStage /\ current' = s /\ UNCHANGED <<gated, tree>>
    BY <1>2 DEF Collect, OrderInv, RunnerState
  <2>2. \A d \in Stages \ {s} : reported'[d] = reported[d] /\ d # NoStage
    BY <1>2 DEF Collect, OrderInv, TypeOK
  <2> QED BY <2>1, <2>2, GatedKept DEF Cleared
<1>3. ASSUME SkipGates PROVE GatedInv'
  <2>1. Gates[current] = <<>> \/ \A d \in Stages : tree[d] # "modified"
    BY <1>3 DEF SkipGates, HasUncommittedChanges
  <2>2. UNCHANGED <<reported, gated, tree>>
    BY <1>3 DEF SkipGates, GatesReturn
  <2> QED BY <2>1, <2>2 DEF GatedInv, Cleared
<1>4. ASSUME GatesPassed PROVE GatedInv'
  <2>1. UNCHANGED <<reported, tree>> /\ gated' = gated \cup {current}
    BY <1>4 DEF GatesPassed, GatesReturn
  <2> QED BY <2>1 DEF GatedInv, Cleared
<1>5. ASSUME RunnerStep PROVE GatedInv'
  <2>1. CASE StartTier \/ Finish \/ TierDone \/ GatePasses \/ GateFails
    <3>1. UNCHANGED <<reported, current, gated, tree>>
      BY <2>1 DEF StartTier, Finish, TierDone, GatePasses, GateFails
    <3> QED BY <1>1, <3>1
  <2> QED BY <1>2, <1>3, <1>4, <1>5, <2>1 DEF RunnerStep
<1>6. ASSUME NEW s \in Stages, StageStep(s) PROVE GatedInv'
  <2>1. UNCHANGED <<reported, current, gated, tree>>
    BY <1>6 DEF StageStep, PreGateContinues, PreGateFails, StartAgents, ExpandFails,
       ExpandEmpty, FinishStage, EndStage
  <2> QED BY <1>1, <2>1
\* Only a running agent edits, and the stage of a running agent is not reported.
<1>7. ASSUME NEW a \in Agents, AgentStep(a) PROVE GatedInv'
  <2>1. UNCHANGED <<reported, current, gated>>
    BY <1>7 DEF AgentStep, CheckBudget, InitSpent, InvokeAgent, CallbackFails, ModelCall,
       FinalCall, ModelReturns, Hang, RecordSpend, Record
  <2>2. CASE ModelCall(a)
    <3>1. stage[StageOf[a]] = "running"
      BY <2>2 DEF ModelCall, Active, OrderInv, Barrier
    <3>2. ~Cleared(StageOf[a])
      BY <3>1 DEF OrderInv, ReportState, Cleared, StageFinal
    <3>3. \A d \in Stages \ {StageOf[a]} : tree'[d] = tree[d] \/ tree'[d] = "committed"
      BY <2>2 DEF ModelCall, EditTree, OrderInv, TypeOK
    <3>4. \A d \in Stages : Cleared(d)' <=> Cleared(d)
      BY <2>1 DEF Cleared
    <3> QED BY <2>1, <3>2, <3>3, <3>4, GatedKept
  <2>3. CASE ~ModelCall(a)
    <3>1. UNCHANGED tree
      BY <1>7, <2>3 DEF AgentStep, CheckBudget, InitSpent, InvokeAgent, CallbackFails,
         FinalCall, ModelReturns, Hang, RecordSpend, Record
    <3> QED BY <1>1, <2>1, <3>1
  <2> QED BY <2>2, <2>3
<1>8. ASSUME Returned \/ UNCHANGED vars PROVE GatedInv'
  BY <1>1, <1>8 DEF Returned
<1> QED BY <1>5, <1>6, <1>7, <1>8 DEF Next

\* A stage that left an uncommitted modification of a tracked file passed its gates
\* before any stage that depends on it has a goroutine, whatever else the tier holds
\* and whatever later agents commit.
THEOREM UncommittedWorkIsGated == Spec => []UncommittedWorkGated
<1>1. Init => GatedInv
  BY DEF Init, GatedInv, Cleared
<1>2. OrderInv => DependenciesCleared
  BY PipelineAssumption
     DEF OrderInv, TierOrder, ReportState, DependenciesCleared, Started, Cleared, TypeOK,
         RunnerState
<1>3. GatedInv /\ DependenciesCleared => UncommittedWorkGated
  BY PipelineAssumption DEF GatedInv, DependenciesCleared, UncommittedWorkGated
<1> QED BY <1>1, <1>2, <1>3, GatedStep, OrderInvariant, PTL DEF Spec

-----------------------------------------------------------------------------
(***************************************************************************)
(* The shared counter of what was spent.                                   *)
(***************************************************************************)

\* A way to add up what agents have used.  That there is one for every value of
\* `used` a run can reach is part of the invariant, so that no induction over
\* sets of agents is needed.
Measures ==
  {w \in [SUBSET Agents -> Nat] :
     /\ w[{}] = 0
     /\ \A a \in Agents : w[{a}] = used[a]
     /\ \A S, T \in SUBSET Agents : S \cap T = {} => w[S \cup T] = w[S] + w[T]}

Recorded == {a \in Agents : agent[a] \in AgentFinal}

\* All calls cost what the agents used, and the counter holds at most what those
\* that have returned used; before its allocation it holds nothing.
MoneyInv ==
  /\ spentCell = "nil" => spent = 0
  /\ \E w \in Measures : total = w[Agents] /\ spent <= w[Recorded]

\* The agents of a stage are idle until it starts them, and for good if it is
\* skipped; a stage passes with its agents.
AgentsByStage ==
  /\ \A a \in Agents : stage[StageOf[a]] \in {"waiting", "preGates", "skipped"} => agent[a] = "idle"
  /\ \A a \in Agents : stage[StageOf[a]] = "passed" => agent[a] \in {"idle", "passed"}

Initialising == {"initCheck", "initOK", "initErr"}

\* An agent that is about to allocate the counter has read nil: before any agent
\* of an earlier tier could have passed, since that takes a counter.
CounterByTier ==
  /\ \A a \in Agents : agent[a] = "passed" => spentCell = "live"
  /\ (\E b \in Agents : agent[b] \in Initialising) =>
       \A a \in Agents : agent[a] # "idle" => StageOf[a] \in tier

SpendInv == AgentsByStage /\ CounterByTier /\ MoneyInv

LEMMA MeasureGrows ==
  ASSUME NEW w \in Measures, NEW S \in SUBSET Agents, NEW T \in SUBSET Agents, S \subseteq T
  PROVE  w[S] <= w[T]
<1>1. (T \ S) \in SUBSET Agents /\ S \cap (T \ S) = {} /\ S \cup (T \ S) = T
  OBVIOUS
<1>2. w[T] = w[S] + w[T \ S] /\ w[S] \in Nat /\ w[T \ S] \in Nat
  BY <1>1 DEF Measures
<1> QED BY <1>2

LEMMA MeasureAdds ==
  ASSUME NEW w \in Measures, NEW S \in SUBSET Agents, NEW a \in Agents \ S
  PROVE  w[S \cup {a}] = w[S] + used[a]
<1>1. {a} \in SUBSET Agents /\ S \cap {a} = {}
  OBVIOUS
<1> QED BY <1>1 DEF Measures

\* The cost of a call is added to a measure of every set the caller is in.
LEMMA MeasureOfCall ==
  ASSUME TypeOK, NEW w \in Measures, NEW a \in Agents, NEW c \in Nat,
         used' = [used EXCEPT ![a] = @ + c]
  PROVE  \E v \in Measures' :
           /\ v[Agents] = w[Agents] + c
           /\ \A S \in SUBSET (Agents \ {a}) : v[S] = w[S]
<1> DEFINE v == [S \in SUBSET Agents |-> IF a \in S THEN w[S] + c ELSE w[S]]
<1>1. /\ w \in [SUBSET Agents -> Nat] /\ w[{}] = 0
      /\ \A b \in Agents : w[{b}] = used[b]
      /\ \A S, T \in SUBSET Agents : S \cap T = {} => w[S \cup T] = w[S] + w[T]
  BY DEF Measures
<1>2. v \in [SUBSET Agents -> Nat]
  BY <1>1
<1>3. v[{}] = 0
  BY <1>1
<1>4. ASSUME NEW b \in Agents PROVE v[{b}] = used'[b]
  <2>1. {b} \in SUBSET Agents /\ (a \in {b} <=> b = a)
    OBVIOUS
  <2>2. used'[b] = IF b = a THEN used[b] + c ELSE used[b]
    BY DEF TypeOK
  <2> QED BY <1>1, <2>1, <2>2
<1>5. ASSUME NEW S \in SUBSET Agents, NEW T \in SUBSET Agents, S \cap T = {}
      PROVE  v[S \cup T] = v[S] + v[T]
  <2>1. (S \cup T) \in SUBSET Agents /\ (a \in S \cup T <=> a \in S \/ a \in T) /\ ~(a \in S /\ a \in T)
    BY <1>5
  <2>2. w[S \cup T] = w[S] + w[T] /\ w[S] \in Nat /\ w[T] \in Nat /\ w[S \cup T] \in Nat
    BY <1>1, <1>5, <2>1
  <2>3. /\ v[S \cup T] = IF a \in S \cup T THEN w[S \cup T] + c ELSE w[S \cup T]
        /\ v[S] = IF a \in S THEN w[S] + c ELSE w[S]
        /\ v[T] = IF a \in T THEN w[T] + c ELSE w[T]
    BY <2>1
  <2> HIDE DEF v
  <2> QED BY <2>1, <2>2, <2>3
<1>6. v[Agents] = w[Agents] + c /\ \A S \in SUBSET (Agents \ {a}) : v[S] = w[S]
  <2>1. Agents \in SUBSET Agents /\ \A S \in SUBSET (Agents \ {a}) : S \in SUBSET Agents /\ a \notin S
    OBVIOUS
  <2> QED BY <2>1
<1>7. v \in Measures'
  <2> HIDE DEF v
  <2> QED BY <1>2, <1>3, <1>4, <1>5 DEF Measures
<1> QED BY <1>6, <1>7

LEMMA SpendInit == Init => SpendInv
<1> SUFFICES ASSUME Init PROVE SpendInv
  OBVIOUS
<1>1. AgentsByStage /\ CounterByTier
  BY PipelineAssumption DEF Init, AgentsByStage, CounterByTier, Initialising
<1> DEFINE w == [S \in SUBSET Agents |-> 0]
<1>2. w \in [SUBSET Agents -> Nat] /\ \A S \in SUBSET Agents : w[S] = 0
  OBVIOUS
<1>3. /\ {} \in SUBSET Agents /\ Agents \in SUBSET Agents /\ Recorded \in SUBSET Agents
      /\ \A a \in Agents : {a} \in SUBSET Agents
      /\ \A S, T \in SUBSET Agents : S \cup T \in SUBSET Agents
  BY DEF Recorded
<1> HIDE DEF w
<1>4. w \in Measures
  <2>1. \A a \in Agents : used[a] = 0
    BY DEF Init
  <2> QED BY <1>2, <1>3, <2>1 DEF Measures
<1>5. MoneyInv
  <2>1. spent = 0 /\ total = 0
    BY DEF Init
  <2> QED BY <1>2, <1>3, <1>4, <2>1 DEF MoneyInv
<1> QED BY <1>1, <1>5 DEF SpendInv

\* Agents that return without a cost to record keep the account.
LEMMA MoneyKept ==
  ASSUME TypeOK, MoneyInv, UNCHANGED <<used, total, spentCell, spent>>,
         Recorded \subseteq Recorded'
  PROVE  MoneyInv'
<1>1. PICK w \in Measures : total = w[Agents] /\ spent <= w[Recorded]
  BY DEF MoneyInv
<1>2. w \in Measures'
  BY DEF Measures
<1>3. Recorded \in SUBSET Agents /\ Recorded' \in SUBSET Agents
  BY DEF Recorded
<1>4. w[Recorded] <= w[Recorded'] /\ w[Recorded] \in Nat /\ w[Recorded'] \in Nat
  BY <1>3, MeasureGrows DEF Measures
<1>5. spent <= w[Recorded']
  BY <1>1, <1>4 DEF TypeOK
<1> QED BY <1>1, <1>2, <1>5 DEF MoneyInv

\* A step that starts, ends and moves no agent, and none of the account.
LEMMA AccountKept ==
  ASSUME TypeOK, SpendInv, UNCHANGED <<agent, money, tier>>,
         \A s \in Stages :
           \/ stage'[s] = stage[s]
           \/ stage'[s] = "skipped" /\ \A a \in AgentsOf(s) : agent[a] = "idle"
           \/ stage'[s] \in {"running", "failed"}
           \/ stage'[s] = "passed" /\ \A a \in AgentsOf(s) : agent[a] \in {"idle", "passed"}
  PROVE  SpendInv'
<1>1. \A a \in Agents : StageOf[a] \in Stages /\ a \in AgentsOf(StageOf[a])
  BY PipelineAssumption DEF AgentsOf
<1>2. AgentsByStage'
  BY <1>1 DEF SpendInv, AgentsByStage
<1>3. CounterByTier'
  BY DEF SpendInv, CounterByTier
<1>4. MoneyInv'
  BY MoneyKept DEF SpendInv, Recorded
<1> QED BY <1>2, <1>3, <1>4 DEF SpendInv

LEMMA SpendRunnerStep ==
  ASSUME OrderInv, SpendInv, RunnerStep PROVE SpendInv'
<1> USE DEF OrderInv
<1>1. CASE StartTier
  <2>1. UNCHANGED <<agent, money>> /\ \A a \in Agents : agent[a] \notin Active
    <3>1. UNCHANGED <<agent, money>> /\ runner = "next"
      BY <1>1 DEF StartTier
    <3>2. \A s \in placed : stage[s] # "running"
      BY <3>1 DEF Barrier, StageFinal
    <3>3. \A a \in Agents : agent[a] \in Active => StageOf[a] \in placed /\ stage[StageOf[a]] = "running"
      BY PipelineAssumption DEF Barrier, TierOrder
    <3> QED BY <3>1, <3>2, <3>3
  <2>2. AgentsByStage'
    <3>1. \A s \in Stages : stage'[s] = stage[s] \/ (stage[s] = "waiting" /\ stage'[s] = "preGates")
      BY <1>1 DEF StartTier, Ready, TierOrder
    <3>2. \A a \in Agents : StageOf[a] \in Stages
      BY PipelineAssumption
    <3> QED BY <2>1, <3>1, <3>2 DEF SpendInv, AgentsByStage
  <2>3. CounterByTier'
    BY <2>1 DEF SpendInv, CounterByTier, Initialising, Active
  <2>4. MoneyInv'
    BY <2>1, MoneyKept DEF SpendInv, Recorded
  <2> QED BY <2>2, <2>3, <2>4 DEF SpendInv
<1>2. CASE ~StartTier
  <2>1. UNCHANGED <<stage, agent, money, tier>>
    BY <1>2 DEF RunnerStep, Finish, TierDone, Collect, SkipGates, GatePasses, GatesPassed,
       GatesReturn, GateFails
  <2> QED BY <2>1, AccountKept
<1> QED BY <1>1, <1>2

LEMMA SpendStageStep ==
  ASSUME OrderInv, SpendInv, NEW s \in Stages, StageStep(s) PROVE SpendInv'
<1> USE DEF OrderInv
<1>1. CASE StartAgents(s)
  <2>1. stage[s] = "preGates" /\ UNCHANGED <<money, tier>> /\ s \in tier
    BY <1>1, PipelineAssumption
       DEF StartAgents, PreGatesPassed, TierOrder, Barrier, StageFinal
  <2>2. /\ stage'[s] = "running" /\ \A r \in Stages \ {s} : stage'[r] = stage[r]
        /\ \A a \in Agents : StageOf[a] \in Stages
    BY <1>1, PipelineAssumption DEF StartAgents, TypeOK
  <2>3. \A a \in Agents :
          \/ agent'[a] = agent[a]
          \/ agent[a] = "idle" /\ agent'[a] = "check" /\ StageOf[a] = s
    BY <1>1, <2>1 DEF StartAgents, SpendInv, AgentsByStage, AgentsOf
  <2>4. AgentsByStage'
    BY <2>2, <2>3 DEF SpendInv, AgentsByStage
  <2>5. CounterByTier'
    BY <2>1, <2>3 DEF SpendInv, CounterByTier, Initialising
  <2>6. MoneyInv'
    BY <2>1, <2>3, MoneyKept DEF SpendInv, Recorded, AgentFinal
  <2> QED BY <2>4, <2>5, <2>6 DEF SpendInv
<1>2. CASE ~StartAgents(s)
  <2>1. UNCHANGED <<agent, money, tier>>
    BY <1>2 DEF StageStep, PreGateContinues, PreGateFails, ExpandFails, ExpandEmpty,
       FinishStage, EndStage
  <2>2. CASE PreGateContinues(s)
    BY <2>1, <2>2, AccountKept DEF PreGateContinues
  <2>3. CASE PreGateFails(s) \/ ExpandFails(s) \/ ExpandEmpty(s)
    <3>1. stage[s] = "preGates" /\ \A a \in AgentsOf(s) : agent[a] = "idle"
      BY <2>3 DEF PreGateFails, PreGateRunning, ExpandFails, ExpandEmpty, PreGatesPassed,
         SpendInv, AgentsByStage, AgentsOf
    <3>2. stage' = [stage EXCEPT ![s] = stage'[s]] /\ stage'[s] \in {"skipped", "failed"}
      BY <2>3 DEF PreGateFails, ExpandFails, ExpandEmpty, EndStage, TypeOK
    <3>3. \A r \in Stages : r # s => stage'[r] = stage[r]
      BY <3>2 DEF TypeOK
    <3> QED BY <2>1, <3>1, <3>2, <3>3, AccountKept
  <2>4. CASE FinishStage(s)
    <3>1. \A r \in Stages : r # s => stage'[r] = stage[r]
      BY <2>4 DEF FinishStage, EndStage, TypeOK
    <3>2. \/ stage'[s] = "failed"
          \/ stage'[s] = "passed" /\ \A a \in AgentsOf(s) : agent[a] # "failed"
      BY <2>4 DEF FinishStage, EndStage, TypeOK
    <3>3. \A a \in AgentsOf(s) : agent[a] \in {"idle", "passed", "failed"}
      BY <2>4 DEF FinishStage, AgentsOf, TypeOK, AgentFinal
    <3> QED BY <2>1, <3>1, <3>2, <3>3, AccountKept
  <2> QED BY <1>2, <2>2, <2>3, <2>4 DEF StageStep
<1> QED BY <1>1, <1>2

\* What an agent's step means for who has passed and who initialises.
LEMMA SpendAgentStep ==
  ASSUME OrderInv, SpendInv, NEW a \in Agents, AgentStep(a) PROVE SpendInv'
<1> USE DEF OrderInv
<1>1. /\ agent[a] \in Active /\ UNCHANGED <<stage, tier>>
      /\ agent'[a] \in Active \cup AgentFinal
      /\ \A b \in Agents \ {a} : agent'[b] = agent[b]
  BY DEF TypeOK, AgentStep, CheckBudget, InitSpent, InvokeAgent, CallbackFails,
     ModelCall, FinalCall, ModelReturns, Hang, RecordSpend, Record, MoveAgent, Active, AgentFinal
<1>2. StageOf[a] \in Stages /\ stage[StageOf[a]] = "running"
  BY <1>1, PipelineAssumption DEF Barrier
<1>3. AgentsByStage'
  BY <1>1, <1>2 DEF SpendInv, AgentsByStage
\* While nobody has a counter, everybody who is not idle is in the first tier.
<1>4. spentCell = "nil" => \A b \in Agents : agent[b] # "idle" => StageOf[b] \in tier
  <2> SUFFICES ASSUME spentCell = "nil", NEW b \in Agents, agent[b] # "idle", StageOf[b] \notin tier
               PROVE  FALSE
    OBVIOUS
  <2>1. StageOf[b] \in Stages /\ stage[StageOf[b]] # "waiting"
    BY PipelineAssumption DEF SpendInv, AgentsByStage
  <2>2. StageOf[b] \in placed \ tier
    BY <2>1 DEF TierOrder
  <2>3. stage[StageOf[b]] \in {"passed", "skipped"}
    BY <2>1, <2>2 DEF ReportState, Cleared
  <2> QED BY <2>3 DEF SpendInv, AgentsByStage, CounterByTier
<1>5. /\ spentCell = "live" => spentCell' = "live"
      /\ agent'[a] = "passed" => spentCell = "live"
      /\ agent'[a] \in Initialising => spentCell = "nil" \/ agent[a] \in Initialising
  BY <1>1 DEF TypeOK, AgentStep, CheckBudget, InitSpent, InvokeAgent, CallbackFails,
     ModelCall, FinalCall, ModelReturns, Hang, RecordSpend, Record, MoveAgent, Initialising
<1>6. CounterByTier'
  <2>1. \A b \in Agents : agent'[b] = "passed" => spentCell' = "live"
    BY <1>1, <1>5 DEF SpendInv, CounterByTier
  <2>2. ASSUME NEW b \in Agents, agent'[b] \in Initialising
        PROVE  \A c \in Agents : agent'[c] # "idle" => StageOf[c] \in tier'
    <3>1. \A c \in Agents : agent[c] # "idle" => StageOf[c] \in tier
      BY <1>1, <1>4, <1>5, <2>2 DEF SpendInv, CounterByTier
    <3>2. agent[a] # "idle"
      BY <1>1 DEF Active
    <3> QED BY <1>1, <3>1, <3>2
  <2> QED BY <2>1, <2>2 DEF CounterByTier
<1>7. Recorded \in SUBSET (Agents \ {a}) /\ Recorded \subseteq Recorded' /\ Recorded' \subseteq Recorded \cup {a}
  BY <1>1 DEF Recorded, Active, AgentFinal
<1>8. CASE UNCHANGED money
  BY <1>3, <1>6, <1>7, <1>8, MoneyKept DEF SpendInv
<1>9. CASE InitSpent(a)
  <2>1. PICK w \in Measures : total = w[Agents]
    BY DEF SpendInv, MoneyInv
  <2>2. w \in Measures' /\ spent' = 0 /\ total' = total /\ spentCell' = "live"
    BY <1>9, <2>1 DEF InitSpent, Measures
  <2>3. Recorded' \in SUBSET Agents
    BY DEF Recorded
  <2>4. w[Recorded'] \in Nat
    BY <2>3 DEF Measures
  <2>5. spent' <= w[Recorded']
    BY <2>2, <2>4
  <2>6. MoneyInv'
    BY <2>1, <2>2, <2>5 DEF MoneyInv
  <2> QED BY <1>3, <1>6, <2>6 DEF SpendInv
<1>10. CASE ModelCall(a) \/ FinalCall(a)
  <2>1. PICK c \in 1..MaxCallCost : used' = [used EXCEPT ![a] = @ + c] /\ total' = total + c
    BY <1>10 DEF ModelCall, FinalCall
  <2>2. c \in Nat /\ UNCHANGED <<spentCell, spent>> /\ agent'[a] \in Active
    BY <1>1, <1>10, PipelineAssumption DEF ModelCall, FinalCall, MoveAgent, TypeOK, Active
  <2>3. PICK w \in Measures : total = w[Agents] /\ spent <= w[Recorded]
    BY DEF SpendInv, MoneyInv
  <2>4. PICK v \in Measures' : v[Agents] = w[Agents] + c /\ v[Recorded] = w[Recorded]
    <3>1. PICK v \in Measures' :
            v[Agents] = w[Agents] + c /\ \A S \in SUBSET (Agents \ {a}) : v[S] = w[S]
      BY <2>1, <2>2, MeasureOfCall
    <3> QED BY <1>7, <3>1
  <2>5. Recorded' = Recorded
    BY <1>1, <2>2 DEF Recorded, Active, AgentFinal
  <2>6. MoneyInv'
    BY <2>1, <2>2, <2>3, <2>4, <2>5 DEF SpendInv, MoneyInv
  <2> QED BY <1>3, <1>6, <2>6 DEF SpendInv
<1>11. CASE RecordSpend(a) /\ spentCell = "live"
  <2>1. /\ spent' = spent + used[a] /\ UNCHANGED <<used, total, spentCell>>
        /\ agent'[a] \in AgentFinal
    BY <1>1, <1>11 DEF RecordSpend, Record, MoveAgent, TypeOK, AgentFinal
  <2>2. PICK w \in Measures : total = w[Agents] /\ spent <= w[Recorded]
    BY DEF SpendInv, MoneyInv
  <2>3. Recorded' = Recorded \cup {a}
    BY <1>7, <2>1 DEF Recorded
  <2>4. w[Recorded'] = w[Recorded] + used[a] /\ w \in Measures'
    <3>1. Recorded \in SUBSET Agents /\ a \in Agents \ Recorded
      BY <1>7
    <3>2. w[Recorded \cup {a}] = w[Recorded] + used[a]
      BY <3>1, MeasureAdds
    <3>3. w \in Measures'
      BY <2>1 DEF Measures
    <3> QED BY <2>3, <3>2, <3>3
  <2>5. spent \in Nat /\ used[a] \in Nat /\ w[Recorded] \in Nat
    <3>1. Recorded \in SUBSET Agents
      BY DEF Recorded
    <3> QED BY <3>1 DEF TypeOK, Measures
  <2>6. spent' <= w[Recorded']
    BY <2>1, <2>2, <2>4, <2>5
  <2>7. MoneyInv'
    BY <1>11, <2>1, <2>2, <2>4, <2>6 DEF MoneyInv
  <2> QED BY <1>3, <1>6, <2>7 DEF SpendInv
<1> QED
  BY <1>8, <1>9, <1>10, <1>11
     DEF AgentStep, CheckBudget, InvokeAgent, CallbackFails, ModelReturns, Hang, RecordSpend, Record, TypeOK

LEMMA SpendInvariant == Spec => [](OrderInv /\ SpendInv)
<1>1. OrderInv /\ SpendInv /\ [Next]_vars => SpendInv'
  <2> SUFFICES ASSUME OrderInv, SpendInv, [Next]_vars PROVE SpendInv'
    OBVIOUS
  <2>1. CASE UNCHANGED vars \/ Returned
    BY <2>1, AccountKept DEF Returned, OrderInv
  <2> QED BY <2>1, SpendRunnerStep, SpendStageStep, SpendAgentStep DEF Next
<1> QED BY <1>1, SpendInit, OrderInvariant, PTL DEF Spec

\* Runner.spent never counts more than the model calls have cost, with the cost of
\* any agent that still runs left out; and getSpent's unlocked allocation throws
\* recorded costs away only while the first agents of the pipeline run.
THEOREM SpentSound == Spec => SpentIsSound
<1>1. OrderInv /\ SpendInv => SpentNeverOvercounts
  <2> SUFFICES ASSUME OrderInv, SpendInv, NEW a \in Agents, agent[a] \in Active
               PROVE  spent + used[a] <= total
    BY DEF SpentNeverOvercounts
  <2>1. PICK w \in Measures : total = w[Agents] /\ spent <= w[Recorded]
    BY DEF SpendInv, MoneyInv
  <2>2. a \in Agents \ Recorded /\ Recorded \in SUBSET Agents /\ Recorded \cup {a} \in SUBSET Agents
    BY DEF Recorded, Active, AgentFinal
  <2>3. w[Recorded \cup {a}] = w[Recorded] + used[a] /\ w[Recorded \cup {a}] <= w[Agents]
    BY <2>2, MeasureAdds, MeasureGrows
  <2>4. w[Recorded] \in Nat /\ w[Agents] \in Nat /\ spent \in Nat /\ used[a] \in Nat
    BY <2>2 DEF Measures, OrderInv, TypeOK
  <2> QED BY <2>1, <2>3, <2>4
<1>2. OrderInv /\ SpendInv /\ [Next]_vars => [SpentLostOnlyInFirstTier]_vars
  <2> SUFFICES ASSUME OrderInv, SpendInv, [Next]_vars, spent' < spent
               PROVE  \A a \in Agents : agent[a] # "idle" => StageOf[a] \in tier
    BY DEF SpentLostOnlyInFirstTier
  <2>1. spent' # spent
    BY DEF OrderInv, TypeOK
  <2>2. PICK a \in Agents : InitSpent(a) \/ RecordSpend(a)
    BY <2>1 DEF Next, RunnerStep, StartTier, Finish, TierDone, Collect, SkipGates, GatePasses,
       GatesPassed, GatesReturn, GateFails, StageStep, PreGateContinues, PreGateFails,
       StartAgents, ExpandFails, ExpandEmpty, FinishStage, EndStage, AgentStep, CheckBudget,
       InvokeAgent, CallbackFails, ModelCall, FinalCall, ModelReturns, Hang, Returned
  <2>3. CASE InitSpent(a)
    BY <2>3 DEF InitSpent, MoveAgent, SpendInv, CounterByTier, Initialising
  <2>4. CASE RecordSpend(a)
    BY <2>4 DEF RecordSpend, Record, OrderInv, TypeOK
  <2> QED BY <2>2, <2>3, <2>4
<1> QED BY <1>1, <1>2, SpendInvariant, PTL DEF Spec, SpentIsSound

=============================================================================
