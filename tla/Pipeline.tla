------------------------------ MODULE Pipeline ------------------------------
(***************************************************************************)
(* The composed-agent runner of package pipeline (runner.go).  One         *)
(* goroutine executes Runner.Run: it takes the stages tier by tier in      *)
(* topological order, starts one goroutine per stage of the tier, waits    *)
(* for all of them, and then records the results one at a time, running    *)
(* the regression gates after each.  A stage goroutine runs its pre-gates, *)
(* expands its partition and starts one goroutine per agent instance.      *)
(* Agent goroutines share the cost counter `spent`.                        *)
(*                                                                         *)
(* Costs are natural numbers (units of $0.0001, the precision of the       *)
(* reserved cap variable).                                                 *)
(***************************************************************************)
EXTENDS Integers, Sequences, FiniteSets

CONSTANTS
  Stages,       \* the stage names
  Agents,       \* the agent instances of all stages
  StageOf,      \* the stage of an agent instance
  DependsOn,    \* a stage's depends_on
  PreGates,     \* a stage's pre-gates: a sequence of on_error policies
  Gates,        \* the gates after a stage: a sequence of on_failure policies
  Partitioned,  \* the stages with a partition
  MaxCost,      \* --max-cost for the whole pipeline, 0 = unlimited
  StageMaxCost, \* a stage's max_cost, 0 = none
  MaxCallCost,  \* the most one model call costs
  RunBudget,    \* bound: an agent's iteration budget, expressed as a cost
  GitRepo,      \* is WorkingDir a git checkout?
  NoStage       \* no stage is being gated

PreGatePolicy == {"continue", "skip", "stop"}
GatePolicy    == {"revert", "stop"}

\* What Validate has checked before a Runner exists.
PipelineWellFormed ==
  /\ StageOf \in [Agents -> Stages]
  /\ DependsOn \in [Stages -> SUBSET Stages]
  /\ PreGates \in [Stages -> Seq(PreGatePolicy)]
  /\ Gates \in [Stages -> Seq(GatePolicy)]
  /\ Partitioned \subseteq Stages
  /\ MaxCost \in Nat
  /\ StageMaxCost \in [Stages -> Nat]
  /\ MaxCallCost \in Nat \ {0}
  /\ RunBudget \in Nat
  /\ GitRepo \in BOOLEAN
  /\ NoStage \notin Stages

\* detectCycle has rejected every cyclic graph: each set of stages has a member
\* that depends on none of the others.
NoCycle ==
  \A T \in SUBSET Stages : T # {} => \E s \in T : DependsOn[s] \cap T = {}

\* validateStages has rejected every stage that names no agent.
HasAgents == \A s \in Stages : \E a \in Agents : StageOf[a] = s

ASSUME PipelineAssumption == PipelineWellFormed
ASSUME Acyclic == NoCycle
ASSUME StagesHaveAgents == HasAgents

VARIABLES
  runner,     \* where the goroutine in Run is
  placed,     \* stages of the tiers taken so far
  tier,       \* stages of the current tier
  stage,      \* progress and result of a stage goroutine
  preGate,    \* index of a stage's next pre-gate
  agent,      \* progress and result of an agent goroutine
  limit,      \* agentOpts.MaxCost an agent was invoked with
  used,       \* what an agent's model calls have cost so far
  total,      \* history: what all model calls have cost so far
  spentCell,  \* has Runner.spent been allocated?
  spent,      \* the value in Runner.spent
  reported,   \* report.Stages: the status reported for a stage
  completed,  \* completedStages: the status dependents and gates see
  current,    \* the stage whose gates are being run
  gate,       \* index of the next gate after `current`
  gated,      \* history: stages all of whose gates ran and passed
  outcome,    \* report.Status
  tree        \* what the agents of a stage left in WorkingDir

runVars    == <<runner, placed, tier, reported, completed, current, gate, gated, outcome>>
budgetVars == <<spentCell, spent>>
money      == <<used, total, budgetVars>>
vars == <<runVars, stage, preGate, agent, limit, money, tree>>

StageFinal == {"passed", "failed", "skipped"}
AgentFinal == {"passed", "failed"}
Statuses   == {"absent", "passed", "failed", "skipped", "reverted"}
\* An agent goroutine that has been started and has not returned.
Active     == {"check", "initCheck", "cap", "call", "hung",
               "recordOK", "recordErr", "initOK", "initErr"}
\* What git sees of a stage's edits: `git diff HEAD` shows only "modified", that
\* is tracked work which nobody has committed.
Edits      == {"none", "newFiles", "modified", "committed"}

AgentsOf(s) == {a \in Agents : StageOf[a] = s}
Least(x, y) == IF x < y THEN x ELSE y

TypeOK ==
  /\ runner \in {"next", "wait", "collect", "gates", "done"}
  /\ placed \subseteq Stages
  /\ tier \subseteq Stages
  /\ stage \in [Stages -> StageFinal \cup {"waiting", "preGates", "running"}]
  /\ preGate \in [Stages -> Nat \ {0}]
  /\ agent \in [Agents -> Active \cup AgentFinal \cup {"idle"}]
  /\ limit \in [Agents -> Nat]
  /\ used \in [Agents -> Nat]
  /\ total \in Nat
  /\ spentCell \in {"nil", "live"}
  /\ spent \in Nat
  /\ reported \in [Stages -> Statuses]
  /\ completed \in [Stages -> Statuses]
  /\ current \in Stages \cup {NoStage}
  /\ gate \in Nat \ {0}
  /\ gated \subseteq Stages
  /\ outcome \in {"passed", "failed"}
  /\ tree \in [Stages -> Edits]

Init ==
  /\ runner = "next"
  /\ placed = {}
  /\ tier = {}
  /\ stage = [s \in Stages |-> "waiting"]
  /\ preGate = [s \in Stages |-> 1]
  /\ agent = [a \in Agents |-> "idle"]
  /\ limit = [a \in Agents |-> 0]
  /\ used = [a \in Agents |-> 0]
  /\ total = 0
  /\ spentCell = "nil"
  /\ spent = 0
  /\ reported = [s \in Stages |-> "absent"]
  /\ completed = [s \in Stages |-> "absent"]
  /\ current = NoStage
  /\ gate = 1
  /\ gated = {}
  /\ outcome = "passed"
  /\ tree = [s \in Stages |-> "none"]

(***************************************************************************)
(* Tiers (TopologicalOrder, runTier)                                       *)
(***************************************************************************)

\* Mutant of Ready: in-degree compared with one instead of zero.
ReadyOffByOne == {s \in Stages \ placed : Cardinality(DependsOn[s] \ placed) <= 1}

\* Kahn's ready set: the stages whose in-degree has dropped to zero.
Ready == {s \in Stages \ placed : DependsOn[s] \subseteq placed}

\* The next iteration of Run's loop: one goroutine per stage of the tier.
StartTier ==
  /\ runner = "next"
  /\ Ready # {}
  /\ runner' = "wait"
  /\ tier' = Ready
  /\ placed' = placed \cup Ready
  /\ stage' = [s \in Stages |-> IF s \in Ready THEN "preGates" ELSE stage[s]]
  /\ UNCHANGED <<preGate, agent, limit, money, tree,
                 reported, completed, current, gate, gated, outcome>>

\* No tier is left: Run returns a report with status "passed".
Finish ==
  /\ runner = "next"
  /\ Ready = {}
  /\ runner' = "done"
  /\ UNCHANGED <<placed, tier, stage, preGate, agent, limit, money,
                 tree, reported, completed, current, gate, gated, outcome>>

(***************************************************************************)
(* A stage goroutine (runStage)                                            *)
(***************************************************************************)

EndStage(s, status) ==
  /\ stage' = [stage EXCEPT ![s] = status]
  /\ UNCHANGED <<runVars, preGate, agent, limit, money, tree>>

PreGateRunning(s) == stage[s] = "preGates" /\ preGate[s] <= Len(PreGates[s])

\* A pre-gate command that succeeds, or fails under on_error "continue".
PreGateContinues(s) ==
  /\ PreGateRunning(s)
  /\ preGate' = [preGate EXCEPT ![s] = @ + 1]
  /\ UNCHANGED <<runVars, stage, agent, limit, money, tree>>

\* runPreGates returns an error for "skip" and for "stop" alike, and
\* runStage turns every error of runPreGates into a skipped stage.
PreGateFails(s) ==
  /\ PreGateRunning(s)
  /\ PreGates[s][preGate[s]] \in {"skip", "stop"}
  /\ EndStage(s, "skipped")

PreGatesPassed(s) == stage[s] = "preGates" /\ preGate[s] > Len(PreGates[s])

\* runAgentsParallel and runPartitions: a goroutine per instance.
StartAgents(s) ==
  /\ PreGatesPassed(s)
  /\ \E insts \in (SUBSET AgentsOf(s)) \ {{}} :
       /\ s \notin Partitioned => insts = AgentsOf(s)
       /\ agent' = [a \in Agents |-> IF a \in insts THEN "check" ELSE agent[a]]
  /\ stage' = [stage EXCEPT ![s] = "running"]
  /\ UNCHANGED <<runVars, preGate, limit, money, tree>>

\* ExpandPartition fails, or its glob matches no file.
ExpandFails(s) ==
  /\ PreGatesPassed(s)
  /\ s \in Partitioned
  /\ EndStage(s, "failed")

ExpandEmpty(s) ==
  /\ PreGatesPassed(s)
  /\ s \in Partitioned
  /\ EndStage(s, "skipped")

\* All agent goroutines have returned (wg.Wait).
FinishStage(s) ==
  /\ stage[s] = "running"
  /\ \A a \in AgentsOf(s) : agent[a] \notin Active
  /\ EndStage(s, IF \E a \in AgentsOf(s) : agent[a] = "failed"
                 THEN "failed" ELSE "passed")

(***************************************************************************)
(* An agent goroutine (runAgent and the RunAgent callback)                 *)
(***************************************************************************)

MoveAgent(a, from, to) ==
  /\ agent[a] = from
  /\ agent' = [agent EXCEPT ![a] = to]

RemainingBudget ==
  IF MaxCost > 0 /\ spent < MaxCost THEN MaxCost - spent ELSE 0

\* The budget check.  getSpent allocates the counter when it reads nil; the
\* read and the store are separate steps because no lock covers them.
CheckBudget(a) ==
  /\ \/ MaxCost = 0 /\ MoveAgent(a, "check", "cap")
     \/ MaxCost > 0 /\ spentCell = "nil" /\ MoveAgent(a, "check", "initCheck")
     \/ /\ MaxCost > 0 /\ spentCell = "live"
        /\ MoveAgent(a, "check", IF RemainingBudget = 0 THEN "failed" ELSE "cap")
  /\ UNCHANGED <<runVars, stage, preGate, limit, money, tree>>

\* r.spent = csync.NewValue(0.0): a new counter replaces whatever is there.
InitSpent(a) ==
  /\ \/ MoveAgent(a, "initCheck", "check")
     \/ MoveAgent(a, "initOK", "recordOK")
     \/ MoveAgent(a, "initErr", "recordErr")
  /\ spentCell' = "live"
  /\ spent' = 0
  /\ UNCHANGED <<runVars, stage, preGate, limit, used, total, tree>>

\* The cap injected as __pipeline_max_cost; 0 = not injected.  The remaining
\* budget is read a second time here.
EffectiveCap(a) ==
  LET stageCap == StageMaxCost[StageOf[a]]
  IN  IF stageCap = 0 THEN RemainingBudget
      ELSE IF RemainingBudget = 0 THEN stageCap
      ELSE Least(stageCap, RemainingBudget)

\* The callback invokes the model with the injected cap, and without one with
\* the options of the pipeline itself (applyPipelineBudgetCap).
InvokeAgent(a) ==
  /\ MoveAgent(a, "cap", "call")
  /\ limit' = [limit EXCEPT ![a] = IF EffectiveCap(a) > 0 THEN EffectiveCap(a)
                                                          ELSE MaxCost]
  /\ UNCHANGED <<runVars, stage, preGate, money, tree>>

\* The callback fails before the model is invoked and returns nil metrics.
CallbackFails(a) ==
  /\ MoveAgent(a, "cap", "failed")
  /\ UNCHANGED <<runVars, stage, preGate, limit, money, tree>>

\* What the tools of one model call do to the tree: edit tracked files, create
\* files, or commit what some of the stages have left there.
EditTree(s) ==
  \/ UNCHANGED tree
  \/ tree' = [tree EXCEPT ![s] = "modified"]
  \/ tree[s] = "none" /\ tree' = [tree EXCEPT ![s] = "newFiles"]
  \/ \E T \in SUBSET {t \in Stages : tree[t] # "none"} :
       tree' = [t \in Stages |-> IF t \in T THEN "committed" ELSE tree[t]]

\* InvokeModel: another model call while the run's own budget is not used up.
ModelCall(a) ==
  /\ agent[a] = "call"
  /\ limit[a] = 0 \/ used[a] < limit[a]
  /\ used[a] < RunBudget
  /\ \E c \in 1..MaxCallCost : /\ used' = [used EXCEPT ![a] = @ + c]
                              /\ total' = total + c
  /\ EditTree(StageOf[a])
  /\ UNCHANGED <<runVars, stage, preGate, agent, limit, budgetVars>>

\* finishToolLoop: a tool loop that ran out of budget or iterations, or that was
\* stopped for looping, makes one more call, without tools.
FinalCall(a) ==
  /\ used[a] > 0
  /\ MoveAgent(a, "call", IF limit[a] > 0 /\ used[a] >= limit[a] THEN "recordErr" ELSE "recordOK")
  /\ \E c \in 1..MaxCallCost : /\ used' = [used EXCEPT ![a] = @ + c]
                              /\ total' = total + c
  /\ UNCHANGED <<runVars, stage, preGate, limit, budgetVars, tree>>

\* InvokeModel returns, with metrics in every case.
ModelReturns(a) ==
  /\ \/ MoveAgent(a, "call", "recordOK")
     \/ MoveAgent(a, "call", "recordErr")
  /\ UNCHANGED <<runVars, stage, preGate, limit, money, tree>>

\* A tool call that never returns: executeCheckBgCommand with wait receives from
\* bg.Done without looking at the context.
Hang(a) ==
  /\ MoveAgent(a, "call", "hung")
  /\ UNCHANGED <<runVars, stage, preGate, limit, money, tree>>

\* getSpent before addSpent's Update, which stores `value`; then the agent's
\* result is final.
Record(a, value) ==
  /\ \/ /\ spentCell = "nil"
        /\ MoveAgent(a, "recordOK", "initOK") \/ MoveAgent(a, "recordErr", "initErr")
        /\ UNCHANGED spent
     \/ /\ spentCell = "live"
        /\ MoveAgent(a, "recordOK", "passed") \/ MoveAgent(a, "recordErr", "failed")
        /\ spent' = value
  /\ UNCHANGED <<runVars, stage, preGate, limit, used, total, spentCell, tree>>

\* Mutant of RecordSpend: the counter is set, not updated.
SetSpent(a) == Record(a, used[a])

\* addSpent of the metrics' total, on success and on error.
RecordSpend(a) == Record(a, spent + used[a])

(***************************************************************************)
(* Collecting a tier and running its gates (Run, runGates)                 *)
(***************************************************************************)

\* Mutant of TierDone: wg.Done at the end of a stage goroutine instead of in a
\* defer, so that the early returns of runStage never count.
TierDoneUndeferred ==
  /\ runner = "wait"
  /\ \A s \in tier : stage[s] \in {"passed", "failed"}
  /\ runner' = "collect"
  /\ UNCHANGED <<placed, tier, stage, preGate, agent, limit, money,
                 tree, reported, completed, current, gate, gated, outcome>>

\* runTier's wg.Wait.
TierDone ==
  /\ runner = "wait"
  /\ \A s \in tier : stage[s] \in StageFinal
  /\ runner' = "collect"
  /\ UNCHANGED <<placed, tier, stage, preGate, agent, limit, money,
                 tree, reported, completed, current, gate, gated, outcome>>

\* The next result of the tier.  TopologicalOrder ranges over a map, so the
\* order within a tier is arbitrary.  A failed stage ends Run at once.
Collect(s) ==
  /\ runner = "collect"
  /\ s \in tier
  /\ reported[s] = "absent"
  /\ reported' = [reported EXCEPT ![s] = stage[s]]
  /\ completed' = [completed EXCEPT ![s] = stage[s]]
  /\ current' = s
  /\ gate' = 1
  /\ IF stage[s] = "failed"
     THEN runner' = "done" /\ outcome' = "failed"
     ELSE runner' = "gates" /\ outcome' = outcome
  /\ UNCHANGED <<placed, tier, stage, preGate, agent, limit, money,
                 tree, gated>>

\* Mutant of HasUncommittedChanges: `git diff --cached` sees no agent's edit.
HasStagedChanges == ~GitRepo

\* hasUncommittedChanges: outside a git checkout the diff fails and counts as
\* dirty; neither untracked files nor commits show in `git diff HEAD`.
HasUncommittedChanges == ~GitRepo \/ \E s \in Stages : tree[s] = "modified"

\* runGates returned nil: on to the tier's next result, or to the next tier.
GatesReturn ==
  /\ runner' = IF \E s \in tier : reported[s] = "absent" THEN "collect" ELSE "next"
  /\ current' = NoStage
  /\ UNCHANGED <<placed, tier, stage, preGate, agent, limit, money,
                 tree, reported, completed, gate, outcome>>

SkipGates ==
  /\ runner = "gates"
  /\ gate = 1
  /\ Gates[current] = <<>> \/ ~HasUncommittedChanges
  /\ GatesReturn
  /\ gated' = gated

GateRunning ==
  /\ runner = "gates"
  /\ gate <= Len(Gates[current])
  /\ gate = 1 => HasUncommittedChanges

GatePasses ==
  /\ GateRunning
  /\ gate' = gate + 1
  /\ UNCHANGED <<runner, placed, tier, stage, preGate, agent, limit, money, tree, reported, completed, current, gated, outcome>>

GatesPassed ==
  /\ runner = "gates"
  /\ gate > 1
  /\ gate > Len(Gates[current])
  /\ GatesReturn
  /\ gated' = gated \cup {current}

\* Mutants of GateFails: the report's status is not set; the policy is recorded
\* where a status belongs.
GateFailureUnreported ==
  /\ GateRunning
  /\ runner' = "done"
  /\ UNCHANGED <<placed, tier, stage, preGate, agent, limit, money,
                 tree, reported, completed, current, gate, gated, outcome>>
GateRecordsPolicy ==
  /\ GateRunning
  /\ runner' = "done"
  /\ outcome' = "failed"
  /\ completed' = [completed EXCEPT ![current] = Gates[current][gate]]
  /\ UNCHANGED <<placed, tier, stage, preGate, agent, limit, money,
                 tree, reported, current, gate, gated>>

\* "revert" changes the status in completedStages, after report.Stages got its
\* copy, and nothing else.
GateFails ==
  /\ GateRunning
  /\ runner' = "done"
  /\ outcome' = "failed"
  /\ completed' = IF Gates[current][gate] = "revert"
                  THEN [completed EXCEPT ![current] = "reverted"] ELSE completed
  /\ UNCHANGED <<placed, tier, stage, preGate, agent, limit, money,
                 tree, reported, current, gate, gated>>

(***************************************************************************)
(* The specification                                                       *)
(***************************************************************************)

StageStep(s) ==
  \/ PreGateContinues(s)
  \/ PreGateFails(s)
  \/ StartAgents(s)
  \/ ExpandFails(s)
  \/ ExpandEmpty(s)
  \/ FinishStage(s)

AgentStep(a) ==
  \/ CheckBudget(a)
  \/ InitSpent(a)
  \/ InvokeAgent(a)
  \/ CallbackFails(a)
  \/ ModelCall(a)
  \/ FinalCall(a)
  \/ ModelReturns(a)
  \/ Hang(a)
  \/ RecordSpend(a)

RunnerStep ==
  \/ StartTier
  \/ Finish
  \/ TierDone
  \/ \E s \in Stages : Collect(s)
  \/ SkipGates
  \/ GatePasses
  \/ GatesPassed
  \/ GateFails

\* Run has returned, or waits for an agent that never will.
Returned ==
  /\ runner = "done" \/ \E a \in Agents : agent[a] = "hung"
  /\ UNCHANGED vars

Next ==
  \/ RunnerStep
  \/ \E s \in Stages : StageStep(s)
  \/ \E a \in Agents : AgentStep(a)
  \/ Returned

Spec == Init /\ [][Next]_vars

\* The Go scheduler runs every runnable goroutine; gate commands end, and a model
\* run ends, because its iteration budget is finite, unless a tool of it hangs:
\* no step leads out of "hung", and fairness asks for none.
FairSpec ==
  /\ Spec
  /\ WF_vars(RunnerStep)
  /\ \A s \in Stages : WF_vars(StageStep(s))
  /\ \A a \in Agents : WF_vars(AgentStep(a))

(***************************************************************************)
(* Properties                                                              *)
(***************************************************************************)

\* A stage is cleared when its result was collected and runGates returned nil.
Cleared(s) == reported[s] \in {"passed", "skipped"} /\ s # current

Started(s) == stage[s] # "waiting"

\* Run's ordering promise over the goroutines of the tiers: whenever a stage
\* goroutine exists, every dependency has been collected, did not fail, and its
\* gates were skipped or passed; a dependent never sees a reverted result.
DependenciesCleared ==
  \A s \in Stages : Started(s) =>
    \A d \in DependsOn[s] : Cleared(d) /\ completed[d] = reported[d]

\* The gates look at a tree nobody is editing: while Run collects results and
\* runs gates, and after Run has returned (also early, on a failure), no agent
\* goroutine of any stage is alive.
QuiescentOutsideTier ==
  runner # "wait" => \A a \in Agents : agent[a] \notin Active

PassedReportComplete ==
  runner = "done" /\ outcome = "passed" =>
    \A s \in Stages : Cleared(s) /\ reported[s] = stage[s]

FailedReportNamesCulprit ==
  outcome = "failed" =>
    /\ runner = "done"
    /\ current \in Stages
    /\ \A s \in Stages \ {current} : reported[s] \notin {"failed", "reverted"}
    /\ reported[current] = "failed" \/ Gates[current] # <<>>

\* A report that says "passed" is complete: every stage was run and reported,
\* none failed and no gate failed on the way (Kahn's tiers drop no stage).  A
\* failed run stops at one culprit: exactly the stage being processed failed or
\* failed its gate, and everything else in the report is cleared.
ReportIsHonest == PassedReportComplete /\ FailedReportNamesCulprit

\* Uncommitted work on a tracked file is gated before anyone builds on it: if a
\* stage left a modification that nobody has committed, then whoever starts after
\* it starts after its gates passed.  Work that an agent committed is excepted
\* (TrackedChangesAreGated below): runGates looks at `git diff HEAD` alone.
UncommittedWorkGated ==
  \A s \in Stages : Started(s) =>
    \A d \in DependsOn[s] :
      tree[d] = "modified" /\ Gates[d] # <<>> => d \in gated

SpentNeverOvercounts ==
  \A a \in Agents : agent[a] \in Active => spent + used[a] <= total

SpentLostOnlyInFirstTier ==
  spent' < spent => \A a \in Agents : agent[a] # "idle" => StageOf[a] \in tier

\* Runner.spent never counts more than was really spent, whoever is still
\* running: an agent's cost is added at most once and only when it returned.  And
\* getSpent's unlocked initialisation can only throw spending away while the
\* first goroutines that have a budget run; the tier barrier orders the rest.
SpentIsSound == []SpentNeverOvercounts /\ [][SpentLostOnlyInFirstTier]_vars

\* The ceiling --max-cost stands for: the model calls of all agents together
\* exceed it by less than the call that was in flight when it was reached and
\* the final call of that agent.
CostCeiling == MaxCost > 0 => total < MaxCost + 2 * MaxCallCost

\* All that is left of the tier is hung agents and the stages that wait for them.
OnlyHungLeft ==
  /\ \A a \in Agents : agent[a] \in Active => agent[a] = "hung"
  /\ \A s \in tier : stage[s] \in StageFinal \/ \E a \in AgentsOf(s) : agent[a] = "hung"

\* Run returns unless a tool of an agent never does: its two nested wait groups
\* hang for no other reason, whatever early returns, failures and budget checks
\* the goroutines go through, and a hung agent holds up its own stage alone: the
\* other goroutines of the tier still end.
RunReturns ==
  <>(runner = "done" \/ (OnlyHungLeft /\ \E a \in Agents : agent[a] = "hung"))

\* The pipeline implements StageGraph: a stage is started with its tier and
\* judged when Run has collected it and run its gates.
phaseBar ==
  [s \in Stages |->
     IF s \notin placed THEN "waiting"
     ELSE IF Cleared(s) THEN "cleared"
     ELSE IF outcome = "failed" /\ s = current THEN "rejected"
     ELSE "started"]

SG == INSTANCE StageGraph WITH phase <- phaseBar
ImplementsStageGraph == SG!Spec

(***************************************************************************)
(* Claims of the documentation that the code does not keep                 *)
(***************************************************************************)

\* The cost recorded for the finished agents is what they spent.
SpentIsExact ==
  spentCell = "live" /\ (\A a \in Agents : agent[a] \notin Active) => spent = total

\* A failed pre-gate with on_error "stop" stops the pipeline: such a run does
\* not end with a report that says "passed".
StoppedByPreGate(s) ==
  /\ stage[s] = "skipped"
  /\ preGate[s] <= Len(PreGates[s])
  /\ PreGates[s][preGate[s]] = "stop"

StopPreGateStops ==
  runner = "done" /\ outcome = "passed" => \A s \in Stages : ~StoppedByPreGate(s)

\* A gate with on_failure "revert" undoes the stage's changes when it fails.
RevertUndoesChanges ==
  \A s \in Stages : completed[s] = "reverted" => tree[s] = "none"

\* The report of a run shows that a stage was reverted.
RevertIsReported ==
  \A s \in Stages : completed[s] = "reverted" => reported[s] = "reverted"

\* Gates are skipped only when the stage produced no file changes.
ChangesAreGated ==
  \A s \in Stages :
    Cleared(s) /\ tree[s] # "none" /\ Gates[s] # <<>> => s \in gated

\* The same of tracked files alone: whoever builds on a stage that changed them
\* builds on gated work.
TrackedChangesAreGated ==
  \A s \in Stages : Started(s) =>
    \A d \in DependsOn[s] :
      tree[d] \in {"modified", "committed"} /\ Gates[d] # <<>> => d \in gated

=============================================================================
