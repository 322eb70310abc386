# squad: TLA+ models, TLC runs and TLAPS proofs

squad is a Go command line that runs AI agents unattended: a *run* builds an
agent's prompt, calls a language model in a loop, executes the tools it asks
for, and reports. Composed agents are *pipelines* of stages. This directory
holds a model of the parts of squad that are hard to get right and hard to
test: goroutines that share counters, budgets that are read before they are
spent, results collected while siblings run, policies that cross function
boundaries.

## 1. Inventory

| Component | State it keeps | Operations | Hard behaviour |
|---|---|---|---|
| pipeline runner (`pipeline/`, `cmd/squad/pipeline.go`) | completed stages, report, shared `spent` counter, summary cache | Run, runTier, runStage, runPreGates, runAgent, runGates | goroutines per stage and per agent; a counter allocated without a lock; gates over a shared working tree; early return |
| Task tool (`tools/task.go`, `runner/model.go`) | per-run task registry (semaphore, results), metrics tree | Task, TaskResult, SpawnTask, InvokeModel | nested runs, background goroutines, blocking collection, budgets inherited down the tree |
| shard runner (`runner/shard.go`) | result slots, semaphore, cancel once | runSharded, runOneShard | bounded pool, stop on error while others start |
| isolation (`runner/isolation.go`, `runner/run.go`) | worktree, branch, stash | PrepareIsolation, Teardown | external git steps that fail half way, cancelled contexts |
| tool loop (`tools/tools.go`, `efficiency.go`, `loopdetect.go`, `retry.go`, `filetracker.go`) | enforcers, grace period, read cache, loop detector, attempts | toolLoop, executeToolCall, compaction, retryGenerateContent, finishToolLoop | several stop conditions that count different batches; a cache over a conversation that is cut |
| sign-off (`tools/signoff.go`, `confirm.go`, `runner/signoff_claude.go`) | approved latch, review mutex, the terminal | ProposePlan, ReviewPlan, Confirm, canUseTool | one latch and one terminal shared by a tree of agents; lines typed ahead |
| shell commands (`tools/bgcmd.go`, `cmdsafety.go`, `executor/`) | command table, outputs, connection, container | Bash, BashBackground, BashOutput, Close | a goroutine per command; a child that outlives its shell; an interrupt |
| findings (`tools/findings.go`) | a map | Add, All | shared by parallel agents |
| Responses loop (`responses/`) | previous response id, pending calls | RunWithTools, toolLoop, resolvePendingCalls, requestFinal | state on a server; a budget check after the answer |
| sessions (`session/`) | event log, meta file, index | New, Open, Append, SetLastResponseID, Finish, List | crash between two files; two runs that resume one session |
| metrics (`metrics/`) | tokens, children, cost cap | AddTokens, AddChild, RemainingBudget | concurrent readers, double roll-up |
| routines: store and watch (`routine/storage*.go`, `roots.go`) | entries, roots, watched directories, event channel | LoadAll, Watch, watchLoop, diffAndEmit, Create/Update/Delete | a debounce timer's goroutine beside the loop, a bounded channel, edits by other processes |
| routines: scheduler (`routine/scheduler.go`, `catchup.go`, `state.go`, `routine/daemon`) | jobs, state files | Sync, ApplyEvent, runFire, FindMissedFires, QueueCatchups, run-now | crashes between two saves, fires from three sources, missed instants |
| services (`routine/service`) | unit files | install, uninstall | platform I/O |
| MCP client (`mcp/`) | client connections | Connect, Call, Close | subprocess life cycle |
| agentic CLIs (`agenticcli/`) | child process, its streams, pending permissions | Run, RunLive, handle, watchdog | permission protocol over stdio; a child that hangs |
| skills (`skill/`, `tools/skill.go`) | catalog, stack of active skills | Discover, Filter, Push, AllowsTool, Resolve, rehydrate | stack rebuilt from a log that a crash cuts; calls beside a load in one batch |
| agents (`agent/`) | manifests, bundles | Validate, BuildBundle | limits handed down a tree of runs |
| sources (`source/`, `config/`, `cmd/squad/agents.go`, `skill.go`) | clones, configuration file | add, pin, remove, update, init, find | processes that each write back all of a file; clones killed half-way |
| dashboard (`ui/`, `watch/`, `cmd/squad/ui.go`) | rows, tailers, children, pairs | scan, tail, launch, cancel, resume, settle | reads files while others write them; tells dead runs from silent ones |
| grading, browser, scaffold, telemetry, logging, ollama | files, settings | load, save | mostly pure or I/O |

**How they interact.** The CLI builds a `RunOptions` and calls `ExecuteRun`
(isolation, session, then `InvokeModel` or `runSharded`) or, for a composed
agent, `pipeline.Runner.Run`, whose callback also ends in `InvokeModel`.
`InvokeModel` builds the executor, MCP clients and task registry of one run and
enters a tool loop (`tools.RunWithTools` or `responses.RunWithTools`). The Task
tool calls `InvokeModel` again for a child run, blocking or in a goroutine.
Cost flows back by `metrics.AddChild` (Task, shards) and by `addSpent`
(pipeline). The working tree is shared by everything without isolation.

What makes each component correct, in one line: *pipeline* - nothing starts
before its dependencies were cleared, the report tells the truth, spending is
bounded; *Task tree* - limits are inherited, collected results are final,
nothing hangs; *shards* - every file is processed or reported, the pool bound
holds; *isolation* - the user's work survives; *tool loop* - it ends, for the
right reason; *run* - the session and the report say what happened; *sign-off* -
no mutation before approval; *routines* - a due routine fires once and never
overlaps itself; *dashboard* - rows match the runs; *skills* - restrictions last
as long as the run; *sources* - pins hold; *delegation* - limits only tighten;
*commands* - an answer is final.

## 2. Modules and the code they model

| Module | Code | Theorems | TLC instance |
|---|---|---|---|
| `StageGraph` | what a pipeline promises: stages start when all they depend on have succeeded or been skipped, and end once | - | used by `Pipeline` |
| `Invocations` | what `InvokeModel` promises its callers: requests and batches alternate, none over the budget but the closing one, and what ends stays ended | `TaskTreeProofs` | used by `TaskTree`, `ToolLoop` |
| `Pipeline` | `pipeline/runner.go`, `pipeline.go`, `partition.go`, the callback in `cmd/squad/pipeline.go` | `PipelineProofs` | `MCPipeline` |
| `TaskTree` | `tools/task.go`, `runner/model.go`, `metrics/metrics.go`, the budget checks of `tools/tools.go` | `TaskTreeProofs` | `MCTaskTree` |
| `Shard` | `runner/shard.go` from `runSharded` to `summarize`, the snapshots of `runner/agentic.go` | `ShardProofs` | `MCShard` |
| `ShardSplit` | `runner/shard.go`: the work-list and its cut into shards | `ShardProofs` | `MCPreparation` |
| `Isolation` | `runner/isolation.go`, the deferred teardown in `runner/run.go` | `IsolationProofs` | `MCIsolation` |
| `RoutineStore` | `routine/storage.go`, `storage_watch.go`, `roots.go`, `Sync` and `ApplyEvent` of `scheduler.go`, the wiring in `routine/daemon` | `RoutineStoreProofs` | `MCRoutineStore` |
| `RoutineFires` | `runFire`, `RunNow` and `addJob` of `routine/scheduler.go`, `catchup.go`, `state.go`, `routine/daemon`, `routine run-now` | `RoutineFiresProofs` | `MCRoutineFires` |
| `LoopPromise` | what the caller of `RunWithTools` sees of a tool loop, and is promised | `TaskTreeProofs` | used by `ToolLoop` |
| `ToolLoop` | `tools/tools.go`, `efficiency.go`, `loopdetect.go`, `filetracker.go`, `retry.go` | `TaskTreeProofs` | `MCToolLoop` |
| `AgentRun` | `runner/run.go`, `model.go`, `apply.go`, `agentic.go`, `responses/responses.go`, `session/` | `AgentRunProofs` | `MCAgentRun` |
| `Dashboard` | `ui/app`, `ui/registry`, `ui/pane`, `watch/`, what `session/` writes | `RoutineFiresProofs` | `Dashboard` |
| `SignOff` | `tools/signoff.go`, `confirm.go`, `runner/signoff_claude.go`, `agenticcli/claude_live.go` | `SignOffProofs` | `MCSignOff` |
| `Skills` | `skill/`, `tools/skill.go`, the skill runtime in `runner/model.go`, the batches of `tools/tools.go` and `responses.go` | `AgentRunProofs` | `MCPreparation` |
| `Sources` | `source/`, `config/`, `cmd/squad/agents.go`, `skill.go`, `config.go` | `AgentRunProofs` | `MCSources`, `MCPreparation` |
| `Delegation` | model, limits and tools of a run: `runner/run.go`, `model.go`, `composed.go`, `cmd/squad/run.go`, `pipeline.go`, `metrics/apikey.go` | `IsolationProofs` | `MCPreparation` |
| `Commands` | `tools/bgcmd.go`, `cmdsafety.go`, the shell tools, `executor/` | `IsolationProofs` | `MCPreparation` |
| `DashboardPromise`, `SkillsPromise`, `SourcesPromise`, `ShardSplitPromise`, `DelegationPromise`, `CommandsPromise` | what the module of the same name promises, and the state it promises it of | where that module's are | used by that module |

Conventions. An action is one step between two points where another goroutine,
process or the user can interfere: a lock region, a channel operation, a model
call, a git command, a write of a file. Variables keep the name of the field
they stand for (`spent`, `awaiting` for a pending `GetResult`, `stashRef`,
`entries`). History variables, which no guard reads, are marked as such. An
operator named *mutant* is the definition after it with a plausible bug; no
specification uses it. The claims of comments and documents that the code does
not keep stand at the end of each module (section 6).

**Pipeline.** `runner` is the position of the goroutine in `Run`: `next`
(choose a tier), `wait` (`wg.Wait` of `runTier`), `collect` (append a result),
`gates` (`runGates` after it), `done`. `stage` and `agent` are the positions of
the goroutines of `runStage` and `runAgent`. `spentCell` and `spent` are the
lazily allocated counter: the nil test, the allocation and the update are
separate steps, because no lock covers them. `tree` says of a stage's edits what
git shows of them: new files alone, a modification, or a modification that an
agent has committed, which leaves `git diff HEAD` clean as new files do. An agent
may be `hung`: a tool that waits for something that never comes. `report.Stages` and `completedStages` are two
variables, `reported` and `completed`, as the code keeps two copies. The module
implements `StageGraph` under the mapping at the end of `Pipeline`.

**TaskTree.** A run is a node of the tree of `InvokeModel` calls; its `phase`
runs from `queued` (a background task before the semaphore) over `dispatch`,
`model` and `tools` to `returned`, `released` (the slot) and `ended` (`Done` is
closed): the deferred calls of `SpawnTask` run in that order. `slots` belongs to
the parent's registry. `cap` is the budget a child inherits, `own` and `rolled`
the two halves of its metrics. Tool calls of one batch run in parallel; the
model decides which ones come. Under the mapping at the end of its properties
(`stageBar`, `overBar`) a tree implements `Invocations`, one for each run.

**Shard.** `phase` is the position of a shard's goroutine, `slots` the fill of
the semaphore, `cancelled` the state of `runCtx`. The outcome of a shard is in
`error`, `applied`, `metered` and `claims`; `report` is the merge. The policy
comes from the agent's manifest, so it is chosen in `Init`, and so is whether the
provider is native or a CLI (`external`). A native shard records its own edits;
CLIs edit and commit in one `tree`, and a shard compares what git says of it
(`gitView`) with its snapshot `before`. `stirred` is history: the shards whose
CLI ran while somebody changed the tree.

**ShardSplit.** A loop iteration per step over the matches of all patterns:
filter and deduplicate, sort, group by directory, cut into batches.

**Isolation.** Changes are atoms with an author and a file; they move between
the working tree, the index, the history, the stash and worktrees as the git
commands move them. A git command is one step, and fails when the command's
context is cancelled. Two runs and the user share one checkout. What an agent
leaves behind, background tasks and commands, goes on editing and committing while
the run is torn down (`Working`). `made`, `userStashed` and `late` are history:
what has been changed by now, whether the user has stashed anything, and what was
written to a worktree after its status was read.

**RoutineStore.** The disk (`disk`, `rootsFile`, `dirs`) is changed by other
processes at any time. `entries` is the store, `jobs` maps a routine to the
entry its gocron job was made from. `pending` is what waits in `w.Events`,
`timer` the debounce timer, `reloads` the goroutines in `diffAndEmit` (its lock
regions are separate steps), `events` the channel. `ApplyEvent` reads a
`snapshot` under one lock and calls `Sync` under the next. A reload may fail, and
nothing tries it again. `unnoticed` and `unread` are history: the routines whose
change raised no event, and those that differed when a reload failed and that none
has read since.

**RoutineFires.** `fires` holds the goroutines in `runFire`, whatever started
them; `state` the state files; time is counted in instants at which a schedule
may be due. `Exit` is a crash or the end of a shutdown at any moment. gocron is
external: a fire waits for the limit, a job's second fire is skipped.

**ToolLoop.** One `toolLoop`: `pc` is at the model, in the calls of its batch or
after it. What the enforcers, the grace period, the loop detector and the retry
counter know are separate fields, as in the code, since each counts other
batches. A file's content is known as it is or as it was; the conversation holds
it in full, as a stub or not at all, and the two compactions take it out. Other
processes change files between any two steps. What a caller sees and is promised
is declared in `LoopPromise`; the theorems, like those on the tree of runs in
which every run has such a loop, are in `TaskTreeProofs`, where `Loop` is a loop
whose `phase` (of `PhaseEnforcer`) is called `enforcer`. A loop implements
`Invocations` for one agent.

**AgentRun.** A run is a process that may be killed at any step. `session` and
`index` are what it leaves on disk, `logger` its own copy of `meta.json`, which
every write puts back as a whole. The Responses loop is modelled call by call;
the stateless tool loop (`ToolLoop` in detail) and an external CLI are one step
each that edits or does not, fails or answers. What follows the answer (check,
patch, output, status) is in `Handle` and `CloseSession`.

**Dashboard.** `Frame` is one pass of the program's message loop. A tailer keeps
its offset and the mtime it parsed last; runs of other terminals append events,
rewrite `meta.json`, die and are resumed. Rows, pairs, children and the
selection are those of `ui/app`. A child launched from the dashboard ends at its
flags, as `squad run` declares no `--prompt`.

**SignOff.** A reader at the terminal takes one line at a time from what was
typed; `mu` is the review mutex and `approved` the latch of the whole run. `Root`
is the run's own agent: with `--apply` (`Applies`) the diff in its response patches
the tree (`patched`), and the gate is not asked.
`claude` is external and free in what it writes, up to asking before it edits.

**Skills.** Discovery, shadowing and filtering are operators; a batch of calls
is executed as the provider's loop does it (in parallel, or one after the other
round a serial tool). `log` holds the `skill_loaded` events of the session, from
which `Rehydrate` rebuilds the stack after a crash.

**Sources.** A process per command: it loads the file, edits its copy, empties
the file, writes it, and then updates clones one at a time. go-git is external.

**Delegation.** `frames` is the chain of runs that are active, each with its
model, endpoint, limits, iterations and tools, as flags, configuration, manifest,
credentials and the parent determine them.

**Commands.** `jobs` are the commands of a run, each with its process, its
output and the goroutine that stores the answer; `box` is the container of a
docker executor; `loop` says what the tool loop waits for.

**MCPreparation.** `Skills`, `Sources`, `ShardSplit`, `Delegation` and `Commands`
share no state, so TLC explores them in one run: `Init` chooses a subject, and
`Next` is that subject's. `PreparationValues` holds the values of their
constants, which `MCSources` uses as well, for that part alone. A property of
a part stands in the part's promise module, which `MCPreparation` and the module
with the theorems both extend: the run and the theorem speak of the same formula.
What is not the subject has nothing to say: no agents, clones, frames or jobs, no
answer, no shards.

How they compose: `Pipeline` calls a model run per agent, `TaskTree` is the tree
of runs below one, `Delegation` says what each of them runs with, `AgentRun` is
one of them from its flags to its session, and `ToolLoop` one loop inside it.
What a loop does and what `TaskTree` takes a run to do are two implementations
of the same `Invocations`.
Each keeps of the others only the cost, the verdict and whether files were
edited. `Shard` stands beside `TaskTree`, and `Isolation` wraps one run.
`Skills`, `SignOff` and `Commands` are what a call of the loop meets. `Dashboard`
reads what `AgentRun` writes. `RoutineFires` sees the reloads of `RoutineStore`
as jobs that are replaced (`ReplaceJob`).

## 3. Runs, their bounds, and what they show

| Run | Shows | Bounds |
|---|---|---|
| `pipeline_core` | the report tells what happened, uncommitted work is gated, what is lost of `spent` and when, the refinement of `StageGraph`; under fairness, the run returns unless a tool hangs, which holds up no stage but its own: `ReportIsHonest`, `UncommittedWorkGated`, `SpentIsSound`, `ImplementsStageGraph`, `RunReturns` | 3 stages in 2 tiers with 4 agents, one stage partitioned; `MaxCost` 2, calls of cost 1, `RunBudget` 2 |
| `tasktree_core` | slots come back once, delivered results never change, every run ends: `SlotsAccounted`, `ResultsAreFinal`, `RunsEnd` | 2 children, nested or not, one slot, `MaxCost` 2 |
| `shard_core` | the bound on failures after a stop, what vouches for a shard's edits, honest totals; under fairness, the run returns: `StopBoundsFailures`, `OutcomesAreHonest`, `RunReturns` | 3 shards, pool of 2, both policies, a native provider or CLIs in one tree, `MaxCost` 1 |
| `isolation_shared` | nobody's work is lost, worktrees are exclusive, what is uncommitted when a worktree's status is read survives, the stash of a run that nobody disturbed is popped, also after a failed agent: `UserWorkIsSafe`, `WorktreesAreExclusive`, `UncommittedWorkIsKept`, `RestoredWhenAlone` | two runs in every pair of modes, files shared or not, user edits, one user stash, edits and commits during teardown, interrupts, rejected commits, 2 clock ticks |
| `routine_store` | the store follows the disk, up to changes that raised no event or that a failed reload lost, and the jobs follow the store; the daemon comes to rest: `StoreFollowsDisk`, `JobsFollowStore`, `ComesToRest` | two routines, one repository, 2 edits, 2 overlapping reloads, each of which may fail, a channel of 1, 2 starts |
| `routine_fires` | truthful state files, no repeated and no forgotten catch-up: `RunningIsTrue`, `LastRunIsLatest`, `OwedIsServed` | two routines, one with catch-up, 2 fires at a time, one slot, 2 starts, 2 instants, one run-now |
| `toolloop_core` | an agent that edits is not stopped by its deadline, an idle one is stopped in time, the loop returns: `DeadlineOnlyWithoutEdits`, `IdlingIsBounded`, `LoopReturns` | 3 iterations, 2 files, 6 batches (read, shell read, two calls, search, read beside an edit, refused edit), deadlines 1 and 2, grace 1, 2 attempts, one change by others |
| `agentrun_core` | sessions say how runs ended and where to continue; a report of edits is backed by changes: `StatusIsOutcome`, `ResumesContinue`, `ReportsAreBacked` | two runs, killed anywhere; Responses or stateless, resumed or external CLI; in a git repository or not; 2 iterations, 3 kinds of answer |
| `dashboard_core` | no event is lost or counted twice, a launch serves one row, dead runs settle: `TailIsExact`, `LaunchesPairOnce`, `DeadRowsSettle` | 2 sessions, 2 launches or events, a coarse clock, crashes and resumption |
| `signoff_core` | no tool and no session edits without an approving answer, every answer meets the plan shown last, a session ends after its result: `EditsAreApproved`, `AnswersMeetLastPlan`, `SessionsEnd` | a native agent, whose response `--apply` applies, and a claude session, 3 lines, 3 events, a pipe of 1 |
| `preparation_core` | restrictions and files of loaded skills last through batches, crashes and resumes (`LoadsSurvive`, `RestrictionsHold`); pins hold (`PinsFreeze`); shards partition the work-list with whole packages and full batches (`ShardsPartitionFiles`); limits and caps bind the tree of runs (`LimitsHold`, `CapsBind`); a command said to be completed is (`AnswersAreFinal`) | 3 disks of skills, 3 batches, 1 crash; 1 process, 4 commands out of 19, 2 commits; every sequence of up to 4 matches of 5 files; 4 manifests, 8 command lines, 4 configurations, 5 environments, depth 4; 5 commands, 4 executors, 2 calls |
| `pipeline_ChangesAreGated` | a disagreement (section 6): new files, or committed ones, are not gated | as `pipeline_core` |

Why the bounds are enough to be worth something. A race needs two goroutines
that do the same and a third that sees the result: every run has them (two
agents in the first tier and a later tier; two shards in the pool and one
queued; two isolated runs and the user; two reloads and a consumer; two runs in
one tree; an agent and a session at one terminal). Budgets are two calls deep,
so that a budget is met exactly, exceeded by the call in flight, and left over.
The channel of one event is full after one change; the second edit of
`routine_store` can hit every point of the reload that the first started. Two
starts of the daemon give a crash between any two saves and the restart after
it; one crash in `Skills`, and a kill at every step of `AgentRun` and `Sources`,
do the same. Three iterations of a tool loop reach the deadline, its grace and
what follows. A chain of four frames has a run whose limits came from a
grandparent. What the bounds leave out (a third tier, longer chains) the
theorems of section 5 cover for the safety properties.

Bounds that are in guards of a module are named in its `CONSTANTS` as *bound*.
`CHECK_DEADLOCK FALSE` stands where the system stops when its runs are over, or
where its outside may fall silent.

Further configurations, for one part alone: `Isolation_alone` (one run, the base
of the claims in section 6) and `Sources_core` (`UpdatesReach` and `TypeOK` too).
`CostCeiling` and `SpentIsExact` of `Pipeline`, which fail in `Pipeline_core`
(section 6), hold in it when its constants are `MCPipeline`'s of the chain, three
stages of one agent in a row (`Stages <- ChainStages` and so on,
`Partitioned = {}`, `MaxCost = 4`, `MaxCallCost = 2`, `RunBudget = 7`).
The invariants below
also hold in the core configuration of their module and can be added to it:
`TypeOK` of every module; `DependenciesCleared`, `QuiescentOutsideTier`
(`Pipeline`); `PoolAccounted`, `ContinueRunsAll` (`Shard`); `CatchUpIsDue` (`RoutineFires`); `StubsReferToContent`,
`SpendingStops` (`ToolLoop`); `SpendingStops` (`AgentRun`); `RowsAreSessions`
(`Dashboard`); the action property `RefusedIsQuiet` (`SignOff`).

## 4. Fairness, and why the code justifies it

- A goroutine that can run does run: `WF` of the steps of each goroutine
  (`RunStep`, `ShardStep`, the agents and the runner of `Pipeline`, `DaemonStep`).
- A call of the model or of a tool returns: every one has a context with a
  deadline or an iteration budget (`RunBudget` stands for `--max-iterations`),
  and a batch of tool calls is a finite list (`EndTools`). One tool may not:
  BashOutput waits for its command whatever the context says (`bgcmd.go:184`). In
  `Pipeline` an agent may therefore hang at any call (`Hang`), and no fairness
  brings it back: `RunReturns` says that the run returns, or else comes to hold
  nothing but hung agents and the stages that wait for them. `TaskTree`, `Shard`
  and `ToolLoop` leave this tool to `Commands` (`InterruptsExit`, section 6) and
  assume that calls return.
- Nobody is obliged to edit, to interrupt, to crash or to ask for a Task: such
  actions have no fairness.
- The semaphores of Go are not assumed fair. `WF` of the acquiring goroutine is
  enough in `Shard` and `TaskTree`, where slots are given back and the number
  of competitors is finite.
- `RoutineStore`: `WF` of the daemon as a whole, so `ComesToRest` does not
  depend on which of its goroutines is favoured.
- `RoutineFires`: only the first two steps of a fire are fair; agents may run
  for ever, because `FireTimeout` is off by default.
- `ToolLoop`: the loop goes on (`Model`, `ToolCalls`, `After`): a call of the
  model returns or fails by its context, and a batch is finite.
- `SignOff`: the squad side of a session (`Handle`, `Drained`, `Watchdog`,
  `Waited`). Neither the user nor claude owes anything; the watchdog kills claude
  after its result, so `SessionsEnd` needs no fairness of claude.
- `Dashboard`: the frame of the program's ticker, and time.
- `Commands`: fairness is stated in `FairSpec`, for `InterruptsExit` only, and
  covers the executors, the processes that end by themselves and the return of
  an interrupted loop.

## 5. What is proved

Each theorem holds for every value of the constants under the module's
assumption, which says what the code's validation guarantees: `Validate`,
`validateStages` (a stage names an agent: `StagesHaveAgents`) and `detectCycle`
for pipelines; positive pool sizes and limits, which the defaults
give; a channel of at least one event; authors of changes for `Isolation`. Sets
of runs, routines, shards, agents and files are finite, of any size.

- `PipelineProofs`: `TypeCorrect`, `DependenciesAreCleared`,
  `QuiescenceOutsideTier`, `ReportHonest`, and
  `PipelineImplementsStageGraph`: initial states map to initial states and every
  step to a step of `StageGraph` or a stutter. The induction carries, besides
  types, that results are reported only of stages of the tiers taken, in step
  with the runner's position, and that a stage outside the tier is not running.
  `UncommittedWorkIsGated` adds that a stage which left a modification that nobody
  committed is cleared only after its gates have passed (`GatedInv`); of one that
  an agent committed it says nothing (`TrackedChangesAreGated`, section 6).
  `SpentSound` is about sums over agents. Instead of a sum its invariant
  (`MoneyInv`) says that there is a *measure*, a function of sets of agents that
  is additive over disjoint ones, which gives all agents the true total and those
  that have recorded their cost at least what the counter holds. That recorded
  costs are thrown away in the first tier only follows from `CounterByTier`: an
  agent that passed has left the counter allocated, and one that still allocates
  read nil before any agent of an earlier tier could have passed.
- `TaskTreeProofs`, for the tree of runs: `TypeCorrect`, `SlotsAreAccounted`,
  `DepthIsBounded`, `CapsOnlyShrink`, `OwnCostsAreCapped`, `ResultsFinal`.
  `SlotsAccounted` alone is not inductive: a step of a child must be known not to
  change its parent or its phase behind the registry's back, so the invariant
  adds the shape of the tree, the costs by phase, that a waiting run is in its
  tools, and that what was delivered has ended.
- `TaskTreeProofs`, for the loop of each run: `LoopTypeCorrect`, `DeadlineSound`,
  `IdlingSound`, `StubsSound`, `LoopSpendingSound`. An edit reported in full has
  disarmed the enforcers, or is in the batch that still runs and will
  (`WholeInv`); the bound on idling follows from an account of every idle batch
  (`Accounted`): below the deadline it is in `EditEnforcer`'s count, beyond it the
  grace period has lost one for it, and the batch that runs was paid for when it
  was requested. Changes by others and the two compactions interleave with this
  in any order; a stub is sound because only a compaction that raises the epoch
  takes content out altogether.
- `TaskTreeProofs`, for both: `RunsAreInvocations` and `LoopIsInvocation`, two
  refinements of `Invocations`, each action by each: a step of the tree or of a
  loop is a step of one invocation or none. So what is abstracted of a loop in the
  tree is what the loop, with its enforcers, retries and cancellations, does. The
  tree needs `BudgetInv` for it, that a run which has not started has cost
  nothing and one that may ask for more is within its budget, and that the cost of
  a child is charged to a parent that is in a batch (`WaitsInTools`); the loop
  needs `LateInv` and `ClosingInv`. The two are no properties of a run, since all
  that a run needs of them is in its other properties; adding `PROPERTY
  ImplementsInvocations` to `TaskTree_core.cfg` or `ToolLoop_core.cfg` checks them.
- `ShardProofs`, for the pool: `TypeCorrect`, `PoolIsAccounted`,
  `FailuresAreBounded`, `EveryShardRuns`, `SummarySound`, `OutcomesSound`. The bound on failures needs
  the set of *hot* shards, those that failed or may still fail: it never exceeds
  the pool once the run is cancelled, and it only shrinks then. That nobody
  vouches for a shard but who ran beside it needs `SnapshotHolds`: a CLI under
  which nobody changed the tree finds it as in its snapshot. The totals of the
  merge need that a shard without metrics has cost nothing (`CostSettled`), and
  the lemmas `SumsExist`, `SumsRemove` and `TotalWithoutZeros` on `Total`, whose
  induction over finite sets is by a smallest counterexample.
- `ShardProofs`, for the work-list: `ShardsSound`, over any files, directories,
  sequence of matches and size of a batch (`ShardSplitAssumption`). The loops of
  `ShardSplit` are steps of a state machine, so what they compute follows from loop
  invariants: the list holds what was wanted so far, once (`GlobInv`); the shards
  hold the files before the next batch and are full while a file is left
  (`BatchInv`); a group holds the visited files of its directory (`GroupInv`).
  Sorting is a bijection on places, and neighbourhood in the list is used nowhere.
- `IsolationProofs`, for one run: `TypeCorrect`, `UserWorkSafe`, `WorktreesExclusive`,
  `UncommittedWorkKept`, `RestoredSound`. Safety of the user's work needs that a
  run that is still being prepared has changed nothing, since a failed preparation
  may change its mode; exclusiveness needs that every live run owns the branch of
  its name and its second. `UncommittedWorkKept` is about what was uncommitted when the
  status was read: the step that removes a worktree finds nothing in it but `late`
  work. That unstaged work comes back needs, for a run that is
  alone (`AloneInv`): either nothing is stashed, or its own entry is the only one
  and none of the entry's files is touched, so that the pop cannot be refused.
  `Alone` excepts a file that is staged and changed again, where it can be
  (section 6): the proof did not go through without this exception, and TLC then
  found the trace.
- `IsolationProofs`, for the commands of a run: `AnswersSound`, without an
  assumption. `CommandInv` relates the process of every job, the goroutine that
  stores its answer and the answer (`Settled`); what an answer said remains true
  because every step leaves the output of a job that has succeeded alone
  (`JobsCarryOver`), an interrupt, a broken connection and the end of the container
  included.
- `IsolationProofs`, for the chain of runs: `LimitsSound`, `CapsSound`,
  `DefaultsAuthenticate`, for chains of any length (`MaxDepth` is free), any
  manifests, stages, flags and configurations (`DelegationAssumption`: the lists
  and numbers are lists and numbers, a stage names an agent). `LimitsHold` and `CapsBind` are not
  inductive, since a new frame is computed from the last one only: `IsChain` says of
  any two frames what the later keeps of the earlier (`Below`), that a CLI starts
  nothing, and that what reaches a frame has the types the resolution of limits
  needs; `DelegationInv` adds that the last frame allowed its own edit.
- `RoutineStoreProofs`: `TypeCorrect`, `StoreIsFresh`, `JobsAreInStep`.
  `StoreFollowsDisk` speaks of a quiet daemon only; the invariant says it of every
  moment: a routine that differs from its manifest raised no event (`unnoticed`),
  or differed when a reload failed and has not been read since (`unread`), or a
  reload is to come (an event waits, the timer is armed, or a reload has not read the disk
  yet). `JobsFollowStore` relates the channel, the snapshot and the store: when no
  `Sync` with a later snapshot is to come, the jobs differ from the store only by
  routines whose removal is queued, and such a removal is true (`RestIsDone`,
  `RemovalsAreTrue`).
- `RoutineFiresProofs`, for fires: `TypeCorrect`, `RunningSound`, `LastRunSound`,
  `CatchUpSound`. For a routine whose fires have not overlapped, at most one fire
  is past its start, it finds its own start in the state file, one that has read
  the clock is no earlier than what the file holds, and a killed fire's file says
  "running" (`FilesInv`). `overlapped` is a history variable, since overlap is
  possible (section 6).
- `RoutineFiresProofs`, for the dashboard's view of the runs: `TailSound`,
  `EventsSound`, `LaunchesSound`. `TailInv` counts the events among the lines up to
  the offset; `TailSound` assumes `~Torn` (no reader sees half of a line), without
  which the property fails (section 6), and `EventsSound` says what is left then:
  nothing is counted twice. `LaunchInv` adds to the promise that waiting launches differ
  and that only a known directory has one: the directories that one scan finds,
  ranked newest first, take the oldest waiting launches, which no row has
  (`DashboardAssumption`).
- `SignOffProofs`: `TypeCorrect`, `EditsSound`, `AnswersSound`, `RefusalsAreQuiet`.
  The invariant follows an approval from the line that gave it over the latch and
  claude's pipe to the edit (`SessionInv`, `GateInv`: whoever may edit does so on a
  recorded yes; the patch of `--apply` is no part of `edited`), and the prompt from the display to the answer (`PromptInv`: the
  review mutex is held throughout).
- `AgentRunProofs`, for runs and sessions: `TypeCorrect`, `StatusSound`, `ResumesSound`, `ReportsSound`,
  `SpendingSound`. A run's logger rewrites the meta file from its copy, so
  `SessionsInv` says that the copy agrees with the file, that the file names the
  newest response, and that a session no two runs share has one live writer.
  `EditsInv` says that what counts as edits has a change behind it; `SpendInv`
  counts the requests after the budget by the position in the loop. Types need
  the shape of the loop at each call (`LoopInv`) and that sessions are numbered
  without gaps (`MadeInv`).
- `AgentRunProofs`, for skills: `LoadsSound`, `RestrictionsSound`, `CatalogSound`,
  under `SkillsAssumption` (scopes are scopes, a directory has one name). The first
  two assume `~AppendFails`, since a load whose event is not written is forgotten by
  a resume (section 6). `SkillsInv` relates what an agent was told, its stack, the
  log and the loads in flight (`CallOK`): a skill is on the stack before its load is
  logged, and logged before the agent is told; so a stack that a resume rebuilds
  from the log holds whatever was told, unless the catalog has lost it (`Held`).
- `AgentRunProofs`, for sources: `PinsSound`, with no assumption and for any number
  of commands at a time. `ClonesInv`: what a process has yet to fetch is registered
  in its own copy of the configuration, unpinned unless it was forced
  (`ProcessOK`), and a clone that is being filled has one process that fills it
  (`FillsAlone`), so that the end of a clone does not replace a finished one.

Some theorems speak of properties that no run checks any more, since the proof
covers every instance: those on type correctness, and on `DependenciesCleared`,
`QuiescentOutsideTier`, `DepthBounded`, `CapsShrink`, `OwnCostCapped`,
`PoolAccounted`, `ContinueRunsAll`, `CatchUpIsDue`,
`RefusedIsQuiet`, `StubsReferToContent` and `SpendingStops` (both of them).
Section 3 says how to check them on an instance. Three more are checked by no
configuration that is kept: `CatalogIsRight` (`Skills`), `StartsAuthenticated`
(`Delegation`) and `EventsCountOnce` (the promise of `EventsSound`).

## 6. Where comments, documents and code disagree

One disagreement is listed in `PROJECT.json`, with the quotation and a run that
finds the trace: `ChangesAreGated` (`pipeline/runner.go:547`), a stage that only
creates files, or whose agent commits what it changed, is taken for unchanged, and
its gates are skipped.

The others are definitions at the end of their modules, and TLC finds each one
violated: put the property in place of those of the module's core configuration
(or of the configuration named) and give the constants named these values; a name
like `OneChild` or `MCTokens` is a definition for the constant it fits (`Runs`,
`Commands`), taken from the module's MC module. `Commands`, `Skills` and
`Delegation` have no such module: take one that extends the module and
`PreparationValues`, with these constants for "core", or in place of those the
table names:

- `Commands`: `Commands <- MCShellCommands`, `Kinds <- MCKinds`, `MaxCalls = 2`.
- `Skills`: `Main = "main"`, `Sub = "sub"`, `WorkDir = "wd"`, `Disks <- MCDisks`,
  `Configs <- MCSubDenies`, `ChatLoop = {"main", "sub"}`, `Tools <- MCTools`,
  `SerialTools <- MCSerial`, `Batches <- MCBatches`, `Files <- MCFiles`,
  `Outside <- MCOutside`, `AppendFails = FALSE`, `MaxBatches = 3`, `MaxCrashes = 1`.
- `Delegation`: `Manifest <- MCManifest`, `Stages <- MCStages`, `Flags <- MCFlags`,
  `Configs <- MCConfigFiles`, `Envs <- MCEnvs`, `Modes <- MCModes`, `MaxDepth = 4`.

| Module | Property | Constants | What happens | What is written |
|---|---|---|---|---|
| `Pipeline` | `CostCeiling` | core | parallel agents are each given the same remainder | docs/pipelines.md:85 "limits total spend across all agents" |
| `Pipeline` | `SpentIsExact` | core | two goroutines allocate the counter, one cost is lost (`runner.go:374`) | runner.go:355 "records cost from a completed agent and returns the new total" |
| `Pipeline` | `TrackedChangesAreGated` | core | an agent that commits its edits leaves `git diff HEAD` clean, the gates are skipped and what depends on the stage starts (`runner.go:547`) | runner.go:560 "Gates are skipped when the stage produced no file changes" |
| `Pipeline` | `StopPreGateStops` | core | `stop` of a pre-gate becomes a skipped stage (`runner.go:238`) | runner.go:201 "failed (stopping pipeline)" |
| `Pipeline` | `RevertUndoesChanges` | core | a failing revert gate restores nothing (`runner.go:592`) | docs/agents-engineering-pipeline-basics.md:301 "undo the review agent's edits" |
| `Pipeline` | `RevertIsReported` | core | the status is set after the result was copied (`runner.go:594`) | docs/pipelines.md:86 "reports with per-stage results" |
| `TaskTree` | `ChildCostsRollUp` | `NoDedicated`, `OneChild`, `RunBudget` 3, `MaxTaskDepth` 1 | the cost of a failed child is dropped (`task.go:274`) | docs/agents-and-skills.md:314 "Child costs roll up" |
| `TaskTree` | `DescendantsRollUp` | `NoDedicated`, `RunBudget` 3, `MaxCost` 9 | a child's own tokens only are copied (`metrics.go:172`) | the same line |
| `TaskTree` | `ChildrenCountedOnce` | `NoDedicated`, `OneChild`, `RunBudget` 3, `MaxTaskDepth` 1, `MaxCost` 9 | collecting a task twice counts it twice (`task.go:343`) | metrics.go:165 "records usage from a child agent run" |
| `TaskTree` | `NestingAsDocumented` | `NoDedicated`, `ThreeChildren`, `MaxTaskDepth` 3, `MaxCost` 0 | four generations are possible (`task.go:247`) | docs/agents-and-skills.md:312 "parent → child → grandchild" |
| `Shard` | `SkipsFollowFailures` | `ShardCount` 2, `MaxParallel` 1 | an interrupt is reported as "an earlier shard failed" (`shard.go:113`) | that text |
| `Shard` | `FirstErrorIsACause` | `ShardCount` 2, `MaxParallel` 1 | the first error is that of a skipped shard (`shard.go:137`) | shard.go:128 "the first error preserved" |
| `Shard` | `NoFabricationPasses` | core | the edits of a CLI that runs beside a shard are in the second snapshot of both, and vouch for an invented report (`agentic.go:74`) | shard.go, validateShard: "claims specific files were touched but recorded no edit is a fabrication" |
| `Shard` | `EditsNeedChanges` | core | in a run that is cancelled git fails, and the empty second snapshot counts as a difference: a shard that edited nothing is reported as edited (`agentic.go:75`) | agentic.go "callers treat that as "detection unavailable"" |
| `Shard` | `RunCostCapped` | `ShardCount` 4, `MaxParallel` 1, `RequireActionable` FALSE | every shard gets the whole `--max-cost` (`shard.go:164`) | docs/configuration.md:575 "universally reliable stop" |
| `Shard` | `ExitAsDesigned` | `ShardCount` 2 | one failed shard fails the run (`shard.go:147`) | docs/design/sharded-execution.md:172 |
| `Isolation` | `RestoredAfterRun` | `Isolation_alone`, `Interrupts` TRUE | an interrupted run tears down with the cancelled context, and the user's work stays in the stash (`run.go:973`) | isolation.go:272 "must be restored" |
| `Isolation` | `RestoredAfterRun` | `Isolation_alone`, `FileOf` `Overlap` | git refuses the pop, the work stays in the stash | isolation.go:272 "must be restored" |
| `Isolation` | `RestoredAfterRun` | `Isolation_alone`, `FileOf` `Twice` | a file the user staged and changed again: the snapshot commits one state and the stash has the other, so the pop may conflict, and the work stays in the stash | isolation.go:272 "must be restored" |
| `Isolation` | `PopsOwnStash` | `Isolation_alone`, `UserStashes` 1 | the entry on top may be another's | isolation.go:230 "restore the previously stashed unstaged changes" |
| `Isolation` | `AgentWorkIsKept` | `Isolation_alone`, `JustWorktree`, `Rejects` TRUE | commits in a worktree are deleted with it (`isolation.go:252`) | isolation.go:229 "prune ... when it has no changes" |
| `Isolation` | `LateWorkIsKept` | `Isolation_alone`, `JustWorktree` | what a background task or command writes between `git status` and `git worktree remove --force` is removed with the worktree (`isolation.go:252`) | isolation.go:229 "prune the worktree when it has no changes" |
| `RoutineStore` | `ReportedChangesAreRead` | core | a reload that fails is logged and not tried again: the change it was for is not read until another one comes (`storage_watch.go:152`) | storage.go:38 "emitted by Store.Watch for each detected manifest change" |
| `RoutineStore` | `RegistryIsPickedUp` | `MaxEdits` 1, `Buffer` 4, `MaxStarts` 1, `MaxReloads` 1 | the registry did not exist at the start, or was replaced by a rename (`storage_watch.go:49`) | storage_watch.go:25 "without a daemon restart" |
| `RoutineStore` | `NothingIsSentAfterClose` | the same | the timer's goroutine sends on the closed channel (`storage_watch.go:102`) | storage_watch.go:24 "until ctx is cancelled" |
| `RoutineStore` | `DisabledIsUnscheduled` | `MaxEdits` 3, `Buffer` 4, `MaxStarts` 1 | an event is dropped, or reloads overlap (`storage_watch.go:184`) | docs/routines.md:175 "daemon stops scheduling" |
| `RoutineFires` | `NeverOverlaps` | core | a catch-up runs beside the routine's scheduled fire (`catchup.go:78`) | scheduler.go, the singleton mode of its jobs |
| `RoutineFires` | `CapHolds` | core | catch-ups are outside gocron's limit (`catchup.go:76`) | daemon.go:33 "caps simultaneous in-flight fires across the daemon" |
| `RoutineFires` | `LastRunIsMostRecent` | core | the save of an earlier fire comes last (`scheduler.go:245`) | state.go:33 "when the routine most recently fired" |
| `ToolLoop` | `StubsReferToFullContent` | core | rolling compaction takes content out without raising the epoch, and a later read is answered by a stub that refers to it | tools.go:1500 "re-serve it if compaction evicted this content" |
| `ToolLoop` | `SplitSeesEdits` | core | with split tool results (OpenAI) only the last result of a batch is looked at, so an edit before it does not count | tools.go:205 "endlessly reading without producing edits" |
| `ToolLoop` | `EditsSeeCurrentContent` | core | the time of a read is taken after the read, and an edit reads, replaces and writes without a lock: a change that came between is overwritten | filetracker.go:16 "verify the agent has seen the current content" |
| `AgentRun` | `ChainsStayClean` | core | the response with the pending calls stays the one a resume names, since the response to the dummy outputs is not recorded | responses.go:169 "so PreviousResponseID chaining doesn't fail" |
| `AgentRun` | `CommittedWorkCounts` | core | what a CLI committed in a clean tree is not seen, and its report is rejected | agentic.go:105 "edits made out-of-band by an agentic CLI can be" |
| `AgentRun` | `FabricationsFail` | core | changes that were there before, or another run's, vouch for an invented report | apply.go:120 "only a confirmed-clean tree is a fabrication" |
| `AgentRun` | `ResumesHaveSessions` | core | the newest session may be named in the index only, and the resumed run has none | session/list.go, the index as a source of sessions to resume |
| `Dashboard` | `PairsAreOwn` | `MaxWork` 1 | a launch is paired with whatever session appears next | app.go:65 "to signal the correct child" |
| `Dashboard` | `CancelSaysWhatItDid` | `MaxWork` 1 | a signal to a child that has ended is reported as sent | app.go:765 "No-op (with explanatory toast)" |
| `Dashboard` | `NewestFirst` | `MaxWork` 1 | two sessions found by one scan end with the older one above | app.go:474 "prepend (newest first)" |
| `Dashboard` | `SelectedIsPrinted` | `MaxWork` 1, `MaxPerGroup` 1 | the sidebar prints the first rows of a group only | app.go:437 "so focus never points at a row the sidebar doesn't show" |
| `Dashboard` | `LiveRowsAreAlive` | `MaxWork` 1 | a run over another API writes its metadata at its start and its end only, and is shown as dead between | app.go:1134 "a healthy runner bumps Updated every model turn" |
| `Dashboard` | `NothingHaunts` | `MaxWork` 1 | a run that dies before its first `meta.json` stays | app.go:1143 "without this gate the row would haunt WORKING forever" |
| `Dashboard` | `TornLinesAreDeferred` | `Torn` TRUE | a last line without its newline is skipped as malformed and never read again | tailer.go:103 "partially-written lines at the end are deferred" |
| `Dashboard` | `FinalStatusIsShown` | `MaxWork` 1 | a rewrite within one tick of the file system's clock is not noticed, and a finished run is shown as failed | tailer.go:17 "when its mtime changes" |
| `SignOff` | `ChangesNeedSignOff` | core | with `--apply` the diff in the response patches the tree and no gate is asked, also when the user has refused the plan (`run.go:764`) | cmd/squad/run.go:373 "Require sign-off before file modifications" |
| `SignOff` | `PastesSurviveIntact` | `Lives` {}, `Confirms` FALSE, `Pastes` `MCPastes` | the first blank line ends the feedback, and the rest of the paste answers the next plan | signoff.go:253 "so multi-paragraph pastes survive" |
| `SignOff` | `ApprovalsAreSeen` | `Lives` {}, two `Natives`, `MaxLines` 2, `Confirms` FALSE | a line typed ahead approves a plan that was not on display | signoff.go:120 "this is everything the user sees before deciding" |
| `SignOff` | `RefusedIsLocked` | `MaxLines` 2, `Confirms` FALSE, `Events` `MCRefusal` | another agent's approved plan unlocks the refused session | signoff_claude.go, "a refused plan keeps every later mutating call locked" |
| `SignOff` | `PromptsDoNotRace` | `Lives` {}, two `Natives`, `MaxLines` 2 | Confirm takes no lock, so two agents read one terminal | tools.go, serialTools: two prompts "would ... steal each other's input" |
| `Skills` | `FreshStacksAreEmpty` | `MaxBatches` 2, `Configs` `MCSkillConfigs` | a child of the Task tool starts with the skills its parent has loaded | model.go:112 "The returned stack is empty for a fresh run" |
| `Skills` | `EarlierSkillsKeepTheirFiles` | the same | a relative path is looked up in the newest skill only | stack.go:19 "a skill remains visible for the rest of the run" |
| `Skills` | `CallsObeyTheStack` | the same | a call that was checked before the load beside it runs under the restriction | skill/manifest.go "while this skill is on the stack" |
| `Skills` | `DenyWins` | `MaxBatches` 2, `Configs` `MCAllowed` | an allow list makes the filter return before it looks at the deny list | catalog.go:315 "removes skills whose name is listed, after Allow is applied" |
| `Skills` | `ErrorsAreUnloaded` | `MaxBatches` 2, `Configs` `MCSkillConfigs` | a directory that is a skill itself and is found twice is loaded and reported | catalog.go:93 "a single skill that could not be added to the catalog" |
| `Skills` | `LoadsSurvive` | the same, `AppendFails` TRUE | a load whose event could not be written is forgotten by the resume | model.go, rehydrateSkillStack |
| `Sources` | `TokensAreResolved` | `Commands` `MCTokens`, `Token` "dynamic", `MaxHead` 0, `MaxRuns` 2 | the overrides unmarshal the raw `provider.token` again (`run.go:128`) | docs/configuration.md:46 "supports dynamic value resolution" |
| `Sources` | `SecretsStayOut` | the same | `config set` writes the resolved secret into the file | docs/configuration.md:580 "Never hard-code API keys" |
| `Sources` | `InitResets` | `Commands` `MCInit`, `MaxHead` 0, `MaxRuns` 2 | `config init --force` writes back the configuration it has loaded | config.go:144 "This will reset all custom settings to defaults!" |
| `Sources` | `UnpinnedFollows` | `Commands` `MCSourceCommands`, `MaxHead` 0, `NetFails` FALSE | an unpinned clone stays on the branch of its pin | manager.go:88 "returns to tracking the default branch" |
| `Sources` | `BranchesAdvance` | `Commands` `MCBranch`, `MaxRuns` 3, `NetFails` FALSE | a branch is looked up locally first, where it has not moved | manager.go:149 "re-resolved against the remote" |
| `Sources` | `CachedIsCloned` | `Commands` `MCSourceCommands`, `MaxHead` 0, `MaxRuns` 3 | what a killed clone leaves is a directory, and counts as cached | skills.go:182 "guarantees that every configured repo is" |
| `Sources` | `UpdatesReach` | `Commands` `MCShared`, `MaxRuns` 3, `NetFails` FALSE | two sources of one repository share one clone, which cannot be at both references | manager.go:149 |
| `Sources` | `OthersAreKept` | `Procs` p1 and p2, `Commands` `MCPlaces`, `MaxHead` 0, `MaxRuns` 3 | a command writes back what it loaded, over another's source | no statement; each command names what it changes |
| `Sources` | `ConfigIsKept` | `Commands` `MCPlaces`, `MaxHead` 0, `MaxRuns` 3 | a command killed in its write leaves an empty file | no statement |
| `Sources` | `FindsAreStable` | `Commands` `MCPlaces`, `MaxHead` 0 | of two clones that offer an agent, the order of a map decides | manager.go:169 "in priority order" |
| `Delegation` | `LimitsCoverClis` | `MaxDepth` 3 | an external CLI is given the limits as text and not enforced | model.go:235 "enforcement applies uniformly here" |
| `Delegation` | `PairsMatch` | `MaxDepth` 3 | a provider from one place is completed by a model from another | run.go:407 "belongs to a different API provider and must not be paired" |
| `Delegation` | `UrlsBelong` | `MaxDepth` 3 | the endpoint of one manifest entry stays when another entry is chosen | docs/configuration.md:528 |
| `Delegation` | `AliasesNeedCredentials` | `MaxDepth` 3 | a spelling the table does not know, or one token configured for whatever provider, passes for a credential | apikey.go:60 |
| `Delegation` | `ChildrenScaleOnce` | `MaxDepth` 3 | a child's own `max_iterations` becomes an explicit cap, which is not scaled at all | model.go:336 "rather than compounding the factor" |
| `Delegation` | `PlanRestrictsStages` | `MaxDepth` 3 | a stage's own mode replaces the plan mode of the run | model.go:180 "but changes nothing" |
| `Delegation` | `ToolsArePresent` | `MaxDepth` 3 | the tools that stages and children need are not looked for | bundle.go:125 "verifies each is on PATH" |
| `Delegation` | `ChildrenAreFound` | `MaxDepth` 3 | a stage's options carry no directory of agents | composed agents' manifests may list the Task tool |
| `Delegation` | `ChildrenFallBack` | `MaxDepth` 3 | a child takes its first entry though only a later one has credentials | docs/creating-agents.md:46 |
| `Delegation` | `EmptyInherits` | `MaxDepth` 3 | an empty list in a stage takes the manifest's servers away | composed.go:44 "Empty means inherit from the parent manifest" |
| `Commands` | `ReadsAreBlocked` | core | BashBackground runs what Bash refuses | tools.go:1920 "Read-like Bash commands are disabled until you call Edit or Write" |
| `Commands` | `InterruptsExit` | `FairSpec` | a waiting BashOutput ignores the context, a grandchild holds the pipe of a local command, docker's copy knows no context, and further signals are caught | root.go:91 "so the CLI exits cleanly on interruption" |

Met while modelling, without a property of their own:

- `squad run` declares no `--prompt`, which the dashboard passes to every run it
  launches (`ui/app/app.go:823`, `cmd/squad/run.go:334`); and `squad ui` watches
  `<cwd>/.squad/sessions`, while `session.New` writes below `XDG_STATE_HOME`
  (`cmd/squad/ui.go:75`, `session/session.go:110`).
- `DefaultAutoBackgroundTimeout` (`tools/bgcmd.go:17`, "automatically moved to the
  background") is used nowhere, and BashOutput returns no output of a command
  that still runs. A failed SSM command is an answer, where other executors
  return an error. Cancelling leaves the remote command of SSM and kubectl running.
- `requestFinal` wraps `ErrBudgetExceeded` by `%v`, so the run's status is
  "error"; `callResponsesAPI` drops the text of a run stopped by the input cap.
  A failing `patch` may leave part of a diff.
- The response id and the session to resume are copied to the children of a
  resumed run; a child appends its skills to the session of its parent, whose
  resume loads them.
- `agents add --config other.yaml` saves to the default `config.yaml`, together
  with the settings that came from the environment.
- `skill new` writes below the working directory, discovery looks at the root of
  the git repository; a Responses loop cuts a skill's text at 8 KiB.
- `resolveMCPServerTemplates` writes into slices that runs share.
- An interrupt stops a claude session, but `RunLive` does not return while a
  review waits for the terminal.

## 7. What is only model-checked

Liveness, which TLAPS cannot state with fairness: `RunReturns`, `RunsEnd`,
`ComesToRest`, `OwedIsServed`, `LoopReturns`, `DeadRowsSettle`, `SessionsEnd`.

Every other property of a passing run is stated by a theorem. `UpdatesReach` of
`Sources`, which holds in `Sources_core` only while no two sources share a
repository (section 6), is model-checked there and not proved. No theorem says
that the claims of section 6 fail: those are traces TLC finds.

## 8. What is not modelled

- *Pipeline*: the content of prompts, summaries and reports.
- *TaskTree*: errors of single tools; the `Task` tool's argument checks.
  `TaskResult` comes last in a batch (bound).
- *Shard*: edits that git does not report (ignored files), a tree outside a
  repository, a tree that has changes before the run starts.
- *Isolation*: a git command is atomic; conflict markers that a conflicting pop
  leaves; a failing `MkdirAll`; what a process that outlives squad writes after the
  teardown.
- *RoutineStore*: a write of a manifest and a scan of the directories are one
  step each; routine validation.
- *RoutineFires*: state files that cannot be written; deleting or disabling a
  routine while it fires; the 30 s a shutdown waits (`Exit` may come at any time,
  which includes it). gocron and the cron parser are external.
- *ToolLoop*: the text of nudges and results; that a change restores an earlier
  content; which errors of a provider are transient (a choice).
- *AgentRun*: streaming; more than one call in a response; large results;
  the transcript of stateless providers, of which only the run's outcome is kept.
- *Dashboard*: rendering, themes, key bindings; the text of events; a child that
  writes a session (its command line ends it first).
- *SignOff*: the rendering of plans; a patch that fails; a response that reports an
  error is not told from one that holds a diff; what claude writes besides the messages the
  protocol distinguishes.
- *Skills*: front matter; more than one child at a time.
- *Sources*: templates, the text of listings; force-pushed branches.
- *Delegation*: pricing; tools other than those a limit or a manifest names.
- *Commands*: the bytes of an output; connecting.
- The components that `PROJECT.json` lists as `not_modelled`, with the reason
  there: they are sequential text processing, I/O or wrappers of a library.

## 9. Plan

In this order; a module is followed by its proofs where they are in reach.

1. That `AgentRun`'s step of the stateless loop, and the agents of `Pipeline` and
   the shards of `Shard`, implement `Invocations` as well, as `ToolLoop` and
   `TaskTree` do.
2. Proofs of what holds under a condition that a run states and the code does not
   enforce: `UpdatesReach` where no two sources share a repository, `CostCeiling`
   where no two agents of a tier run at a time.
3. Proofs of the action properties that no run has yet: what a step of a run may
   do to another's session, what a reload may do to a job.
4. `Handoff`: outputs and summaries between the stages of a pipeline; the
   transcript of a stateless run and what its resume replays.
