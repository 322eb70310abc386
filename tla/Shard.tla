------------------------------- MODULE Shard -------------------------------
(***************************************************************************)
(* A sharded run of a leaf agent (runner/shard.go).  One goroutine per     *)
(* shard takes a slot of a bounded pool, looks whether the run has been    *)
(* stopped, and runs the single-agent loop on its own files with its own   *)
(* edit tracker.  When all goroutines have ended their outcomes and        *)
(* metrics are merged in the order of the shards.                          *)
(*                                                                         *)
(* With an agentic CLI as provider (runner/agentic.go) the loop is the     *)
(* CLI's: nothing is recorded while it edits, and the tracker is set when  *)
(* the working tree, which all shards share, differs from its snapshot.    *)
(***************************************************************************)
EXTENDS Integers, FiniteSets, FiniteSetsExt

CONSTANTS
  ShardCount,        \* number of shards of the work-list (none: see ShardSplit)
  MaxParallel,       \* execution.max_parallel
  RequireActionable, \* RunOptions.RequireActionable
  MaxCost,           \* --max-cost, 0 = unlimited
  MaxCallCost,       \* the most one model call costs
  RunBudget          \* bound: a shard's iteration budget, expressed as a cost

ASSUME ShardAssumption ==
  /\ ShardCount \in Nat \ {0}
  /\ MaxParallel \in Nat \ {0}
  /\ RequireActionable \in BOOLEAN
  /\ MaxCost \in Nat
  /\ MaxCallCost \in Nat \ {0}
  /\ RunBudget \in Nat \ {0}

Shards == 1..ShardCount

VARIABLES
  policy,      \* execution.on_shard_error, from the manifest of the agent
  external,    \* is the provider an agentic CLI?
  phase,       \* where the goroutine of a shard is
  slots,       \* slots of the pool in use
  cancelled,   \* runCtx.Err() != nil
  interrupted, \* the context of the whole run was cancelled
  edited,      \* has the shard's agent edited a file?
  tree,        \* the shards whose edits git status and git diff HEAD report
  before,      \* agenticWorktreeSnapshot before the shard's CLI ran
  stirred,     \* history: did anyone change the tree while the shard's CLI ran?
  cost,        \* what the shard's metrics hold of its model calls
  error,       \* results[i].Error: "none", "failed" or "skipped"
  applied,     \* results[i].EditsApplied
  metered,     \* is childMetrics[i] set?
  claims,      \* does results[i].Report name files it touched?
  stopped,     \* history: shards that failed before the run was first cancelled
  report       \* what runSharded returns

vars == <<policy, external, phase, slots, cancelled, interrupted, edited, tree, before,
          stirred, cost, error, applied, metered, claims, stopped, report>>
options == <<policy, external>>
pool    == <<options, slots, cancelled, interrupted, stopped>>
gitView == <<tree, before, stirred>>
work    == <<edited, gitView, cost>>
results == <<error, applied, metered, claims>>

\* queued: sends to the semaphore; holding: has a slot; running: in runOneShard;
\* reported: results are written; leaving: the deferred calls are left to do.
Phases   == {"queued", "holding", "running", "reported", "leaving", "done"}
InPool   == {"holding", "running", "reported", "leaving"}
Errors   == {"none", "failed", "skipped"}
NoReport == [returned |-> FALSE]

Report(total, failed, changed, clean, first) ==
  [returned |-> TRUE, total |-> total, failed |-> failed, edited |-> changed,
   clean |-> clean, first |-> first]

TypeOK ==
  /\ policy \in {"continue", "stop"} /\ external \in BOOLEAN
  /\ phase \in [Shards -> Phases]
  /\ slots \in 0..MaxParallel
  /\ cancelled \in BOOLEAN /\ interrupted \in BOOLEAN
  /\ edited \in [Shards -> BOOLEAN]
  /\ tree \in SUBSET Shards /\ before \in [Shards -> SUBSET Shards]
  /\ stirred \in [Shards -> BOOLEAN]
  /\ cost \in [Shards -> Nat]
  /\ error \in [Shards -> Errors]
  /\ applied \in [Shards -> BOOLEAN]
  /\ metered \in [Shards -> BOOLEAN]
  /\ claims \in [Shards -> BOOLEAN]
  /\ stopped \subseteq Shards
  /\ report.returned \in BOOLEAN

Init ==
  /\ policy \in {"continue", "stop"} /\ external \in BOOLEAN
  /\ phase = [s \in Shards |-> "queued"]
  /\ slots = 0
  /\ cancelled = FALSE /\ interrupted = FALSE
  /\ edited = [s \in Shards |-> FALSE]
  /\ tree = {} /\ before = [s \in Shards |-> {}]
  /\ stirred = [s \in Shards |-> FALSE]
  /\ cost = [s \in Shards |-> 0]
  /\ error = [s \in Shards |-> "none"]
  /\ applied = [s \in Shards |-> FALSE]
  /\ metered = [s \in Shards |-> FALSE]
  /\ claims = [s \in Shards |-> FALSE]
  /\ stopped = {}
  /\ report = NoReport

(***************************************************************************)
(* The goroutine of a shard                                                *)
(***************************************************************************)

Move(s, to) == phase' = [phase EXCEPT ![s] = to]

\* The semaphore is taken with a plain send: a stopped run is noticed after it.
Acquire(s) ==
  /\ phase[s] = "queued"
  /\ slots < MaxParallel
  /\ slots' = slots + 1
  /\ Move(s, "holding")
  /\ UNCHANGED <<options, cancelled, interrupted, stopped, work, results, report>>

\* Mutant of Start: the run was checked before the slot was taken.
StartUnchecked(s) ==
  /\ phase[s] = "holding"
  /\ Move(s, "running")
  /\ before' = IF external THEN [before EXCEPT ![s] = tree] ELSE before
  /\ UNCHANGED <<pool, edited, tree, stirred, cost, results, report>>

\* The first thing a shard with a CLI does is to take a snapshot of the tree.
Start(s) ==
  /\ phase[s] = "holding"
  /\ ~cancelled
  /\ Move(s, "running")
  /\ before' = IF external THEN [before EXCEPT ![s] = tree] ELSE before
  /\ UNCHANGED <<pool, edited, tree, stirred, cost, results, report>>

\* Mutant of Skip: the release is not deferred but follows runOneShard.
SkipKeepsSlot(s) ==
  /\ phase[s] = "holding"
  /\ cancelled
  /\ error' = [error EXCEPT ![s] = "skipped"]
  /\ Move(s, "done")
  /\ UNCHANGED <<pool, work, applied, metered, claims, report>>

Skip(s) ==
  /\ phase[s] = "holding"
  /\ cancelled
  /\ error' = [error EXCEPT ![s] = "skipped"]
  /\ Move(s, "leaving")
  /\ UNCHANGED <<pool, work, applied, metered, claims, report>>

\* A model call of the shard's loop, which goes on with tool calls.
ModelCall(s) ==
  /\ phase[s] = "running"
  /\ ~external /\ ~cancelled
  /\ cost[s] < RunBudget
  /\ MaxCost > 0 => cost[s] < MaxCost
  /\ \E c \in 1..MaxCallCost : cost' = [cost EXCEPT ![s] = @ + c]
  /\ UNCHANGED <<phase, pool, edited, gitView, results, report>>

\* An Edit, MultiEdit or Write call changes a file and is recorded.
Edit(s) ==
  /\ phase[s] = "running"
  /\ ~external /\ cost[s] > 0
  /\ ~edited[s]
  /\ edited' = [edited EXCEPT ![s] = TRUE]
  /\ UNCHANGED <<phase, pool, gitView, cost, results, report>>

\* The tree becomes t under every shard that runs.
ChangeTree(t) ==
  /\ tree' = t
  /\ stirred' = [s \in Shards |-> stirred[s] \/ (phase[s] = "running" /\ t # tree)]

\* A CLI edits a file.  (An edit that git does not report, of an ignored file,
\* changes nothing that the program sees.)
CLIEdit(s) ==
  /\ phase[s] = "running"
  /\ external /\ ~edited[s]
  /\ edited' = [edited EXCEPT ![s] = TRUE]
  /\ ChangeTree(tree \cup {s})
  /\ UNCHANGED <<phase, pool, before, cost, results, report>>

\* A CLI commits changes of the tree, its own or those of other shards.
CLICommit(s) ==
  /\ phase[s] = "running"
  /\ external
  /\ \E part \in SUBSET tree \ {{}} : ChangeTree(tree \ part)
  /\ UNCHANGED <<phase, pool, edited, before, cost, results, report>>

\* Mutant of EditsApplied: the shards record in the tracker of the run.
EditsAppliedByAny(s) ==
  IF external THEN cancelled \/ tree # before[s] ELSE \E t \in Shards : edited[t]

\* What the tracker says when the loop has succeeded.  A cancelled run has no git
\* to ask: its second snapshot is empty, and differs.
EditsApplied(s) == IF external THEN cancelled \/ tree # before[s] ELSE edited[s]

\* results[idx] and childMetrics[idx] are written; the snapshot was a local variable.
Write(s, err, claim, hasMetrics, edits) ==
  /\ error' = [error EXCEPT ![s] = err]
  /\ applied' = [applied EXCEPT ![s] = edits]
  /\ metered' = [metered EXCEPT ![s] = hasMetrics]
  /\ claims' = [claims EXCEPT ![s] = claim]
  /\ before' = [before EXCEPT ![s] = {}]
  /\ UNCHANGED <<edited, tree, stirred>>
  /\ Move(s, "reported")

\* The shard's bundle cannot be built: there are no metrics.
BuildFails(s) ==
  /\ phase[s] = "running"
  /\ cost[s] = 0 /\ ~edited[s]
  /\ Write(s, "failed", FALSE, FALSE, FALSE)
  /\ UNCHANGED <<pool, cost, report>>

\* validateShard: a report that claims edits nobody made fails its shard.
Fabricated(s, claim) == RequireActionable /\ claim /\ ~EditsApplied(s)

\* The loop ends with a report, which may claim edits.
Answered(s, hasMetrics) ==
  \E claim \in BOOLEAN :
    Write(s, IF Fabricated(s, claim) THEN "failed" ELSE "none", claim, hasMetrics,
          EditsApplied(s))

\* Mutant of Answer: a shard without edits leaves no metrics behind.
AnswerMetersEdits(s) ==
  /\ phase[s] = "running"
  /\ ~external /\ cost[s] > 0
  /\ Answered(s, edited[s])
  /\ UNCHANGED <<pool, cost, report>>

\* The model's final answer.
Answer(s) ==
  /\ phase[s] = "running"
  /\ ~external /\ cost[s] > 0
  /\ Answered(s, TRUE)
  /\ UNCHANGED <<pool, cost, report>>

\* The CLI ends well: its tokens are counted, and the tree is looked at again.
CLIAnswer(s) ==
  /\ phase[s] = "running"
  /\ external
  /\ \E c \in 1..MaxCallCost : cost' = [cost EXCEPT ![s] = @ + c]
  /\ Answered(s, TRUE)
  /\ UNCHANGED <<pool, report>>

\* A model call or the CLI fails for good, the context was cancelled, or the set-up
\* fails.  Nobody looks at the tree a failed CLI leaves.
RunFails(s) ==
  /\ phase[s] = "running"
  /\ Write(s, "failed", FALSE, TRUE, ~external /\ edited[s])
  /\ UNCHANGED <<pool, cost, report>>

\* The budget is exceeded: a last call asks for a summary, and the run fails.
BudgetFails(s) ==
  /\ phase[s] = "running"
  /\ ~external
  /\ MaxCost > 0 /\ cost[s] >= MaxCost
  /\ \E c \in 0..MaxCallCost : cost' = [cost EXCEPT ![s] = @ + c]
  /\ \E claim \in BOOLEAN : Write(s, "failed", claim, TRUE, edited[s])
  /\ UNCHANGED <<pool, report>>

\* stop(): the first failure cancels runCtx when the policy is to stop.
Stop(s) ==
  /\ phase[s] = "reported"
  /\ cancelled' = (cancelled \/ (error[s] # "none" /\ policy = "stop"))
  /\ stopped' = IF error[s] = "failed" /\ ~cancelled THEN stopped \cup {s} ELSE stopped
  /\ Move(s, "leaving")
  /\ UNCHANGED <<options, slots, interrupted, work, results, report>>

\* The deferred calls: the slot is released, then the wait group is told.
Leave(s) ==
  /\ phase[s] = "leaving"
  /\ slots' = slots - 1
  /\ Move(s, "done")
  /\ UNCHANGED <<options, cancelled, interrupted, stopped, work, results, report>>

(***************************************************************************)
(* The merge                                                               *)
(***************************************************************************)

Failing == {s \in Shards : error[s] # "none"}

\* summarize's first case.
FailedShards == Failing

\* The shard of firstErr; 0 when there is none.
FirstError == IF FailedShards = {} THEN 0 ELSE Min(FailedShards)

\* The metrics of some shards merged: their costs add up.
Total(c, S) == MapThenSumSet(LAMBDA s : c[s], S)

Collect ==
  /\ ~report.returned
  /\ \A s \in Shards : phase[s] = "done"
  /\ report' = Report(Total(cost, {s \in Shards : metered[s]}),
                      Cardinality(FailedShards),
                      Cardinality({s \in Shards \ FailedShards : applied[s]}),
                      Cardinality({s \in Shards \ FailedShards : ~applied[s]}),
                      FirstError)
  /\ UNCHANGED <<phase, pool, work, results>>

\* The user interrupts the run: runCtx is a child of its context.
Interrupt ==
  /\ ~interrupted /\ ~report.returned
  /\ interrupted' = TRUE
  /\ cancelled' = TRUE
  /\ UNCHANGED <<options, phase, slots, stopped, work, results, report>>

ShardStep(s) ==
  \/ Acquire(s) \/ Start(s) \/ Skip(s)
  \/ ModelCall(s) \/ Edit(s) \/ CLIEdit(s) \/ CLICommit(s)
  \/ BuildFails(s) \/ Answer(s) \/ CLIAnswer(s) \/ RunFails(s) \/ BudgetFails(s)
  \/ Stop(s) \/ Leave(s)

Next == (\E s \in Shards : ShardStep(s)) \/ Collect \/ Interrupt

Spec == Init /\ [][Next]_vars

\* Every goroutine is scheduled, and a shard's loop has a bounded length.  The
\* semaphore is not fair to one goroutine, but every slot taken is given back.
FairSpec == Spec /\ WF_vars(Collect) /\ \A s \in Shards : WF_vars(ShardStep(s))

(***************************************************************************)
(* Properties                                                              *)
(***************************************************************************)

\* The pool holds as many goroutines as slots are taken, whatever way they end.
PoolAccounted == slots = Cardinality({s \in Shards : phase[s] \in InPool})

\* With on_shard_error=stop at most a pool of shards fails: those that ran when
\* the first failure was noticed.  No shard starts afterwards.
StopBoundsFailures ==
  policy = "stop" =>
    Cardinality({s \in Shards : error[s] = "failed"}) <= MaxParallel

\* With on_shard_error=continue every shard of a run that is not interrupted
\* has its turn.
ContinueRunsAll ==
  policy = "continue" /\ ~interrupted => \A s \in Shards : error[s] # "skipped"

\* A shard that passes is reported edited exactly when it recorded edits of its own.
\* With a CLI it is reported edited only if somebody changed the tree while its CLI
\* ran, or the run was cancelled: an edit of a shard that does not run beside it
\* never counts for it.  Under --require-actionable no claim passes without that.
PassingShardsAreHonest ==
  report.returned => \A s \in Shards : error[s] = "none" =>
    /\ applied[s] => IF external THEN stirred[s] \/ cancelled ELSE edited[s]
    /\ ~external /\ edited[s] => applied[s]
    /\ RequireActionable /\ claims[s] => applied[s]

\* The merged metrics hold the cost of every shard, failed or cancelled ones too;
\* the run fails exactly when a shard did not do its work; and the summary counts
\* every shard once.
SummaryIsHonest ==
  report.returned =>
    /\ report.total = Total(cost, Shards)
    /\ report.failed > 0 <=> \E s \in Shards : error[s] # "none"
    /\ report.failed + report.edited + report.clean = ShardCount

\* What the run reports of its shards, one by one and summed up, is so.
OutcomesAreHonest == PassingShardsAreHonest /\ SummaryIsHonest

\* The wait group's barrier is reached: the run returns.
RunReturns == <>report.returned

(***************************************************************************)
(* Claims of comments and documents that the code does not keep            *)
(***************************************************************************)

\* A shard reported as skipped because of an earlier failure was skipped because
\* of an earlier failure.
SkipsFollowFailures ==
  (\E s \in Shards : error[s] = "skipped") => policy = "stop" /\ stopped # {}

\* The error the run returns is that of a shard that failed.
FirstErrorIsACause == report.returned /\ report.first > 0 /\ ~interrupted => error[report.first] = "failed"

\* The budget of the run bounds its cost, up to two calls for every shard that
\* can be in flight.
RunCostCapped ==
  report.returned /\ MaxCost > 0 => report.total < MaxCost + 2 * MaxParallel * MaxCallCost

\* A shard of a run that nobody stopped claims no file that it never touched.
NoFabricationPasses ==
  report.returned /\ RequireActionable /\ ~cancelled =>
    \A s \in Shards : error[s] = "none" /\ claims[s] => edited[s]

\* No shard is reported edited when nobody edited anything while it ran.
EditsNeedChanges ==
  report.returned => \A s \in Shards : error[s] = "none" /\ applied[s] => edited[s] \/ stirred[s]

\* The run fails when no shard succeeded.
ExitAsDesigned ==
  report.returned /\ report.failed > 0 => report.edited + report.clean = 0

=============================================================================
