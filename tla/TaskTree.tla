------------------------------ MODULE TaskTree ------------------------------
(***************************************************************************)
(* The tree of agent runs the Task tool builds (tools/task.go, runner/     *)
(* model.go).  A run alternates model calls and batches of tool calls.  A  *)
(* Task call starts a child run, blocking or in a background goroutine;    *)
(* TaskResult waits for background children.  Each run owns a registry     *)
(* whose semaphore bounds its background children, and metrics in which    *)
(* the cost of collected children is added to its own.                     *)
(*                                                                         *)
(* A run is a member of Runs that is "free" until it is spawned.  Costs    *)
(* are natural numbers.                                                    *)
(***************************************************************************)
EXTENDS Integers, FiniteSets

CONSTANTS
  Runs,         \* bound: the runs there can be
  Root,         \* the run the user started
  MaxTaskDepth, \* tools.MaxTaskDepth
  Concurrency,  \* background children of one run that may be active
  MaxCost,      \* --max-cost of the root, 0 = unlimited
  Dedicated,    \* budget.children: dedicated cost cap of a child, 0 = none
  MaxCallCost,  \* the most one model call costs
  RunBudget     \* bound: a run's iteration budget, expressed as a cost

ASSUME TaskTreeAssumption ==
  /\ Root \in Runs /\ IsFiniteSet(Runs)
  /\ MaxTaskDepth \in Nat
  /\ Concurrency \in Nat \ {0}
  /\ MaxCost \in Nat
  /\ Dedicated \in [Runs -> Nat]
  /\ MaxCallCost \in Nat \ {0}
  /\ RunBudget \in Nat \ {0}

VARIABLES
  phase,       \* where a run's goroutine is
  parent,      \* the run that spawned it; a run that has none is its own parent
  depth,       \* TaskDepth of its context
  background,  \* was it spawned with background=true?
  cap,         \* RunOptions.MaxCost
  own,         \* cost of its own model calls
  rolled,      \* cost of the children recorded by AddChild
  ok,          \* did it return without an error?
  awaiting,    \* the children its pending Task and TaskResult calls wait for
  slots,       \* slots of its registry's semaphore in use
  delivered,   \* history: children whose result a Task or TaskResult returned
  interrupted  \* has the run's context been cancelled?

vars == <<phase, parent, depth, background, cap, own, rolled, ok,
          awaiting, slots, delivered, interrupted>>
tree    == <<parent, depth, background>>
costs   == <<own, rolled>>
waits   == <<awaiting, slots, delivered>>

\* queued: waits for a semaphore slot; dispatch: in CallModel before the loop;
\* model, tools, collect, final: in the tool loop; returned: CallModel has
\* returned; released: the slot was given back; ended: Done is closed.
Phases == {"free", "queued", "dispatch", "model", "tools", "collect", "final",
           "returned", "released", "ended"}
Looping == {"model", "tools", "collect", "final"}
Calls   == 1..MaxCallCost

ChildrenOf(p) == {c \in Runs \ {p} : phase[c] # "free" /\ parent[c] = p}
HoldsSlot(c)  == background[c] /\ phase[c] \in Looping \cup {"dispatch", "returned"}
Ended(r)      == phase[r] = "ended"

TypeOK ==
  /\ phase \in [Runs -> Phases]
  /\ parent \in [Runs -> Runs]
  /\ depth \in [Runs -> Nat]
  /\ background \in [Runs -> BOOLEAN]
  /\ cap \in [Runs -> Nat]
  /\ own \in [Runs -> Nat]
  /\ rolled \in [Runs -> Nat]
  /\ ok \in [Runs -> BOOLEAN]
  /\ awaiting \in [Runs -> SUBSET Runs]
  /\ slots \in [Runs -> Nat]
  /\ delivered \subseteq Runs
  /\ interrupted \in BOOLEAN

Init ==
  /\ phase = [r \in Runs |-> IF r = Root THEN "model" ELSE "free"]
  /\ parent = [r \in Runs |-> r]
  /\ depth = [r \in Runs |-> 0]
  /\ background = [r \in Runs |-> FALSE]
  /\ cap = [r \in Runs |-> IF r = Root THEN MaxCost ELSE 0]
  /\ own = [r \in Runs |-> 0]
  /\ rolled = [r \in Runs |-> 0]
  /\ ok = [r \in Runs |-> TRUE]
  /\ awaiting = [r \in Runs |-> {}]
  /\ slots = [r \in Runs |-> 0]
  /\ delivered = {}
  /\ interrupted = FALSE

(***************************************************************************)
(* The metrics of a run (metrics.go)                                       *)
(***************************************************************************)

BudgetExceeded(r)  == cap[r] > 0 /\ own[r] + rolled[r] >= cap[r]
RemainingBudget(r) ==
  IF cap[r] = 0 \/ BudgetExceeded(r) THEN 0 ELSE cap[r] - own[r] - rolled[r]

(***************************************************************************)
(* The tool loop                                                           *)
(***************************************************************************)

Move(r, to) == phase' = [phase EXCEPT ![r] = to]

\* CallModel returns to its caller, a Task call or a background goroutine.
Return(r, success) ==
  /\ Move(r, "returned")
  /\ ok' = [ok EXCEPT ![r] = success]

Spend(r) == \E c \in Calls : own' = [own EXCEPT ![r] = @ + c]

\* An iteration's model call: it asks for tools, or gives the final answer.
ModelCall(r) ==
  /\ phase[r] = "model"
  /\ ~interrupted
  /\ own[r] < RunBudget
  /\ Spend(r)
  /\ \/ Move(r, "tools") /\ ok' = ok
     \/ Return(r, TRUE)
  /\ UNCHANGED <<tree, cap, rolled, waits, interrupted>>

\* The call fails for good, or the context was cancelled.
ModelError(r) ==
  /\ phase[r] = "model"
  /\ Return(r, FALSE)
  /\ UNCHANGED <<tree, cap, costs, waits, interrupted>>

\* All tool calls of the iteration have returned: the loop ends when the budget
\* is exceeded, the iterations are used up, or a loop was detected.
EndTools(r) ==
  /\ phase[r] \in {"tools", "collect"}
  /\ awaiting[r] = {}
  /\ \/ ~BudgetExceeded(r) /\ own[r] < RunBudget /\ Move(r, "model")
     \/ Move(r, "final")
  /\ UNCHANGED <<tree, cap, costs, ok, waits, interrupted>>

\* finishToolLoop's call without tools.  An exceeded budget is an error even
\* when the call succeeds, and so is having no content at all.
FinalCall(r) ==
  /\ phase[r] = "final"
  /\ ~interrupted
  /\ Spend(r)
  /\ \/ Return(r, FALSE)
     \/ ~BudgetExceeded(r) /\ Return(r, TRUE)
  /\ UNCHANGED <<tree, cap, rolled, waits, interrupted>>

\* The final call fails: the last partial content is returned, if there is any.
FinalError(r) ==
  /\ phase[r] = "final"
  /\ \/ Return(r, FALSE)
     \/ ~BudgetExceeded(r) /\ Return(r, TRUE)
  /\ UNCHANGED <<tree, cap, costs, waits, interrupted>>

(***************************************************************************)
(* Task and TaskResult                                                     *)
(***************************************************************************)

\* A Task call of p (Task calls of a batch run one after the other).
MaySpawn(p, c) ==
  /\ phase[p] = "tools"
  /\ awaiting[p] = {}
  /\ phase[c] = "free"
  /\ depth[p] < MaxTaskDepth

Spawned(p, c, bg, to, d) ==
  /\ Move(c, to)
  /\ parent' = [parent EXCEPT ![c] = p]
  /\ depth' = [depth EXCEPT ![c] = d]
  /\ background' = [background EXCEPT ![c] = bg]

\* Blocking: the parent's goroutine runs the child and waits for it.
SpawnBlocking(p, c) ==
  /\ MaySpawn(p, c)
  /\ Spawned(p, c, FALSE, "dispatch", depth[p] + 1)
  /\ awaiting' = [awaiting EXCEPT ![p] = {c}]
  /\ UNCHANGED <<cap, costs, ok, slots, delivered, interrupted>>

\* SpawnTask: the goroutine is started and the Task call returns its ID.
SpawnBackground(p, c) ==
  /\ MaySpawn(p, c)
  /\ Spawned(p, c, TRUE, "queued", depth[p] + 1)
  /\ UNCHANGED <<cap, costs, ok, waits, interrupted>>

\* Mutant of AcquireSlot: one semaphore for the whole tree.
AcquireShared(c) ==
  /\ phase[c] = "queued"
  /\ Cardinality({r \in Runs : HoldsSlot(r)}) < Concurrency
  /\ slots' = [slots EXCEPT ![parent[c]] = @ + 1]
  /\ Move(c, "dispatch")
  /\ UNCHANGED <<tree, cap, costs, ok, awaiting, delivered, interrupted>>

\* A slot of the semaphore of the parent's registry.
AcquireSlot(c) ==
  /\ phase[c] = "queued"
  /\ slots[parent[c]] < Concurrency
  /\ slots' = [slots EXCEPT ![parent[c]] = @ + 1]
  /\ Move(c, "dispatch")
  /\ UNCHANGED <<tree, cap, costs, ok, awaiting, delivered, interrupted>>

\* Mutant of CancelQueued: the release is deferred before the select.
CancelAndRelease(c) ==
  /\ phase[c] = "queued"
  /\ interrupted
  /\ slots[parent[c]] > 0
  /\ Move(c, "released")
  /\ ok' = [ok EXCEPT ![c] = FALSE]
  /\ slots' = [slots EXCEPT ![parent[c]] = @ - 1]
  /\ UNCHANGED <<tree, cap, costs, awaiting, delivered, interrupted>>

\* ctx.Done wins the select: the task ends without having held a slot.
CancelQueued(c) ==
  /\ phase[c] = "queued"
  /\ interrupted
  /\ Move(c, "released")
  /\ ok' = [ok EXCEPT ![c] = FALSE]
  /\ UNCHANGED <<tree, cap, costs, waits, interrupted>>

\* applyChildBudget.
ChildCap(c) ==
  LET remaining == RemainingBudget(parent[c])
  IN  IF Dedicated[c] \in 1..remaining THEN Dedicated[c] ELSE remaining

\* CallModel: the child's bundle, budget, executor and MCP servers are set up.
Dispatch(c) ==
  /\ phase[c] = "dispatch"
  /\ cap[parent[c]] > 0 => RemainingBudget(parent[c]) > 0
  /\ cap' = [cap EXCEPT ![c] = IF cap[parent[c]] > 0 THEN ChildCap(c) ELSE 0]
  /\ Move(c, "model")
  /\ UNCHANGED <<tree, costs, ok, waits, interrupted>>

\* The set-up fails, always so when the parent's budget is used up.
DispatchError(c) ==
  /\ phase[c] = "dispatch"
  /\ Return(c, FALSE)
  /\ UNCHANGED <<tree, cap, costs, waits, interrupted>>

\* The deferred calls of the background goroutine, last registered first.
ReleaseSlot(c) ==
  /\ background[c]
  /\ phase[c] = "returned"
  /\ Move(c, "released")
  /\ slots' = [slots EXCEPT ![parent[c]] = @ - 1]
  /\ UNCHANGED <<tree, cap, costs, ok, awaiting, delivered, interrupted>>

CloseDone(c) ==
  /\ phase[c] = "released"
  /\ Move(c, "ended")
  /\ UNCHANGED <<tree, cap, costs, ok, waits, interrupted>>

\* The result of a child reaches its parent; the cost of one that failed does
\* not (both tools return the error before AddChild).  AddChild copies the
\* child's own tokens, not those of its children.
Deliver(p, c) ==
  /\ awaiting' = [awaiting EXCEPT ![p] = @ \ {c}]
  /\ delivered' = delivered \cup {c}
  /\ rolled' = IF ok[c] THEN [rolled EXCEPT ![p] = @ + own[c]] ELSE rolled

\* The blocking Task call returns.
CollectBlocking(p, c) ==
  /\ c \in awaiting[p]
  /\ ~background[c]
  /\ phase[c] = "returned"
  /\ Deliver(p, c)
  /\ Move(c, "ended")
  /\ UNCHANGED <<tree, cap, own, ok, slots, interrupted>>

\* TaskResult calls, which run in parallel.  Bound: they come last in a batch.
AwaitTasks(p) ==
  /\ phase[p] = "tools"
  /\ Move(p, "collect")
  /\ awaiting[p] = {}
  /\ \E tasks \in SUBSET {c \in ChildrenOf(p) : background[c]} \ {{}} :
       awaiting' = [awaiting EXCEPT ![p] = tasks]
  /\ UNCHANGED <<tree, cap, costs, ok, slots, delivered, interrupted>>

\* Mutant of CollectResult: GetResult does not wait for Done.
CollectUnfinished(p, c) ==
  /\ c \in awaiting[p]
  /\ background[c]
  /\ Deliver(p, c)
  /\ UNCHANGED <<phase, tree, cap, own, ok, slots, interrupted>>

\* GetResult returns when Done is closed; a task can be collected again.
CollectResult(p, c) ==
  /\ c \in awaiting[p]
  /\ background[c]
  /\ Ended(c)
  /\ Deliver(p, c)
  /\ UNCHANGED <<phase, tree, cap, own, ok, slots, interrupted>>

\* The user interrupts the run: every context in the tree is cancelled.
Interrupt ==
  /\ ~interrupted
  /\ interrupted' = TRUE
  /\ UNCHANGED <<phase, tree, cap, costs, ok, waits>>

(***************************************************************************)
(* The specification                                                       *)
(***************************************************************************)

\* Steps a run's goroutine takes by itself.
RunStep(r) ==
  \/ ModelCall(r)
  \/ ModelError(r)
  \/ FinalCall(r)
  \/ FinalError(r)
  \/ AcquireSlot(r)
  \/ CancelQueued(r)
  \/ Dispatch(r)
  \/ DispatchError(r)
  \/ ReleaseSlot(r)
  \/ CloseDone(r)

Collect(p) == \E c \in Runs : CollectBlocking(p, c) \/ CollectResult(p, c)

\* Steps the model decides on by the tool calls it asks for.
ToolCall(p) ==
  \/ AwaitTasks(p)
  \/ \E c \in Runs : SpawnBlocking(p, c) \/ SpawnBackground(p, c)

Next ==
  \/ \E r \in Runs : RunStep(r) \/ EndTools(r) \/ Collect(r) \/ ToolCall(r)
  \/ Interrupt

Spec == Init /\ [][Next]_vars

\* Goroutines are scheduled, and a batch of tool calls is a finite list.
FairSpec ==
  /\ Spec
  /\ \A r \in Runs : /\ WF_vars(RunStep(r))
                     /\ WF_vars(EndTools(r))
                     /\ WF_vars(Collect(r))

(***************************************************************************)
(* Properties                                                              *)
(***************************************************************************)

\* The registry's semaphore counts exactly the background children between
\* acquire and release, also when tasks are cancelled in the queue, and never
\* exceeds the concurrency limit.
SlotsAccounted ==
  \A p \in Runs :
    /\ slots[p] = Cardinality({c \in ChildrenOf(p) : HoldsSlot(c)})
    /\ slots[p] <= Concurrency

\* What a TaskResult or Task call returned is final: the collected run spends
\* nothing more and its result does not change (Done is closed last).
ResultsAreFinal ==
  [][\A c \in delivered : own'[c] = own[c] /\ rolled'[c] = rolled[c] /\ ok'[c] = ok[c]]_vars

\* A limit is never lost on the way down: under --max-cost every run of the tree
\* works with a positive cap no larger than its parent's.
CapsShrink ==
  MaxCost > 0 => \A r \in Runs :
    phase[r] \in Looping => 0 < cap[r] /\ cap[r] <= cap[parent[r]]

\* A single run overshoots its cap by less than the call in flight plus the
\* final call, whatever its children cost.
OwnCostCapped ==
  MaxCost > 0 => \A r \in Runs :
    own[r] > 0 => own[r] < cap[r] + 2 * MaxCallCost

\* However children are started, the nesting is bounded: depths grow by one
\* along the tree and stay within MaxTaskDepth.
DepthBounded ==
  \A r \in Runs : phase[r] # "free" /\ r # Root =>
    depth[r] = depth[parent[r]] + 1 /\ depth[r] <= MaxTaskDepth

\* Every run that was spawned ends, collected or not: no run waits for its
\* children for ever, because it does not hold a slot of the registry in which
\* they queue, so that nested semaphores do not deadlock.
RunsEnd == \A r \in Runs : phase[r] # "free" ~> phase[r] \in {"returned", "ended"}

(***************************************************************************)
(* The tree consists of invocations                                        *)
(***************************************************************************)

\* The stage of an invocation: it is idle until CallModel has set the run up, and
\* over when CallModel returns, whatever its goroutine still gives back.
stageBar == [r \in Runs |->
  IF phase[r] \in {"free", "queued", "dispatch"} THEN "idle"
  ELSE IF phase[r] \in {"tools", "collect"} THEN "tools"
  ELSE IF phase[r] \in {"model", "final"} THEN phase[r]
  ELSE IF ok[r] THEN "succeeded" ELSE "failed"]

overBar == [r \in Runs |-> BudgetExceeded(r)]

\* Each run keeps what its caller is promised of it, whatever the costs of its
\* children do to its budget (tools/task.go, metrics.go AddChild).
Invoked == INSTANCE Invocations WITH Agents <- Runs, stage <- stageBar, over <- overBar
ImplementsInvocations == Invoked!Spec

(***************************************************************************)
(* Claims of the documentation that the code does not keep                 *)
(***************************************************************************)

DeliveredTo(p) == delivered \cap ChildrenOf(p)

\* The cost of a child whose Task or TaskResult call has returned is in the
\* parent's metrics.
ChildCostsRollUp ==
  \A p \in Runs : \A c \in DeliveredTo(p) : rolled[p] >= own[c]

\* The cost of a run counts against --max-cost however deep it is nested.
DescendantsRollUp ==
  \A p \in Runs : \A c \in DeliveredTo(p) : ok[c] => rolled[p] >= own[c] + rolled[c]

\* A child's usage is recorded in the parent's metrics once.
ChildrenCountedOnce ==
  \A p \in Runs : \A c \in DeliveredTo(p) :
    DeliveredTo(p) = {c} => rolled[p] <= own[c]

\* Nesting is parent, child, grandchild.
NestingAsDocumented ==
  \A r \in Runs : phase[r] # "free" =>
    Cardinality({depth[q] : q \in {q \in Runs : phase[q] # "free"}}) <= 3

=============================================================================
