--------------------------- MODULE TaskTreeProofs ---------------------------
(***************************************************************************)
(* Theorems about TaskTree for every finite set of runs, every depth and   *)
(* concurrency limit, every budget and every cost of a model call; and     *)
(* about ToolLoop, the loop each of these runs is in, for every set of     *)
(* files, every set of batches and all limits of its enforcers.  Both      *)
(* implement Invocations.                                                  *)
(***************************************************************************)
EXTENDS TaskTree, LoopPromise, Sequences, FiniteSetTheorems, TLAPS

USE DEF tree, costs, waits, vars

Unstarted == {"free", "queued", "dispatch"}

\* The shape of the tree: only a started run has children, and depths count the
\* links to the root.
Tree ==
  /\ parent[Root] = Root /\ depth[Root] = 0 /\ ~background[Root]
  /\ phase[Root] \notin Unstarted
  /\ DepthBounded
  /\ \A r \in Runs : /\ phase[r] # "free" => phase[parent[r]] \notin Unstarted
                     /\ phase[r] = "queued" => background[r]

HoldersOf(p) == {c \in ChildrenOf(p) : HoldsSlot(c)}

\* Everything about costs, by the place of a run in its loop.
CostsByPhase ==
  /\ cap[Root] = MaxCost
  /\ MaxCost > 0 => \A r \in Runs :
       /\ phase[r] \in Unstarted => own[r] = 0
       /\ phase[r] # "free" => cap[parent[r]] > 0
       /\ phase[r] \in Looping => 0 < cap[r] /\ cap[r] <= cap[parent[r]]
       /\ phase[r] = "model" => own[r] < cap[r]
       /\ phase[r] \in {"tools", "collect", "final"} => own[r] < cap[r] + MaxCallCost
       /\ own[r] > 0 => own[r] < cap[r] + 2 * MaxCallCost

\* A run that waits is in a batch of tool calls; a delivered run is over.
WaitsInTools == \A p \in Runs : awaiting[p] # {} => phase[p] \in {"tools", "collect"}
DeliveredEnded == \A c \in delivered : Ended(c)

IInv == TypeOK /\ Tree /\ SlotsAccounted /\ CostsByPhase /\ WaitsInTools /\ DeliveredEnded

LEMMA HoldersFinite ==
  ASSUME NEW p \in Runs
  PROVE  IsFiniteSet(HoldersOf(p)) /\ Cardinality(HoldersOf(p)) \in Nat
<1>1. HoldersOf(p) \in SUBSET Runs
  BY DEF HoldersOf, ChildrenOf
<1> QED BY <1>1, TaskTreeAssumption, FS_Subset, FS_CardinalityType

LEMMA InitIInv == Init => IInv
<1> SUFFICES ASSUME Init PROVE IInv
  OBVIOUS
<1> USE TaskTreeAssumption DEF Init
<1>1. TypeOK
  BY DEF TypeOK, Phases
<1>2. Tree
  BY DEF Tree, DepthBounded, Unstarted
<1>3. SlotsAccounted
  <2>1. \A p \in Runs : {c \in ChildrenOf(p) : HoldsSlot(c)} = {}
    BY DEF ChildrenOf, HoldsSlot
  <2> QED BY <2>1, FS_EmptySet DEF SlotsAccounted
<1>4. CostsByPhase
  BY DEF CostsByPhase, Unstarted, Looping
<1>5. WaitsInTools /\ DeliveredEnded
  BY DEF WaitsInTools, DeliveredEnded
<1> QED BY <1>1, <1>2, <1>3, <1>4, <1>5 DEF IInv

(***************************************************************************)
(* Types.  ReleaseSlot is the step that needs SlotsAccounted: the slot it  *)
(* gives back is one that is in use.                                       *)
(***************************************************************************)

\* A model call costs its own run something, and at most MaxCallCost.
LEMMA SpendEffect ==
  ASSUME TypeOK, NEW r \in Runs, Spend(r)
  PROVE  /\ own' \in [Runs -> Nat]
         /\ own[r] < own'[r] /\ own'[r] <= own[r] + MaxCallCost
         /\ \A q \in Runs \ {r} : own'[q] = own[q]
<1>1. PICK c \in Calls : own' = [own EXCEPT ![r] = @ + c]
  BY DEF Spend
<1>2. c \in Nat /\ 0 < c /\ c <= MaxCallCost
  BY TaskTreeAssumption DEF Calls
<1> QED BY <1>1, <1>2, TaskTreeAssumption DEF TypeOK

LEMMA TypeRunStep ==
  ASSUME TypeOK, NEW r \in Runs, RunStep(r), ~ReleaseSlot(r) PROVE TypeOK'
<1>0. Spend(r) => own' \in [Runs -> Nat]
  BY SpendEffect
<1> USE TaskTreeAssumption DEF TypeOK, Move, Return, Phases
<1>1. CASE ModelCall(r)
  <2>1. own' \in [Runs -> Nat]
    BY <1>0, <1>1 DEF ModelCall
  <2>2. phase' \in [Runs -> Phases] /\ ok' \in [Runs -> BOOLEAN]
    BY <1>1 DEF ModelCall
  <2> QED BY <1>1, <2>1, <2>2 DEF ModelCall
<1>2. CASE ModelError(r)
  BY <1>2 DEF ModelError
<1>3. CASE FinalCall(r)
  <2>1. own' \in [Runs -> Nat]
    BY <1>0, <1>3 DEF FinalCall
  <2>2. phase' \in [Runs -> Phases] /\ ok' \in [Runs -> BOOLEAN]
    BY <1>3 DEF FinalCall
  <2> QED BY <1>3, <2>1, <2>2 DEF FinalCall
<1>4. CASE FinalError(r)
  BY <1>4 DEF FinalError
<1>5. CASE AcquireSlot(r)
  BY <1>5 DEF AcquireSlot
<1>6. CASE CancelQueued(r)
  BY <1>6 DEF CancelQueued
<1>7. CASE Dispatch(r)
  <2>1. RemainingBudget(parent[r]) \in Nat
    BY DEF RemainingBudget, BudgetExceeded
  <2>2. ChildCap(r) \in Nat
    BY <2>1 DEF ChildCap
  <2> QED BY <1>7, <2>2 DEF Dispatch
<1>8. CASE DispatchError(r)
  BY <1>8 DEF DispatchError
<1>9. CASE CloseDone(r)
  BY <1>9 DEF CloseDone
<1> QED BY <1>1, <1>2, <1>3, <1>4, <1>5, <1>6, <1>7, <1>8, <1>9 DEF RunStep

LEMMA TypeToolStep ==
  ASSUME TypeOK, NEW p \in Runs, EndTools(p) \/ Collect(p) \/ ToolCall(p) PROVE TypeOK'
<1> USE TaskTreeAssumption DEF TypeOK, Move, Deliver, Spawned, Phases
<1>1. CASE EndTools(p)
  BY <1>1 DEF EndTools
<1>2. ASSUME NEW c \in Runs, CollectBlocking(p, c) PROVE TypeOK'
  BY <1>2 DEF CollectBlocking
<1>3. ASSUME NEW c \in Runs, CollectResult(p, c) PROVE TypeOK'
  BY <1>3 DEF CollectResult
<1>4. CASE AwaitTasks(p)
  BY <1>4 DEF AwaitTasks, ChildrenOf
<1>5. ASSUME NEW c \in Runs, SpawnBlocking(p, c) PROVE TypeOK'
  BY <1>5 DEF SpawnBlocking, MaySpawn
<1>6. ASSUME NEW c \in Runs, SpawnBackground(p, c) PROVE TypeOK'
  BY <1>6 DEF SpawnBackground, MaySpawn
<1> QED BY <1>1, <1>2, <1>3, <1>4, <1>5, <1>6 DEF Collect, ToolCall

(***************************************************************************)
(* The shape of the tree, waiting, and delivery                            *)
(***************************************************************************)

\* A step that leaves the tree alone and starts no run, or starts one whose
\* parent has started, keeps its shape.
LEMMA TreeKept ==
  ASSUME TypeOK, Tree, UNCHANGED tree,
         \A q \in Runs : phase'[q] = "free" <=> phase[q] = "free",
         \A q \in Runs : phase[q] \notin Unstarted => phase'[q] \notin Unstarted,
         \A q \in Runs : phase'[q] = "queued" => phase[q] = "queued"
  PROVE  Tree'
BY TaskTreeAssumption DEF Tree, DepthBounded, TypeOK

LEMMA TreeRunStep ==
  ASSUME TypeOK, Tree, NEW r \in Runs, RunStep(r) PROVE Tree'
<1> USE DEF TypeOK, Move, Return, Unstarted
<1>1. UNCHANGED tree /\ \E to \in Phases \ {"free", "queued"} : phase' = [phase EXCEPT ![r] = to]
  BY DEF RunStep, ModelCall, ModelError, FinalCall, FinalError, AcquireSlot, CancelQueued,
         Dispatch, DispatchError, ReleaseSlot, CloseDone, Phases
<1>2. phase[r] # "free"
  BY DEF RunStep, ModelCall, ModelError, FinalCall, FinalError, AcquireSlot, CancelQueued,
         Dispatch, DispatchError, ReleaseSlot, CloseDone
<1>3. phase[r] \notin Unstarted => phase'[r] \notin Unstarted
  BY DEF RunStep, ModelCall, ModelError, FinalCall, FinalError, AcquireSlot, CancelQueued,
         Dispatch, DispatchError, ReleaseSlot, CloseDone
<1> QED BY <1>1, <1>2, <1>3, TreeKept

LEMMA TreeSpawned ==
  ASSUME TypeOK, Tree, NEW p \in Runs, NEW c \in Runs, MaySpawn(p, c),
         NEW bg \in BOOLEAN, NEW to \in {"queued", "dispatch"},
         to = "queued" => bg,
         Spawned(p, c, bg, to, depth[p] + 1)
  PROVE  Tree'
<1> USE TaskTreeAssumption DEF TypeOK, MaySpawn, Spawned, Move, Unstarted
<1>1. c # p /\ c # Root
  BY DEF Tree
<1>2. \A q \in Runs : phase[q] # "free" => parent[q] # c
  BY DEF Tree
<1>3. DepthBounded'
  BY <1>1, <1>2 DEF Tree, DepthBounded
<1> QED BY <1>1, <1>2, <1>3 DEF Tree

LEMMA TreeToolStep ==
  ASSUME TypeOK, Tree, NEW p \in Runs, EndTools(p) \/ Collect(p) \/ ToolCall(p)
  PROVE  Tree'
<1> USE DEF TypeOK
<1>1. CASE EndTools(p)
  BY <1>1, TreeKept DEF EndTools, Move, Unstarted
<1>2. ASSUME NEW c \in Runs, CollectBlocking(p, c) PROVE Tree'
  BY <1>2, TreeKept DEF CollectBlocking, Deliver, Move, Unstarted
<1>3. ASSUME NEW c \in Runs, CollectResult(p, c) PROVE Tree'
  BY <1>3, TreeKept DEF CollectResult
<1>4. CASE AwaitTasks(p)
  BY <1>4, TreeKept DEF AwaitTasks, Move, Unstarted
<1>5. ASSUME NEW c \in Runs, SpawnBlocking(p, c) PROVE Tree'
  BY <1>5, TreeSpawned DEF SpawnBlocking
<1>6. ASSUME NEW c \in Runs, SpawnBackground(p, c) PROVE Tree'
  BY <1>6, TreeSpawned DEF SpawnBackground
<1> QED BY <1>1, <1>2, <1>3, <1>4, <1>5, <1>6 DEF Collect, ToolCall

\* What a step does to a run that waits or has been delivered.
LEMMA WaitsStep ==
  ASSUME TypeOK, WaitsInTools, DeliveredEnded, Next
  PROVE  WaitsInTools' /\ DeliveredEnded'
<1> USE DEF TypeOK, WaitsInTools, DeliveredEnded, Ended, Move, Return
<1>1. ASSUME NEW r \in Runs, RunStep(r) PROVE WaitsInTools' /\ DeliveredEnded'
  <2>1. UNCHANGED <<awaiting, delivered>>
    BY <1>1 DEF RunStep, ModelCall, ModelError, FinalCall, FinalError, AcquireSlot,
           CancelQueued, Dispatch, DispatchError, ReleaseSlot, CloseDone
  <2>2. phase[r] \notin {"tools", "collect", "ended"}
    BY <1>1 DEF RunStep, ModelCall, ModelError, FinalCall, FinalError, AcquireSlot,
           CancelQueued, Dispatch, DispatchError, ReleaseSlot, CloseDone
  <2>3. \E to \in Phases : phase' = [phase EXCEPT ![r] = to]
    BY <1>1 DEF RunStep, ModelCall, ModelError, FinalCall, FinalError, AcquireSlot,
           CancelQueued, Dispatch, DispatchError, ReleaseSlot, CloseDone, Phases
  <2> QED BY <2>1, <2>2, <2>3
<1>2. ASSUME NEW p \in Runs, EndTools(p) PROVE WaitsInTools' /\ DeliveredEnded'
  BY <1>2 DEF EndTools
<1>3. ASSUME NEW p \in Runs, NEW c \in Runs, CollectBlocking(p, c)
      PROVE  WaitsInTools' /\ DeliveredEnded'
  BY <1>3 DEF CollectBlocking, Deliver
<1>4. ASSUME NEW p \in Runs, NEW c \in Runs, CollectResult(p, c)
      PROVE  WaitsInTools' /\ DeliveredEnded'
  BY <1>4 DEF CollectResult, Deliver
<1>5. ASSUME NEW p \in Runs, AwaitTasks(p) PROVE WaitsInTools' /\ DeliveredEnded'
  BY <1>5 DEF AwaitTasks
<1>6. ASSUME NEW p \in Runs, NEW c \in Runs, SpawnBlocking(p, c)
      PROVE  WaitsInTools' /\ DeliveredEnded'
  BY <1>6 DEF SpawnBlocking, MaySpawn, Spawned
<1>7. ASSUME NEW p \in Runs, NEW c \in Runs, SpawnBackground(p, c)
      PROVE  WaitsInTools' /\ DeliveredEnded'
  BY <1>7 DEF SpawnBackground, MaySpawn, Spawned
<1>8. CASE Interrupt
  BY <1>8 DEF Interrupt
<1> QED BY <1>1, <1>2, <1>3, <1>4, <1>5, <1>6, <1>7, <1>8 DEF Next, Collect, ToolCall

(***************************************************************************)
(* The semaphores                                                          *)
(***************************************************************************)

\* A step that acquires and releases nothing keeps the account.
LEMMA SlotsKept ==
  ASSUME TypeOK, SlotsAccounted, UNCHANGED slots,
         \A q \in Runs : HoldsSlot(q)' <=> HoldsSlot(q),
         \A q \in Runs : HoldsSlot(q) => parent'[q] = parent[q]
  PROVE  SlotsAccounted'
<1>1. ASSUME NEW p \in Runs PROVE HoldersOf(p)' = HoldersOf(p)
  BY DEF HoldersOf, ChildrenOf, HoldsSlot, Looping, TypeOK
<1> QED BY <1>1 DEF SlotsAccounted, HoldersOf

LEMMA SlotAcquired ==
  ASSUME TypeOK, Tree, SlotsAccounted, NEW c \in Runs, AcquireSlot(c)
  PROVE  SlotsAccounted'
<1> DEFINE p == parent[c]
<1> USE DEF TypeOK, Tree, DepthBounded, AcquireSlot, Move
<1>1. p \in Runs /\ p # c /\ background[c] /\ phase[c] = "queued"
  BY TaskTreeAssumption DEF Unstarted
<1>2. HoldersOf(p)' = HoldersOf(p) \cup {c} /\ c \notin HoldersOf(p)
  BY <1>1 DEF HoldersOf, ChildrenOf, HoldsSlot, Looping
<1>3. ASSUME NEW q \in Runs, q # p PROVE HoldersOf(q)' = HoldersOf(q)
  BY <1>1, <1>3 DEF HoldersOf, ChildrenOf, HoldsSlot, Looping
<1>4. Cardinality(HoldersOf(p)') = Cardinality(HoldersOf(p)) + 1
  <2>1. IsFiniteSet(HoldersOf(p)) /\ Cardinality(HoldersOf(p)) \in Nat
    BY <1>1, HoldersFinite
  <2>2. Cardinality(HoldersOf(p) \cup {c}) = Cardinality(HoldersOf(p)) + 1
    BY <1>2, <2>1, FS_AddElement
  <2> QED BY <1>2, <2>2
<1>5. slots[p] = Cardinality(HoldersOf(p)) /\ slots[p] < Concurrency
  BY <1>1 DEF SlotsAccounted, HoldersOf
<1>6. slots'[p] = slots[p] + 1 /\ \A q \in Runs \ {p} : slots'[q] = slots[q]
  BY <1>1
<1>7. ASSUME NEW q \in Runs
      PROVE  slots'[q] = Cardinality(HoldersOf(q)') /\ slots'[q] <= Concurrency
  <2>1. CASE q = p
    BY <2>1, <1>1, <1>4, <1>5, <1>6, TaskTreeAssumption
  <2>2. CASE q # p
    BY <2>2, <1>3, <1>6 DEF SlotsAccounted, HoldersOf
  <2> QED BY <2>1, <2>2
<1> QED BY <1>7 DEF SlotsAccounted, HoldersOf

LEMMA SlotReleased ==
  ASSUME TypeOK, Tree, SlotsAccounted, NEW c \in Runs, ReleaseSlot(c)
  PROVE  SlotsAccounted' /\ TypeOK'
<1> DEFINE p == parent[c]
<1> USE DEF TypeOK, Tree, DepthBounded, ReleaseSlot, Move
<1>1. p \in Runs /\ p # c /\ background[c] /\ phase[c] = "returned"
  BY TaskTreeAssumption
<1>2. HoldersOf(p)' = HoldersOf(p) \ {c} /\ c \in HoldersOf(p)
  BY <1>1 DEF HoldersOf, ChildrenOf, HoldsSlot, Looping
<1>3. ASSUME NEW q \in Runs, q # p PROVE HoldersOf(q)' = HoldersOf(q)
  BY <1>1, <1>3 DEF HoldersOf, ChildrenOf, HoldsSlot, Looping
<1>4. /\ Cardinality(HoldersOf(p)') = Cardinality(HoldersOf(p)) - 1
      /\ Cardinality(HoldersOf(p)') \in Nat
  <2>1. IsFiniteSet(HoldersOf(p)) /\ Cardinality(HoldersOf(p)) \in Nat
    BY <1>1, HoldersFinite
  <2>2. /\ IsFiniteSet(HoldersOf(p) \ {c})
        /\ Cardinality(HoldersOf(p) \ {c}) = Cardinality(HoldersOf(p)) - 1
    BY <1>2, <2>1, FS_RemoveElement
  <2>3. Cardinality(HoldersOf(p) \ {c}) \in Nat
    BY <2>2, FS_CardinalityType
  <2> QED BY <1>2, <2>2, <2>3
<1>5. slots[p] = Cardinality(HoldersOf(p)) /\ slots[p] <= Concurrency
  BY <1>1 DEF SlotsAccounted, HoldersOf
<1>6. slots'[p] = slots[p] - 1 /\ \A q \in Runs \ {p} : slots'[q] = slots[q]
  BY <1>1
<1>7. ASSUME NEW q \in Runs
      PROVE  slots'[q] = Cardinality(HoldersOf(q)') /\ slots'[q] <= Concurrency
  <2>1. CASE q = p
    BY <2>1, <1>1, <1>4, <1>5, <1>6, TaskTreeAssumption
  <2>2. CASE q # p
    BY <2>2, <1>3, <1>6 DEF SlotsAccounted, HoldersOf
  <2> QED BY <2>1, <2>2
<1>8. slots[p] - 1 \in Nat
  BY <1>4, <1>5
<1>9. TypeOK'
  BY <1>8 DEF Phases
<1> QED BY <1>7, <1>9 DEF SlotsAccounted, HoldersOf

LEMMA SlotsStep ==
  ASSUME TypeOK, Tree, SlotsAccounted, Next PROVE SlotsAccounted'
<1> USE DEF TypeOK, Move, Return, HoldsSlot, Looping
<1>1. ASSUME NEW r \in Runs, RunStep(r) PROVE SlotsAccounted'
  <2>1. CASE AcquireSlot(r)
    BY <2>1, SlotAcquired
  <2>2. CASE ReleaseSlot(r)
    BY <2>2, SlotReleased
  <2>3. CASE ~AcquireSlot(r) /\ ~ReleaseSlot(r)
    <3>1. UNCHANGED <<slots, parent, background>>
      BY <1>1, <2>3 DEF RunStep, ModelCall, ModelError, FinalCall, FinalError, CancelQueued,
             Dispatch, DispatchError, CloseDone
    <3>2. \A q \in Runs : HoldsSlot(q)' <=> HoldsSlot(q)
      BY <1>1, <2>3 DEF RunStep, ModelCall, ModelError, FinalCall, FinalError, CancelQueued,
             Dispatch, DispatchError, CloseDone
    <3> QED BY <3>1, <3>2, SlotsKept
  <2> QED BY <2>1, <2>2, <2>3
<1>2. ASSUME NEW p \in Runs, EndTools(p) PROVE SlotsAccounted'
  BY <1>2, SlotsKept DEF EndTools
<1>3. ASSUME NEW p \in Runs, NEW c \in Runs, CollectBlocking(p, c) PROVE SlotsAccounted'
  BY <1>3, SlotsKept DEF CollectBlocking, Deliver
<1>4. ASSUME NEW p \in Runs, NEW c \in Runs, CollectResult(p, c) PROVE SlotsAccounted'
  BY <1>4, SlotsKept DEF CollectResult, Deliver
<1>5. ASSUME NEW p \in Runs, AwaitTasks(p) PROVE SlotsAccounted'
  BY <1>5, SlotsKept DEF AwaitTasks
<1>6. ASSUME NEW p \in Runs, NEW c \in Runs, SpawnBlocking(p, c) PROVE SlotsAccounted'
  BY <1>6, SlotsKept DEF SpawnBlocking, MaySpawn, Spawned
<1>7. ASSUME NEW p \in Runs, NEW c \in Runs, SpawnBackground(p, c) PROVE SlotsAccounted'
  BY <1>7, SlotsKept DEF SpawnBackground, MaySpawn, Spawned
<1>8. CASE Interrupt
  BY <1>8, SlotsKept DEF Interrupt
<1> QED BY <1>1, <1>2, <1>3, <1>4, <1>5, <1>6, <1>7, <1>8 DEF Next, Collect, ToolCall

(***************************************************************************)
(* The costs                                                               *)
(***************************************************************************)

\* A positive remainder is within the cap, and so is the child's cap.
LEMMA ChildCapBound ==
  ASSUME TypeOK, NEW c \in Runs, RemainingBudget(parent[c]) > 0
  PROVE  0 < ChildCap(c) /\ ChildCap(c) <= cap[parent[c]] /\ ChildCap(c) \in Nat
<1>1. RemainingBudget(parent[c]) \in Nat /\ RemainingBudget(parent[c]) <= cap[parent[c]]
  BY DEF RemainingBudget, BudgetExceeded, TypeOK
<1>2. ChildCap(c) \in 1..RemainingBudget(parent[c])
  BY <1>1, TaskTreeAssumption DEF ChildCap
<1> QED BY <1>1, <1>2 DEF TypeOK

LEMMA CostsRunStep ==
  ASSUME TypeOK, Tree, CostsByPhase, NEW r \in Runs, RunStep(r) PROVE CostsByPhase'
<1>0. Spend(r) => /\ own' \in [Runs -> Nat]
                  /\ own[r] < own'[r] /\ own'[r] <= own[r] + MaxCallCost
                  /\ \A q \in Runs \ {r} : own'[q] = own[q]
  BY SpendEffect
<1>c. RemainingBudget(parent[r]) > 0 =>
        0 < ChildCap(r) /\ ChildCap(r) <= cap[parent[r]] /\ ChildCap(r) \in Nat
  BY ChildCapBound
<1> USE TaskTreeAssumption DEF TypeOK, Tree, CostsByPhase, Move, Return, Unstarted, Looping
<1>1. CASE ModelCall(r)
  BY <1>0, <1>1 DEF ModelCall
<1>2. CASE ModelError(r)
  BY <1>2 DEF ModelError
<1>3. CASE FinalCall(r)
  BY <1>0, <1>3 DEF FinalCall
<1>4. CASE FinalError(r)
  BY <1>4 DEF FinalError
<1>5. CASE AcquireSlot(r)
  BY <1>5 DEF AcquireSlot
<1>6. CASE CancelQueued(r)
  BY <1>6 DEF CancelQueued
<1>7. CASE Dispatch(r)
  BY <1>c, <1>7 DEF Dispatch
<1>8. CASE DispatchError(r)
  BY <1>8 DEF DispatchError
<1>9. CASE ReleaseSlot(r)
  BY <1>9 DEF ReleaseSlot
<1>10. CASE CloseDone(r)
  BY <1>10 DEF CloseDone
<1> QED BY <1>1, <1>2, <1>3, <1>4, <1>5, <1>6, <1>7, <1>8, <1>9, <1>10 DEF RunStep

LEMMA CostsToolStep ==
  ASSUME TypeOK, Tree, CostsByPhase, WaitsInTools, NEW p \in Runs,
         EndTools(p) \/ Collect(p) \/ ToolCall(p)
  PROVE  CostsByPhase'
<1> USE TaskTreeAssumption DEF TypeOK, Tree, CostsByPhase, Move, Unstarted, Looping
<1>1. CASE EndTools(p)
  BY <1>1 DEF EndTools, BudgetExceeded
<1>2. ASSUME NEW c \in Runs, CollectBlocking(p, c) PROVE CostsByPhase'
  BY <1>2 DEF CollectBlocking
<1>3. ASSUME NEW c \in Runs, CollectResult(p, c) PROVE CostsByPhase'
  BY <1>3 DEF CollectResult
<1>4. CASE AwaitTasks(p)
  BY <1>4 DEF AwaitTasks
<1>5. ASSUME NEW c \in Runs, SpawnBlocking(p, c) PROVE CostsByPhase'
  BY <1>5 DEF SpawnBlocking, MaySpawn, Spawned
<1>6. ASSUME NEW c \in Runs, SpawnBackground(p, c) PROVE CostsByPhase'
  BY <1>6 DEF SpawnBackground, MaySpawn, Spawned
<1> QED BY <1>1, <1>2, <1>3, <1>4, <1>5, <1>6 DEF Collect, ToolCall

(***************************************************************************)
(* The invariant and the theorems                                          *)
(***************************************************************************)

LEMMA IInvStep == IInv /\ [Next]_vars => IInv'
<1> SUFFICES ASSUME IInv, [Next]_vars PROVE IInv'
  OBVIOUS
<1> USE DEF IInv
<1>1. CASE Next
  <2>1. SlotsAccounted'
    BY <1>1, SlotsStep
  <2>2. WaitsInTools' /\ DeliveredEnded'
    BY <1>1, WaitsStep
  <2>3. ASSUME NEW r \in Runs, RunStep(r) PROVE TypeOK' /\ Tree' /\ CostsByPhase'
    BY <2>3, TypeRunStep, SlotReleased, TreeRunStep, CostsRunStep
  <2>4. ASSUME NEW p \in Runs, EndTools(p) \/ Collect(p) \/ ToolCall(p)
        PROVE  TypeOK' /\ Tree' /\ CostsByPhase'
    BY <2>4, TypeToolStep, TreeToolStep, CostsToolStep
  <2>5. CASE Interrupt
    <3>1. TypeOK'
      BY <2>5 DEF Interrupt, TypeOK
    <3>2. Tree'
      BY <2>5, TreeKept DEF Interrupt
    <3>3. CostsByPhase'
      BY <2>5 DEF Interrupt, CostsByPhase
    <3> QED BY <2>1, <2>2, <3>1, <3>2, <3>3
  <2> QED BY <1>1, <2>1, <2>2, <2>3, <2>4, <2>5 DEF Next
<1>2. CASE UNCHANGED vars
  BY <1>2 DEF TypeOK, Tree, DepthBounded, SlotsAccounted, ChildrenOf, HoldsSlot, CostsByPhase,
         WaitsInTools, DeliveredEnded, Ended
<1> QED BY <1>1, <1>2

\* The inductive invariant behind the theorems below, about the runs that
\* tools/task.go starts and the metrics it reads.
THEOREM Invariance == Spec => []IInv
BY InitIInv, IInvStep, PTL DEF Spec

\* The variables of tools/task.go and metrics.go keep their types: no semaphore
\* is released more often than it was acquired.
THEOREM TypeCorrect == Spec => []TypeOK
BY Invariance, PTL DEF IInv

\* SpawnTask's semaphore counts the background children that run, for every
\* concurrency limit, whatever fails or is cancelled.
THEOREM SlotsAreAccounted == Spec => []SlotsAccounted
BY Invariance, PTL DEF IInv

\* taskTool's depth check bounds the nesting for both kinds of children.
THEOREM DepthIsBounded == Spec => []DepthBounded
<1>1. IInv => DepthBounded
  BY DEF IInv, Tree
<1> QED BY <1>1, Invariance, PTL

\* applyChildBudget never gives a child more than its parent's cap, nor none.
THEOREM CapsOnlyShrink == Spec => []CapsShrink
<1>1. IInv => CapsShrink
  BY DEF IInv, CostsByPhase, CapsShrink
<1> QED BY <1>1, Invariance, PTL

\* toolLoop's check after each batch holds a run to its cap, up to two calls.
THEOREM OwnCostsAreCapped == Spec => []OwnCostCapped
<1>1. IInv => OwnCostCapped
  BY DEF IInv, CostsByPhase, OwnCostCapped
<1> QED BY <1>1, Invariance, PTL

\* Only a run that is in its loop, or that waits for a child, changes what the
\* Task tools read of it.
LEMMA ResultsKept ==
  ASSUME IInv, [Next]_vars, NEW c \in delivered
  PROVE  own'[c] = own[c] /\ rolled'[c] = rolled[c] /\ ok'[c] = ok[c]
<1> USE DEF TypeOK, IInv, WaitsInTools, Move, Return
<1>1. c \in Runs /\ phase[c] = "ended" /\ awaiting[c] = {}
  BY DEF DeliveredEnded, Ended
<1>2. ASSUME NEW r \in Runs, RunStep(r)
      PROVE  own'[c] = own[c] /\ rolled'[c] = rolled[c] /\ ok'[c] = ok[c]
  <2>1. Spend(r) => \A q \in Runs \ {r} : own'[q] = own[q]
    BY SpendEffect
  <2>2. r # c
    BY <1>1, <1>2 DEF RunStep, ModelCall, ModelError, FinalCall, FinalError, AcquireSlot,
           CancelQueued, Dispatch, DispatchError, ReleaseSlot, CloseDone
  <2>3. rolled' = rolled /\ (own' = own \/ Spend(r))
    BY <1>2 DEF RunStep, ModelCall, ModelError, FinalCall, FinalError, AcquireSlot,
           CancelQueued, Dispatch, DispatchError, ReleaseSlot, CloseDone
  <2>4. ok' = ok \/ \E b \in BOOLEAN : ok' = [ok EXCEPT ![r] = b]
    BY <1>2 DEF RunStep, ModelCall, ModelError, FinalCall, FinalError, AcquireSlot,
           CancelQueued, Dispatch, DispatchError, ReleaseSlot, CloseDone, BudgetExceeded
  <2> QED BY <1>1, <2>1, <2>2, <2>3, <2>4
<1>3. ASSUME NEW p \in Runs, EndTools(p) \/ Collect(p) \/ ToolCall(p)
      PROVE  own'[c] = own[c] /\ rolled'[c] = rolled[c] /\ ok'[c] = ok[c]
  BY <1>1, <1>3 DEF EndTools, Collect, CollectBlocking, CollectResult, Deliver, ToolCall,
         AwaitTasks, SpawnBlocking, SpawnBackground
<1>4. CASE Interrupt
  BY <1>4 DEF Interrupt
<1>5. CASE UNCHANGED vars
  BY <1>5
<1> QED BY <1>2, <1>3, <1>4, <1>5 DEF Next

\* Closing Done last makes what TaskResult returned final.
THEOREM ResultsFinal == Spec => ResultsAreFinal
<1>1. IInv /\ [Next]_vars =>
        [\A c \in delivered : own'[c] = own[c] /\ rolled'[c] = rolled[c] /\ ok'[c] = ok[c]]_vars
  BY ResultsKept
<1> QED BY <1>1, Invariance, PTL DEF Spec, ResultsAreFinal

-----------------------------------------------------------------------------
(***************************************************************************)
(* Each run of a tree is an invocation: the tree implements Invocations.   *)
(***************************************************************************)

USE DEF Invoked!vars

\* A run that has not started has cost nothing; one that may ask the model for
\* something has not used up its budget.
BudgetInv ==
  \A r \in Runs : /\ phase[r] \in Unstarted => own[r] = 0 /\ rolled[r] = 0
                  /\ phase[r] = "model" => ~BudgetExceeded(r)

LEMMA BudgetInit == Init => BudgetInv
BY TaskTreeAssumption DEF Init, BudgetInv, Unstarted, BudgetExceeded

LEMMA BudgetStep == IInv /\ BudgetInv /\ [Next]_vars => BudgetInv'
<1> SUFFICES ASSUME IInv, BudgetInv, [Next]_vars PROVE BudgetInv'
  OBVIOUS
<1> USE DEF BudgetInv, Unstarted
<1>0. TypeOK'
  BY IInvStep DEF IInv
<1>1. TypeOK /\ WaitsInTools
  BY DEF IInv
<1>2. ASSUME NEW r \in Runs, RunStep(r) PROVE BudgetInv'
  <2>1. CASE ModelCall(r) \/ FinalCall(r)
    BY <1>1, <2>1 DEF ModelCall, FinalCall, Return, Move, Spend, BudgetExceeded, TypeOK
  <2>2. CASE ModelError(r) \/ FinalError(r) \/ DispatchError(r)
    BY <1>1, <2>2 DEF ModelError, FinalError, DispatchError, Return, Move, BudgetExceeded, TypeOK
  <2>3. CASE AcquireSlot(r) \/ CancelQueued(r) \/ ReleaseSlot(r) \/ CloseDone(r)
    BY <1>1, <2>3 DEF AcquireSlot, CancelQueued, ReleaseSlot, CloseDone, Move, BudgetExceeded, TypeOK
  <2>4. CASE Dispatch(r)
    <3>1. phase' = [phase EXCEPT ![r] = "model"] /\ own' = own /\ rolled' = rolled
      BY <2>4 DEF Dispatch, Move
    <3>2. \A q \in Runs \ {r} : cap'[q] = cap[q]
      BY <1>1, <2>4 DEF Dispatch, TypeOK
    <3>3. own[r] = 0 /\ rolled[r] = 0
      BY <2>4 DEF Dispatch
    <3>4. ~BudgetExceeded(r)'
      BY <1>0, <3>1, <3>3 DEF BudgetExceeded, TypeOK
    <3> QED BY <1>1, <3>1, <3>2, <3>3, <3>4 DEF BudgetExceeded, TypeOK
  <2> QED BY <1>2, <2>1, <2>2, <2>3, <2>4 DEF RunStep
<1>3. ASSUME NEW r \in Runs, EndTools(r) PROVE BudgetInv'
  BY <1>1, <1>3 DEF EndTools, Move, BudgetExceeded, TypeOK
<1>4. ASSUME NEW p \in Runs, Collect(p) PROVE BudgetInv'
  <2>1. PICK c \in Runs : CollectBlocking(p, c) \/ CollectResult(p, c)
    BY <1>4 DEF Collect
  <2>2. phase[p] \in {"tools", "collect"}
    BY <1>1, <2>1 DEF CollectBlocking, CollectResult, WaitsInTools
  <2> QED BY <1>1, <2>1, <2>2 DEF CollectBlocking, CollectResult, Deliver, Move, BudgetExceeded, TypeOK
<1>5. ASSUME NEW p \in Runs, ToolCall(p) PROVE BudgetInv'
  BY <1>1, <1>5 DEF ToolCall, AwaitTasks, SpawnBlocking, SpawnBackground, MaySpawn, Spawned, Move,
                    BudgetExceeded, TypeOK
<1>6. CASE Interrupt \/ UNCHANGED vars
  BY <1>6 DEF Interrupt, BudgetExceeded
<1> QED BY <1>2, <1>3, <1>4, <1>5, <1>6 DEF Next


\* What a step of run r alone does to the invocations.
LEMMA OneGoesOn ==
  ASSUME NEW r \in Runs,
         \A q \in Runs \ {r} : stageBar'[q] = stageBar[q] /\ overBar'[q] = overBar[q]
  PROVE  Invoked!Becomes(r, stageBar'[r], overBar'[r])
<1>1. stageBar' = [stageBar EXCEPT ![r] = stageBar'[r]]
  BY DEF stageBar
<1>2. overBar' = [overBar EXCEPT ![r] = overBar'[r]]
  BY DEF overBar, BudgetExceeded
<1> QED BY <1>1, <1>2 DEF Invoked!Becomes

LEMMA NoneGoesOn ==
  ASSUME \A q \in Runs : stageBar'[q] = stageBar[q] /\ overBar'[q] = overBar[q]
  PROVE  UNCHANGED Invoked!vars
<1>1. stageBar' = stageBar
  BY DEF stageBar
<1>2. overBar' = overBar
  BY DEF overBar, BudgetExceeded
<1> QED BY <1>1, <1>2

InvocationStep == [Invoked!Next]_(Invoked!vars)

RunTypes ==
  /\ phase \in [Runs -> Phases] /\ own \in [Runs -> Nat] /\ rolled \in [Runs -> Nat]
  /\ cap \in [Runs -> Nat] /\ ok \in [Runs -> BOOLEAN]

LEMMA LoopStepImplements ==
  ASSUME IInv, BudgetInv, NEW r \in Runs,
         ModelCall(r) \/ ModelError(r) \/ FinalCall(r) \/ FinalError(r) \/ EndTools(r)
  PROVE  InvocationStep
<1>0. RunTypes
  BY DEF IInv, TypeOK, RunTypes
<1> DEFINE Alone == \A q \in Runs \ {r} : stageBar'[q] = stageBar[q] /\ overBar'[q] = overBar[q]
<1> USE DEF stageBar, overBar, BudgetExceeded, RunTypes
<1>1. CASE ModelCall(r)
  <2>1. Alone
    BY <1>0, <1>1 DEF ModelCall, Move, Return, Spend
  <2>2. stageBar[r] = "model" /\ ~overBar[r] /\ overBar'[r] \in BOOLEAN
    BY <1>1 DEF ModelCall, BudgetInv
  <2>3. stageBar'[r] \in {"tools", "succeeded"}
    BY <1>0, <1>1 DEF ModelCall, Move, Return
  <2> HIDE DEF stageBar, overBar, BudgetExceeded
  <2>4. Invoked!Becomes(r, stageBar'[r], overBar'[r])
    BY <2>1, OneGoesOn
  <2>5. Invoked!Respond(r)
    BY <2>2, <2>3, <2>4 DEF Invoked!Respond
  <2> QED BY <2>5 DEF InvocationStep, Invoked!Next
<1>2. CASE ModelError(r)
  <2>1. Alone /\ overBar'[r] = overBar[r]
    BY <1>0, <1>2 DEF ModelError, Move, Return
  <2>2. stageBar[r] = "model" /\ stageBar'[r] = "failed"
    BY <1>0, <1>2 DEF ModelError, Move, Return
  <2> HIDE DEF stageBar, overBar, BudgetExceeded
  <2>3. Invoked!Becomes(r, stageBar'[r], overBar'[r])
    BY <2>1, OneGoesOn
  <2>4. Invoked!Fail(r)
    BY <2>1, <2>2, <2>3 DEF Invoked!Fail
  <2> QED BY <2>4 DEF InvocationStep, Invoked!Next
<1>3. CASE FinalCall(r) \/ FinalError(r)
  <2>0. phase'[r] = "returned" /\ phase[r] = "final"
    BY <1>0, <1>3 DEF FinalCall, FinalError, Move, Return
  <2>1. Alone
    BY <1>0, <1>3 DEF FinalCall, FinalError, Move, Return, Spend
  <2>2. stageBar[r] = "final" /\ stageBar'[r] \in {"succeeded", "failed"} /\ overBar'[r] \in BOOLEAN
    BY <2>0
  <2>3. overBar[r] => overBar'[r]
    <3>1. own'[r] >= own[r] /\ own'[r] \in Nat
      <4>1. CASE FinalCall(r)
        BY <4>1, <1>0, SpendEffect DEF FinalCall, IInv
      <4>2. CASE FinalError(r)
        BY <4>2, <1>0 DEF FinalError
      <4> QED BY <1>3, <4>1, <4>2
    <3>2. cap' = cap /\ rolled' = rolled
      BY <1>3 DEF FinalCall, FinalError
    <3> QED BY <1>0, <3>1, <3>2
  <2>4. overBar[r] => stageBar'[r] = "failed"
    <3>1. BudgetExceeded(r) => ok'[r] = FALSE
      BY <1>0, <1>3 DEF FinalCall, FinalError, Return
    <3> QED BY <2>0, <3>1
  <2> HIDE DEF stageBar, overBar, BudgetExceeded
  <2>5. Invoked!Becomes(r, stageBar'[r], overBar'[r])
    BY <2>1, OneGoesOn
  <2>6. Invoked!Close(r)
    BY <2>2, <2>3, <2>4, <2>5 DEF Invoked!Close
  <2> QED BY <2>6 DEF InvocationStep, Invoked!Next
<1>4. CASE EndTools(r)
  <2>1. Alone /\ overBar'[r] = overBar[r]
    BY <1>0, <1>4 DEF EndTools, Move
  <2>2. stageBar[r] = "tools"
    BY <1>4 DEF EndTools
  <2>3. stageBar'[r] = "final" \/ (stageBar'[r] = "model" /\ overBar[r] = FALSE)
    BY <1>0, <1>4 DEF EndTools, Move
  <2> HIDE DEF stageBar, overBar, BudgetExceeded
  <2>4. Invoked!Becomes(r, stageBar'[r], overBar'[r])
    BY <2>1, OneGoesOn
  <2>5. Invoked!GoOn(r) \/ Invoked!Stop(r)
    BY <2>1, <2>2, <2>3, <2>4 DEF Invoked!GoOn, Invoked!Stop
  <2> QED BY <2>5 DEF InvocationStep, Invoked!Next
<1> QED BY <1>1, <1>2, <1>3, <1>4

LEMMA StartStepImplements ==
  ASSUME IInv, BudgetInv, NEW r \in Runs,
         \/ AcquireSlot(r) \/ CancelQueued(r) \/ Dispatch(r) \/ DispatchError(r)
         \/ ReleaseSlot(r) \/ CloseDone(r)
  PROVE  InvocationStep
<1>0. RunTypes
  BY DEF IInv, TypeOK, RunTypes
<1> DEFINE Alone == \A q \in Runs \ {r} : stageBar'[q] = stageBar[q] /\ overBar'[q] = overBar[q]
<1> USE DEF stageBar, overBar, BudgetExceeded, RunTypes
<1>1. CASE AcquireSlot(r) \/ ReleaseSlot(r) \/ CloseDone(r)
  <2>1. Alone
    BY <1>0, <1>1 DEF AcquireSlot, ReleaseSlot, CloseDone, Move
  <2>2. stageBar'[r] = stageBar[r] /\ overBar'[r] = overBar[r]
    BY <1>0, <1>1 DEF AcquireSlot, ReleaseSlot, CloseDone, Move
  <2> HIDE DEF stageBar, overBar, BudgetExceeded
  <2> QED BY <2>1, <2>2, NoneGoesOn DEF InvocationStep
<1>2. CASE CancelQueued(r) \/ DispatchError(r)
  <2>1. Alone
    BY <1>0, <1>2 DEF CancelQueued, DispatchError, Return, Move
  <2>2. stageBar[r] = "idle" /\ stageBar'[r] = "failed"
    BY <1>0, <1>2 DEF CancelQueued, DispatchError, Return, Move
  <2>3. overBar'[r] = FALSE
    <3>1. own[r] = 0 /\ rolled[r] = 0 /\ UNCHANGED <<cap, own, rolled>>
      BY <1>2 DEF CancelQueued, DispatchError, BudgetInv, Unstarted
    <3>2. ~(cap'[r] > 0 /\ own'[r] + rolled'[r] >= cap'[r])
      BY <1>0, <3>1
    <3> QED BY <3>2
  <2> HIDE DEF stageBar, overBar, BudgetExceeded
  <2>4. Invoked!Becomes(r, stageBar'[r], overBar'[r])
    BY <2>1, OneGoesOn
  <2>5. Invoked!GiveUp(r)
    BY <2>2, <2>3, <2>4 DEF Invoked!GiveUp
  <2> QED BY <2>5 DEF InvocationStep, Invoked!Next
<1>3. CASE Dispatch(r)
  <2>1. Alone
    BY <1>0, <1>3 DEF Dispatch, Move
  <2>2. stageBar[r] = "idle" /\ stageBar'[r] = "model"
    BY <1>0, <1>3 DEF Dispatch, Move
  <2>3. overBar'[r] = FALSE
    <3>1. own[r] = 0 /\ rolled[r] = 0 /\ UNCHANGED <<own, rolled>>
      BY <1>3 DEF Dispatch, BudgetInv, Unstarted
    <3>2. cap'[r] \in Nat
      BY IInvStep, <1>3 DEF Next, RunStep, IInv, TypeOK
    <3>3. ~(cap'[r] > 0 /\ own'[r] + rolled'[r] >= cap'[r])
      BY <3>1, <3>2
    <3> QED BY <3>3
  <2> HIDE DEF stageBar, overBar, BudgetExceeded
  <2>4. Invoked!Becomes(r, stageBar'[r], overBar'[r])
    BY <2>1, OneGoesOn
  <2>5. Invoked!Enter(r)
    BY <2>2, <2>3, <2>4 DEF Invoked!Enter
  <2> QED BY <2>5 DEF InvocationStep, Invoked!Next
<1> QED BY <1>1, <1>2, <1>3

\* A child's cost is charged to a parent that is in a batch of tool calls.
LEMMA CollectImplements ==
  ASSUME IInv, NEW p \in Runs, Collect(p) PROVE InvocationStep
<1>0. RunTypes /\ WaitsInTools
  BY DEF IInv, TypeOK, RunTypes
<1>1. PICK c \in Runs : CollectBlocking(p, c) \/ CollectResult(p, c)
  BY DEF Collect
<1>2. phase[p] \in {"tools", "collect"} /\ c \in awaiting[p]
  BY <1>0, <1>1 DEF CollectBlocking, CollectResult, WaitsInTools
<1> DEFINE Alone == \A q \in Runs \ {p} : stageBar'[q] = stageBar[q] /\ overBar'[q] = overBar[q]
<1> USE DEF stageBar, overBar, BudgetExceeded, RunTypes
<1>3. stageBar' = stageBar /\ stageBar[p] = "tools"
  BY <1>0, <1>1, <1>2 DEF CollectBlocking, CollectResult, Move
<1>4. \A q \in Runs \ {p} : overBar'[q] = overBar[q]
  BY <1>0, <1>1 DEF CollectBlocking, CollectResult, Deliver
<1>5. overBar[p] => overBar'[p]
  BY <1>0, <1>1 DEF CollectBlocking, CollectResult, Deliver
<1>6. overBar[p] \in BOOLEAN /\ overBar'[p] \in BOOLEAN
  OBVIOUS
<1> HIDE DEF stageBar, overBar, BudgetExceeded
<1>7. CASE overBar'[p] = overBar[p]
  BY <1>3, <1>4, <1>7, NoneGoesOn DEF InvocationStep
<1>8. CASE overBar'[p] = TRUE
  <2>1. Invoked!Becomes(p, stageBar'[p], overBar'[p])
    BY <1>3, <1>4, OneGoesOn
  <2>2. Invoked!Charge(p)
    BY <1>3, <1>8, <2>1 DEF Invoked!Charge
  <2> QED BY <2>2 DEF InvocationStep, Invoked!Next
<1> QED BY <1>5, <1>6, <1>7, <1>8

LEMMA SpawnImplements ==
  ASSUME IInv, NEW p \in Runs, ToolCall(p) PROVE InvocationStep
<1>0. RunTypes
  BY DEF IInv, TypeOK, RunTypes
<1>1. UNCHANGED <<cap, costs, ok>>
  BY DEF ToolCall, AwaitTasks, SpawnBlocking, SpawnBackground
<1>2. \A q \in Runs : stageBar'[q] = stageBar[q]
  <2>1. CASE AwaitTasks(p)
    BY <1>0, <2>1 DEF AwaitTasks, Move, stageBar, RunTypes
  <2>2. ASSUME NEW c \in Runs, SpawnBlocking(p, c) \/ SpawnBackground(p, c)
        PROVE  \A q \in Runs : stageBar'[q] = stageBar[q]
    BY <1>0, <2>2 DEF SpawnBlocking, SpawnBackground, MaySpawn, Spawned, Move, stageBar, RunTypes
  <2> QED BY <2>1, <2>2 DEF ToolCall
<1>3. \A q \in Runs : overBar'[q] = overBar[q]
  BY <1>1 DEF overBar, BudgetExceeded
<1> QED BY <1>2, <1>3, NoneGoesOn DEF InvocationStep

\* However deep a tree and whatever its runs cost each other, each run is an
\* invocation: it makes no request over its budget but the closing one, fails if
\* the budget was exceeded before that one, and its outcome is never taken back
\* (tools/task.go, runner/model.go, metrics.go).
THEOREM RunsAreInvocations == Spec => ImplementsInvocations
<1>1. Init => Invoked!Init
  <2> SUFFICES ASSUME Init PROVE Invoked!Init
    OBVIOUS
  <2>1. stageBar \in [Runs -> {"idle", "model"}]
    BY DEF Init, stageBar
  <2>2. overBar = [r \in Runs |-> FALSE]
    <3>1. \A r \in Runs : BudgetExceeded(r) = FALSE
      BY TaskTreeAssumption DEF Init, BudgetExceeded
    <3> QED BY <3>1 DEF overBar
  <2> QED BY <2>1, <2>2 DEF Invoked!Init
<1>2. IInv /\ BudgetInv /\ [Next]_vars => InvocationStep
  <2> SUFFICES ASSUME IInv, BudgetInv, [Next]_vars PROVE InvocationStep
    OBVIOUS
  <2>1. ASSUME NEW r \in Runs, RunStep(r) \/ EndTools(r) PROVE InvocationStep
    BY <2>1, LoopStepImplements, StartStepImplements DEF RunStep
  <2>2. CASE Interrupt \/ UNCHANGED vars
    <3>1. phase' = phase /\ ok' = ok /\ own' = own /\ rolled' = rolled /\ cap' = cap
      BY <2>2 DEF Interrupt
    <3> QED BY <3>1, NoneGoesOn DEF InvocationStep, stageBar, overBar, BudgetExceeded
  <2> QED BY <2>1, <2>2, CollectImplements, SpawnImplements DEF Next
<1>3. Spec => []BudgetInv
  <2>1. Spec => []IInv
    BY Invariance
  <2> QED BY <2>1, BudgetInit, BudgetStep, PTL DEF Spec
<1> QED BY <1>1, <1>2, <1>3, Invariance, PTL DEF Spec, ImplementsInvocations, Invoked!Spec, InvocationStep

----------------------------------------------------------------------------
(***************************************************************************)
(* The tool loop in which every run of the tree works (RunWithTools): one  *)
(* instance of ToolLoop, for every set of files and of batches and for     *)
(* every value of the limits of the enforcers.                             *)
(***************************************************************************)

CONSTANTS
  Files, Batches, MaxIter, Deadlines, NudgeAfter, ReadRepeats, ToolRepeats, EditRepeats,
  LoopWindow, LoopRepeats, StreakLimit, KeepRecent, RollInterval, Attempts, MaxChanges

VARIABLES
  pc, closing, iter, attempt, cancelled, over, batch, parts, seen, known, evicted, streak,
  content, aimed, idleIters, enforcer, grace, repeat, steps, before, changes

Loop == INSTANCE ToolLoop WITH phase <- enforcer

USE DEF Loop!config, Loop!files, Loop!tracking, Loop!request

Parts == [kind : Loop!Pending \cup Loop!Reported, n : Nat]

\* What LoopDetector keeps of a step.
Steps == {<<>>} \cup UNION {[DOMAIN b -> Loop!Calls \X Parts] : b \in Batches}

Calling == {"call", "inflight", "backoff"}

FlowType ==
  /\ split \in BOOLEAN /\ deadline \in Deadlines /\ closing \in BOOLEAN /\ cancelled \in BOOLEAN
  /\ over \in BOOLEAN
  /\ pc \in Calling \cup {"execute", "done"}
  /\ iter \in 0..MaxIter /\ attempt \in 0..(Attempts - 1)
  /\ outcome \in [reason : {"none", "answered", "repeat", "deadline", "loop", "budget",
                            "iterations", "error"},
                  answer : {"none", "answer", "partial", "nothing", "budget", "failed"}]
  /\ late \in Nat

BatchType ==
  /\ batch \in Batches \cup {<<>>}
  /\ parts \in Seq(Parts) /\ Len(parts) = Len(batch)
  /\ pc = "execute" => batch \in Batches

FileType ==
  /\ seen \in [Files -> {"never", "fresh", "stale"}]
  /\ known \in [Files -> {"absent", "current", "changed"}]
  /\ evicted \in [Files -> BOOLEAN] /\ streak \in Nat
  /\ content \in [Files -> [state : {"none", "full", "rolled", "gone"},
                            at : 0..MaxIter, kept : BOOLEAN]]
  /\ writes \subseteq {"whole", "partial", "unseen"} /\ changes \in 0..MaxChanges

TrackType ==
  /\ aimed \subseteq Files /\ edited \in BOOLEAN /\ idleIters \in Nat /\ idle \in Nat
  /\ enforcer \in [idle : Nat, nudges : Nat]
  /\ grace \in [reached : BOOLEAN, remaining : Int, editFailed : BOOLEAN]
  /\ steps \in Seq(Steps) /\ Len(steps) <= LoopWindow

RequestType == repeat \in [sig : Batches \cup {<<>>}, count : Nat] /\ before \in Nat

LoopType == FlowType /\ BatchType /\ FileType /\ TrackType /\ RequestType

LEMMA LoopTypeIsTypeOK == LoopType => Loop!TypeOK
BY DEF LoopType, FlowType, BatchType, FileType, TrackType, RequestType, Calling, Parts,
       Loop!TypeOK, Loop!NoBatch

\* Limits are positive, a batch is a sequence of calls.
LEMMA LoopConstants ==
  ASSUME Loop!ToolLoopAssumption
  PROVE  /\ MaxIter \in Nat \ {0} /\ GracePeriod \in Nat \ {0} /\ LoopWindow \in Nat \ {0}
         /\ Attempts \in Nat \ {0} /\ MaxChanges \in Nat /\ Deadlines \subseteq Nat
         /\ IsFiniteSet(Files)
         /\ \A b \in Batches : /\ b \in Seq(Loop!Calls) /\ Len(b) \in Nat
                               /\ DOMAIN b = 1..Len(b)
                               /\ \A k \in DOMAIN b : /\ b[k] = <<b[k][1], b[k][2]>>
                                                      /\ b[k][1] \in Loop!Tools
                                                      /\ b[k][2] \in Files
<1>1. IsFiniteSet(Files)
  BY DEF Loop!ToolLoopAssumption, Loop!IsFiniteSet, IsFiniteSet
<1>2. ASSUME NEW b \in Batches
      PROVE  /\ b \in Seq(Loop!Calls) /\ Len(b) \in Nat
             /\ DOMAIN b = 1..Len(b)
             /\ \A k \in DOMAIN b : b[k] = <<b[k][1], b[k][2]>> /\ b[k][1] \in Loop!Tools /\ b[k][2] \in Files
  <2>1. b \in Seq(Loop!Calls)
    BY DEF Loop!ToolLoopAssumption
  <2>2. Len(b) \in Nat /\ DOMAIN b = 1..Len(b) /\ \A k \in DOMAIN b : b[k] \in Loop!Calls
    BY <2>1
  <2> QED BY <2>1, <2>2 DEF Loop!Calls
<1> QED BY <1>1, <1>2 DEF Loop!ToolLoopAssumption

LEMMA KnownFilesCounted ==
  ASSUME Loop!ToolLoopAssumption
  PROVE  Loop!Cardinality(Loop!KnownFiles) \in Nat
<1>1. Loop!KnownFiles \in SUBSET Files /\ IsFiniteSet(Files)
  BY LoopConstants DEF Loop!KnownFiles
<1>2. Cardinality(Loop!KnownFiles) \in Nat
  BY <1>1, FS_Subset, FS_CardinalityType
<1> QED BY <1>2 DEF Loop!Cardinality, Cardinality

\* Where the reason of the end and the flag of finishToolLoop can stand.
ClosingInv ==
  /\ closing => pc # "execute"
  /\ outcome.reason = "deadline" => closing

\* An edit that was applied in full has disarmed the enforcers, or will when its
\* batch is over.
WholeInv ==
  ~split /\ "whole" \in writes =>
    \/ edited
    \/ pc = "execute" /\ \E k \in Loop!EditCalls(batch) : parts[k].kind = "whole"

\* n idle batches are accounted for: by the count of EditEnforcer, below the
\* deadline; beyond it by what the grace period has lost.
Accounted(n) ==
  /\ n <= idleIters
  /\ n <= deadline - 1 \/ (grace.reached /\ n <= deadline + GracePeriod - grace.remaining)
  /\ grace.reached => 1 <= grace.remaining /\ grace.remaining <= GracePeriod

IdleInv ==
  deadline > 0 /\ ~edited =>
    /\ idle <= deadline + GracePeriod - 1
    /\ ~closing /\ pc \in Calling => Accounted(idle)
    /\ pc = "execute" =>
         IF Loop!EditCalls(batch) = {} THEN Accounted(idle + 1) ELSE Accounted(idle)

\* Responses paid for after the budget was gone.
LateInv ==
  /\ ~closing /\ pc \in Calling => ~over /\ late = 0
  /\ pc = "execute" => late = 0
  /\ closing /\ pc # "done" => late = 0
  /\ late <= 1

LoopInv ==
  /\ LoopType /\ ClosingInv /\ WholeInv /\ DeadlineOnlyWithoutEdits
  /\ IdleInv /\ LateInv /\ Loop!StubsReferToContent

LEMMA LoopInitially == ASSUME Loop!ToolLoopAssumption PROVE Loop!Init => LoopInv
<1> SUFFICES ASSUME Loop!Init PROVE LoopInv
  OBVIOUS
<1> USE DEF Loop!Init
<1>c. /\ MaxIter \in Nat \ {0} /\ LoopWindow \in Nat \ {0} /\ Attempts \in Nat \ {0}
      /\ MaxChanges \in Nat /\ Deadlines \subseteq Nat /\ GracePeriod \in Nat \ {0}
  BY LoopConstants
<1>n. /\ 0 \in 0..MaxIter /\ 0 \in 0..(Attempts - 1) /\ 0 \in 0..MaxChanges /\ 0 <= LoopWindow
  BY <1>c
<1>1. FlowType /\ RequestType
  <2>1. FlowType
    BY <1>n DEF FlowType, Calling
  <2>2. RequestType
    BY DEF RequestType, Loop!NoBatch
  <2> QED BY <2>1, <2>2
<1>2. BatchType
  BY DEF BatchType, Loop!NoBatch
<1>3. FileType
  BY <1>n DEF FileType
<1>4. TrackType
  <2>1. steps \in Seq(Steps) /\ Len(steps) = 0
    OBVIOUS
  <2>2. /\ enforcer \in [idle : Nat, nudges : Nat]
        /\ grace \in [reached : BOOLEAN, remaining : Int, editFailed : BOOLEAN]
    OBVIOUS
  <2> QED BY <2>1, <2>2, <1>n DEF TrackType
<1>5. ClosingInv /\ WholeInv /\ DeadlineOnlyWithoutEdits /\ LateInv
  BY DEF ClosingInv, WholeInv, DeadlineOnlyWithoutEdits, LateInv
<1>6. IdleInv
  <2>1. deadline \in Nat
    BY <1>c
  <2> QED BY <1>c, <2>1 DEF IdleInv, Accounted
<1>7. Loop!StubsReferToContent
  BY DEF Loop!StubsReferToContent
<1> QED BY <1>1, <1>2, <1>3, <1>4, <1>5, <1>6, <1>7 DEF LoopInv, LoopType

\* Steps of the model call that only move the loop: nothing the properties
\* relate has changed.
LEMMA LoopMoves ==
  ASSUME LoopInv, FlowType', ClosingInv', LateInv',
         UNCHANGED <<split, deadline, batch, parts, seen, known, evicted, streak, content, writes,
                     changes, aimed, edited, idleIters, enforcer, grace, steps, idle, repeat, before>>,
         pc # "execute", pc' # "execute",
         ~closing' /\ pc' \in Calling => ~closing /\ pc \in Calling,
         outcome'.reason = "deadline" => outcome.reason = "deadline"
  PROVE  LoopInv'
<1>1. BatchType' /\ FileType' /\ TrackType' /\ RequestType'
  BY DEF LoopInv, LoopType, BatchType, FileType, TrackType, RequestType
<1>2. WholeInv' /\ DeadlineOnlyWithoutEdits' /\ Loop!StubsReferToContent'
  BY DEF LoopInv, WholeInv, DeadlineOnlyWithoutEdits, Loop!StubsReferToContent
<1>3. IdleInv'
  BY DEF LoopInv, IdleInv, Accounted
<1> QED BY <1>1, <1>2, <1>3 DEF LoopInv, LoopType

LEMMA CallFailedKeeps ==
  ASSUME LoopInv, Loop!CallFailed, pc \in Calling
  PROVE  LoopInv'
<1>1. pc' = "done" /\ closing' = closing /\ late' = late
  BY DEF Loop!CallFailed
<1>2. FlowType'
  <2>1. PICK a \in Loop!Unanswered :
          outcome' = [reason |-> IF closing THEN outcome.reason ELSE "error", answer |-> a]
    BY DEF Loop!CallFailed
  <2>2. a \in {"failed", "budget", "partial", "nothing"}
    BY DEF Loop!Unanswered, Loop!Fallbacks
  <2> QED BY <1>1, <2>1, <2>2 DEF Loop!CallFailed, LoopInv, LoopType, FlowType
<1>3. outcome'.reason = "deadline" => closing /\ outcome.reason = "deadline"
  BY DEF Loop!CallFailed, LoopInv, ClosingInv
<1>4. ClosingInv' /\ LateInv'
  BY <1>1, <1>3 DEF LoopInv, ClosingInv, LateInv, Calling
<1> QED BY <1>1, <1>2, <1>3, <1>4, LoopMoves DEF Loop!CallFailed, Calling

\* The actions of a model call but the one that brings tool calls.
LEMMA ModelKeeps ==
  ASSUME Loop!ToolLoopAssumption, LoopInv,
         \/ Loop!Cancel \/ Loop!StartAttempt \/ Loop!AttemptFails \/ Loop!AttemptFailsForNow
         \/ Loop!Backoff \/ Loop!Answer \/ \E text \in BOOLEAN : Loop!FinalResponse(text)
  PROVE  LoopInv'
<1> USE DEF Calling
<1>1. CASE Loop!CallFailed /\ pc \in Calling
  BY <1>1, CallFailedKeeps
<1>2. CASE Loop!Cancel
  <2>1. FlowType' /\ ClosingInv' /\ LateInv'
    BY <1>2 DEF Loop!Cancel, LoopInv, LoopType, FlowType, ClosingInv, LateInv
  <2> QED BY <1>2, <2>1, LoopMoves DEF Loop!Cancel
<1>3. CASE Loop!StartAttempt /\ ~Loop!CallFailed
  <2>1. pc = "call" /\ pc' = "inflight"
    BY <1>3 DEF Loop!StartAttempt
  <2>2. FlowType' /\ ClosingInv' /\ LateInv'
    BY <1>3, <2>1 DEF Loop!StartAttempt, LoopInv, LoopType, FlowType, ClosingInv, LateInv
  <2> QED BY <1>3, <2>1, <2>2, LoopMoves DEF Loop!StartAttempt
<1>4. CASE Loop!AttemptFailsForNow
  <2>1. attempt' \in 0..(Attempts - 1)
    BY <1>4, LoopConstants DEF Loop!AttemptFailsForNow, LoopInv, LoopType, FlowType
  <2>2. FlowType' /\ ClosingInv' /\ LateInv'
    BY <1>4, <2>1 DEF Loop!AttemptFailsForNow, LoopInv, LoopType, FlowType, ClosingInv, LateInv
  <2> QED BY <1>4, <2>2, LoopMoves DEF Loop!AttemptFailsForNow
<1>5. CASE Loop!Backoff /\ ~Loop!CallFailed
  <2>1. pc = "backoff" /\ pc' = "call"
    BY <1>5 DEF Loop!Backoff
  <2>2. FlowType' /\ ClosingInv' /\ LateInv'
    BY <1>5, <2>1 DEF Loop!Backoff, LoopInv, LoopType, FlowType, ClosingInv, LateInv
  <2> QED BY <1>5, <2>1, <2>2, LoopMoves DEF Loop!Backoff
<1>6. CASE Loop!Answer
  <2>1. ~over /\ late = 0 /\ late' = 0 /\ over' \in BOOLEAN
    BY <1>6 DEF Loop!Answer, Loop!Charge, LoopInv, LoopType, FlowType, LateInv
  <2>2. FlowType' /\ ClosingInv' /\ LateInv'
    BY <1>6, <2>1 DEF Loop!Answer, LoopInv, LoopType, FlowType, ClosingInv, LateInv
  <2> QED BY <1>6, <2>2, LoopMoves DEF Loop!Answer
<1>7. ASSUME NEW text \in BOOLEAN, Loop!FinalResponse(text) PROVE LoopInv'
  <2>0. /\ pc = "inflight" /\ pc' = "done" /\ closing /\ closing' = closing
        /\ over' \in {over, TRUE} /\ late' = IF over THEN late + 1 ELSE late
    BY <1>7 DEF Loop!FinalResponse, Loop!Charge
  <2>z. late = 0 /\ over \in BOOLEAN
    BY <2>0 DEF LoopInv, LoopType, FlowType, LateInv
  <2>1. /\ pc = "inflight" /\ pc' = "done" /\ closing /\ closing' = closing /\ late = 0
        /\ over' \in BOOLEAN /\ late' \in {0, 1}
    <3>1. late' \in {0, 1}
      BY <2>0, <2>z
    <3>2. over' \in BOOLEAN
      BY <2>0, <2>z
    <3> QED BY <2>0, <2>z, <3>1, <3>2
  <2>2. PICK a \in {"answer", "budget", "partial", "nothing"} : outcome' = [outcome EXCEPT !.answer = a]
    BY <1>7 DEF Loop!FinalResponse, Loop!Fallbacks
  <2>3. outcome' \in [reason : {"none", "answered", "repeat", "deadline", "loop", "budget",
                                "iterations", "error"},
                      answer : {"none", "answer", "partial", "nothing", "budget", "failed"}]
        /\ outcome'.reason = outcome.reason
    BY <2>2 DEF LoopInv, LoopType, FlowType
  <2>4. FlowType' /\ ClosingInv' /\ LateInv'
    BY <1>7, <2>1, <2>3 DEF Loop!FinalResponse, LoopInv, LoopType, FlowType, ClosingInv, LateInv
  <2> QED BY <1>7, <2>1, <2>3, <2>4, LoopMoves DEF Loop!FinalResponse
<1> QED
  BY <1>1, <1>2, <1>3, <1>4, <1>5, <1>6, <1>7
  DEF Loop!StartAttempt, Loop!AttemptFails, Loop!Backoff

LEMMA BatchFacts ==
  ASSUME Loop!ToolLoopAssumption, BatchType, pc = "execute"
  PROVE  /\ batch \in Batches /\ Len(batch) \in Nat
         /\ DOMAIN batch = 1..Len(batch) /\ DOMAIN parts = 1..Len(batch)
         /\ \A k \in DOMAIN batch : batch[k][2] \in Files /\ parts[k] \in Parts
         /\ Loop!EditCalls(batch) \subseteq DOMAIN batch
<1>1. batch \in Batches /\ parts \in Seq(Parts) /\ Len(parts) = Len(batch)
  BY DEF BatchType
<1>2. Len(batch) \in Nat /\ DOMAIN batch = 1..Len(batch) /\ \A k \in DOMAIN batch : batch[k][2] \in Files
  BY <1>1, LoopConstants
<1>3. DOMAIN parts = 1..Len(parts) /\ \A k \in DOMAIN parts : parts[k] \in Parts
  BY <1>1
<1> QED BY <1>1, <1>2, <1>3 DEF Loop!EditCalls

LEMMA PlainIsPart ==
  \A kind \in Loop!Pending \cup Loop!Reported : Loop!Plain(kind) \in Parts
BY DEF Loop!Plain, Parts

LEMMA ChangedParts ==
  ASSUME NEW s \in Seq(Parts), NEW n \in Nat, Len(s) = n, NEW t,
         t = [k \in DOMAIN s |-> t[k]], \A k \in 1..n : t[k] \in Parts
  PROVE  t \in Seq(Parts) /\ Len(t) = n
<1>1. DOMAIN s = 1..n
  OBVIOUS
<1>2. t \in [1..n -> Parts]
  BY <1>1
<1> QED BY <1>2

\* A step of a call moves the loop on when it keeps the report of an edit that
\* was applied in full, and leaves one when it applies an edit in full.
LEMMA CallKeeps ==
  ASSUME Loop!ToolLoopAssumption, LoopInv, pc = "execute",
         UNCHANGED <<split, deadline, pc, closing, iter, attempt, cancelled, over, late, batch,
                     outcome, repeat, before, aimed, edited, idleIters, enforcer, grace, idle>>,
         parts' \in Seq(Parts), Len(parts') = Len(parts),
         \A k \in DOMAIN batch : parts[k].kind = "whole" => parts'[k].kind = "whole",
         "whole" \in writes' =>
           "whole" \in writes \/ \E k \in Loop!EditCalls(batch) : parts'[k].kind = "whole",
         FileType', steps' \in Seq(Steps), Len(steps') <= LoopWindow,
         Loop!StubsReferToContent'
  PROVE  LoopInv'
<1>1. FlowType' /\ RequestType' /\ ClosingInv' /\ LateInv'
  BY DEF LoopInv, LoopType, FlowType, RequestType, ClosingInv, LateInv
<1>2. BatchType' /\ TrackType'
  BY DEF LoopInv, LoopType, BatchType, TrackType
<1>3. WholeInv'
  <2>1. Loop!EditCalls(batch) \subseteq DOMAIN batch /\ batch' = batch
    BY BatchFacts DEF LoopInv, LoopType
  <2>2. Loop!EditCalls(batch') = Loop!EditCalls(batch)
    BY <2>1
  <2> QED BY <2>1, <2>2 DEF LoopInv, WholeInv
<1>4. DeadlineOnlyWithoutEdits'
  BY DEF LoopInv, ClosingInv, DeadlineOnlyWithoutEdits
<1>5. IdleInv'
  BY DEF LoopInv, IdleInv, Accounted
<1> QED BY <1>1, <1>2, <1>3, <1>4, <1>5 DEF LoopInv, LoopType

\* A step of a call that only reports.
LEMMA ReportKeeps ==
  ASSUME Loop!ToolLoopAssumption, LoopInv, pc = "execute",
         NEW k \in DOMAIN batch, NEW kind \in Loop!Pending \cup Loop!Reported,
         parts[k].kind \in Loop!Pending, Loop!Becomes(k, kind),
         UNCHANGED <<split, deadline, pc, cancelled, batch, outcome, seen, known, evicted, streak,
                     content, writes, changes, aimed, edited, idleIters, enforcer, grace, steps,
                     idle, closing, iter, attempt, over, late, repeat, before>>
  PROVE  LoopInv'
<1> USE DEF LoopInv, LoopType
<1>1. /\ Len(batch) \in Nat /\ DOMAIN batch = 1..Len(batch) /\ DOMAIN parts = 1..Len(batch)
      /\ \A j \in DOMAIN batch : parts[j] \in Parts
  BY BatchFacts
<1>2. parts' = [parts EXCEPT ![k] = Loop!Plain(kind)]
  BY DEF Loop!Becomes
<1>3. parts' \in Seq(Parts) /\ Len(parts') = Len(batch)
  <2>1. Loop!Plain(kind) \in Parts
    BY PlainIsPart
  <2>2. parts \in Seq(Parts) /\ Len(parts) = Len(batch)
    BY DEF BatchType
  <2> QED BY <1>1, <1>2, <2>1, <2>2
<1>4. \A j \in DOMAIN batch : parts[j].kind = "whole" => parts'[j].kind = "whole"
  BY <1>1, <1>2 DEF Loop!Pending
<1>5. FileType' /\ steps' \in Seq(Steps) /\ Len(steps') <= LoopWindow /\ Loop!StubsReferToContent'
  BY DEF FileType, TrackType, Loop!StubsReferToContent
<1>6. Len(parts') = Len(parts)
  BY <1>3 DEF BatchType
<1> QED BY <1>3, <1>4, <1>5, <1>6, CallKeeps

LEMMA ServeKeeps ==
  ASSUME Loop!ToolLoopAssumption, LoopInv, NEW k, Loop!ServeFile(k)
  PROVE  LoopInv'
<1> USE DEF LoopInv, LoopType
<1> DEFINE f == batch[k][2]
<1>1. pc = "execute" /\ k \in DOMAIN batch /\ parts[k].kind \in {"read", "readOld"}
  BY DEF Loop!ServeFile, Loop!Runs
<1>2. /\ Len(batch) \in Nat /\ DOMAIN batch = 1..Len(batch) /\ DOMAIN parts = 1..Len(batch)
      /\ \A j \in DOMAIN batch : batch[j][2] \in Files /\ parts[j] \in Parts
  BY <1>1, BatchFacts
<1>3. f \in Files
  BY <1>1, <1>2
<1>4. PICK p \in Parts : parts' = [parts EXCEPT ![k] = p]
  <2>1. streak \in Nat
    BY DEF FileType
  <2>2. /\ \A n \in Nat : [kind |-> "disabled", n |-> n] \in Parts
        /\ {Loop!Plain("stub"), Loop!Plain("content"), Loop!Plain("part of file")} \subseteq Parts
    BY DEF Parts, Loop!Plain, Loop!Reported
  <2>3. streak' = streak + 1 => streak' \in Nat
    BY <2>1
  <2> QED BY <2>2, <2>3 DEF Loop!ServeFile, Loop!Becomes
<1>5. parts' \in Seq(Parts) /\ Len(parts') = Len(parts)
  <2>1. parts \in Seq(Parts) /\ Len(parts) = Len(batch)
    BY DEF BatchType
  <2> QED BY <1>1, <1>2, <1>4, <2>1
<1>6. \A j \in DOMAIN batch : parts[j].kind = "whole" => parts'[j].kind = "whole"
  BY <1>1, <1>2, <1>4
<1>7. FileType'
  <2>1. seen' = [seen EXCEPT ![f] = "fresh"] /\ UNCHANGED <<writes, changes>>
    BY DEF Loop!ServeFile
  <2>2. streak' \in Nat
    <3>1. streak' \in {streak, streak + 1, 0}
      BY DEF Loop!ServeFile
    <3>2. streak \in Nat
      BY DEF FileType
    <3> QED BY <3>1, <3>2
  <2>3. known' = known \/ \E s \in {"changed", "current"} : known' = [known EXCEPT ![f] = s]
    BY DEF Loop!ServeFile
  <2>4. evicted' = evicted \/ evicted' = [evicted EXCEPT ![f] = FALSE]
    BY DEF Loop!ServeFile
  <2>5. content' = content
        \/ content' = [content EXCEPT ![f] = [state |-> "full", at |-> iter, kept |-> FALSE]]
    BY DEF Loop!ServeFile
  <2>6. iter \in 0..MaxIter
    BY DEF FlowType
  <2>7. [state |-> "full", at |-> iter, kept |-> FALSE] \in
          [state : {"none", "full", "rolled", "gone"}, at : 0..MaxIter, kept : BOOLEAN]
    BY <2>6
  <2>8. evicted' \in [Files -> BOOLEAN]
    BY <2>4 DEF FileType
  <2>9. seen' \in [Files -> {"never", "fresh", "stale"}]
        /\ known' \in [Files -> {"absent", "current", "changed"}]
    BY <2>1, <2>3 DEF FileType
  <2>10. content' \in [Files -> [state : {"none", "full", "rolled", "gone"},
                                 at : 0..MaxIter, kept : BOOLEAN]]
    <3> DEFINE Content == [state : {"none", "full", "rolled", "gone"}, at : 0..MaxIter, kept : BOOLEAN]
               new     == [state |-> "full", at |-> iter, kept |-> FALSE]
    <3>1. content \in [Files -> Content] /\ new \in Content
      BY <2>7 DEF FileType
    <3>2. content' = content \/ content' = [content EXCEPT ![f] = new]
      BY <2>5
    <3> HIDE DEF Content, new
    <3>3. content' \in [Files -> Content]
      BY <3>1, <3>2
    <3> QED BY <3>3 DEF Content
  <2> QED BY <2>1, <2>2, <2>8, <2>9, <2>10 DEF FileType
<1>8. Loop!StubsReferToContent'
  <2>1. CASE UNCHANGED <<known, evicted, content>>
    BY <2>1 DEF Loop!StubsReferToContent
  <2>2. ASSUME content' = [content EXCEPT ![f] = [state |-> "full", at |-> iter, kept |-> FALSE]],
               NEW s, known' = [known EXCEPT ![f] = s], evicted' = [evicted EXCEPT ![f] = FALSE]
        PROVE  Loop!StubsReferToContent'
    <3>1. \A g \in Files \ {f} : /\ known'[g] = known[g] /\ evicted'[g] = evicted[g]
                                 /\ content'[g] = content[g]
      <4>1. DOMAIN known = Files /\ DOMAIN evicted = Files /\ DOMAIN content = Files
        BY DEF FileType
      <4> QED BY <2>2, <4>1
    <3>2. content'[f].state = "full"
      <4>1. DOMAIN content = Files
        BY DEF FileType
      <4> QED BY <1>3, <2>2, <4>1
    <3> QED BY <3>1, <3>2 DEF Loop!StubsReferToContent
  <2> QED BY <2>1, <2>2 DEF Loop!ServeFile
<1> HIDE DEF LoopInv, LoopType
<1>9. UNCHANGED <<split, deadline, pc, closing, iter, attempt, cancelled, over, late, batch,
                   outcome, repeat, before, aimed, edited, idleIters, enforcer, grace, idle, steps, writes>>
  BY DEF Loop!ServeFile
<1>10. steps' \in Seq(Steps) /\ Len(steps') <= LoopWindow
  BY <1>9 DEF LoopInv, LoopType, TrackType
<1> QED BY <1>1, <1>5, <1>6, <1>7, <1>8, <1>9, <1>10, CallKeeps

\* A change of f on disk: nobody's entry of f becomes current by it.
LEMMA DirtyKeeps ==
  ASSUME Loop!ToolLoopAssumption, LoopInv, NEW f \in Files, Loop!Dirty(f)
  PROVE  /\ seen' \in [Files -> {"never", "fresh", "stale"}]
         /\ known' \in [Files -> {"absent", "current", "changed"}]
         /\ steps' \in Seq(Steps) /\ Len(steps') <= LoopWindow
         /\ evicted' = evicted /\ content' = content => Loop!StubsReferToContent'
<1>1. /\ seen \in [Files -> {"never", "fresh", "stale"}]
      /\ known \in [Files -> {"absent", "current", "changed"}]
      /\ steps \in Seq(Steps) /\ Len(steps) <= LoopWindow
  BY DEF LoopInv, LoopType, FileType, TrackType
<1>2. /\ seen' = [seen EXCEPT ![f] = IF seen[f] = "fresh" THEN "stale" ELSE seen[f]]
      /\ known' = [known EXCEPT ![f] = IF known[f] = "current" THEN "changed" ELSE known[f]]
      /\ steps' = Loop!Forget(f)
  BY DEF Loop!Dirty
<1>3. /\ seen' \in [Files -> {"never", "fresh", "stale"}]
      /\ known' \in [Files -> {"absent", "current", "changed"}]
  BY <1>1, <1>2
<1>4. steps' \in Seq(Steps) /\ Len(steps') = Len(steps)
  <2> DEFINE Showed(s) == \E k \in DOMAIN steps[s] :
                            /\ steps[s][k][1][2] = f
                            /\ steps[s][k][2].kind \in {"content", "part of file"}
  <2>0. steps' = [s \in DOMAIN steps |-> IF Showed(s) THEN Loop!NoBatch ELSE steps[s]]
    BY <1>2 DEF Loop!Forget
  <2> HIDE DEF Showed
  <2>1. \A s \in DOMAIN steps : steps'[s] \in {Loop!NoBatch, steps[s]}
    BY <2>0
  <2>2. Loop!NoBatch \in Steps /\ \A s \in DOMAIN steps : steps[s] \in Steps
    BY <1>1 DEF Steps, Loop!NoBatch
  <2>3. DOMAIN steps' = 1..Len(steps) /\ Len(steps) \in Nat /\ steps' = [s \in DOMAIN steps |-> steps'[s]]
    BY <1>1, <2>0
  <2>4. steps' \in [1..Len(steps) -> Steps]
    BY <1>1, <2>1, <2>2, <2>3
  <2> QED BY <2>3, <2>4
<1>5. ASSUME evicted' = evicted, content' = content PROVE Loop!StubsReferToContent'
  <2>1. \A g \in Files : known'[g] = "current" => known[g] = "current"
    BY <1>1, <1>2
  <2> QED BY <1>5, <2>1 DEF LoopInv, Loop!StubsReferToContent
<1> QED BY <1>1, <1>3, <1>4, <1>5

LEMMA WritesKeeps ==
  ASSUME Loop!ToolLoopAssumption, LoopInv, pc = "execute",
         NEW k \in DOMAIN batch, NEW kind \in {"whole", "partial"}, batch[k][1] \in Loop!EditTools,
         parts[k].kind \in Loop!Pending, Loop!Writes(k, kind)
  PROVE  LoopInv'
<1>1. /\ Len(batch) \in Nat /\ DOMAIN batch = 1..Len(batch) /\ DOMAIN parts = 1..Len(batch)
      /\ \A j \in DOMAIN batch : parts[j] \in Parts /\ batch[j][2] \in Files
  BY BatchFacts DEF LoopInv, LoopType
<1>2. parts' = [parts EXCEPT ![k] = Loop!Plain(kind)] /\ Loop!Dirty(batch[k][2])
  BY DEF Loop!Writes, Loop!Becomes
<1>3. parts' \in Seq(Parts) /\ Len(parts') = Len(parts)
  <2>1. Loop!Plain(kind) \in Parts
    BY PlainIsPart DEF Loop!Reported
  <2>2. parts \in Seq(Parts)
    BY DEF LoopInv, LoopType, BatchType
  <2> QED BY <1>1, <1>2, <2>1, <2>2
<1>4. \A j \in DOMAIN batch : parts[j].kind = "whole" => parts'[j].kind = "whole"
  BY <1>1, <1>2 DEF Loop!Pending
<1>5. "whole" \in writes' =>
        "whole" \in writes \/ \E j \in Loop!EditCalls(batch) : parts'[j].kind = "whole"
  <2>1. k \in Loop!EditCalls(batch)
    BY DEF Loop!EditCalls
  <2>2. parts'[k].kind = kind
    BY <1>1, <1>2 DEF Loop!Plain
  <2>3. "whole" \in writes' => "whole" \in writes \/ kind = "whole"
    BY DEF Loop!Writes
  <2> QED BY <2>1, <2>2, <2>3
<1>6. UNCHANGED <<split, deadline, pc, closing, iter, attempt, cancelled, over, late, batch,
                  outcome, repeat, before, aimed, edited, idleIters, enforcer, grace, idle,
                  evicted, content, streak, changes>>
  BY DEF Loop!Writes
<1>7. FileType'
  <2>1. writes' \subseteq {"whole", "partial", "unseen"}
    BY DEF Loop!Writes, LoopInv, LoopType, FileType
  <2> QED BY <1>1, <1>2, <1>6, <2>1, DirtyKeeps DEF LoopInv, LoopType, FileType
<1>8. steps' \in Seq(Steps) /\ Len(steps') <= LoopWindow /\ Loop!StubsReferToContent'
  BY <1>1, <1>2, <1>6, DirtyKeeps
<1> QED BY <1>3, <1>4, <1>5, <1>6, <1>7, <1>8, CallKeeps

LEMMA ChangeKeeps ==
  ASSUME Loop!ToolLoopAssumption, LoopInv, NEW f \in Files, Loop!ExternalChange(f)
  PROVE  LoopInv'
<1>1. pc = "execute" /\ changes < MaxChanges /\ changes' = changes + 1 /\ Loop!Dirty(f)
  BY DEF Loop!ExternalChange
<1>2. /\ Len(batch) \in Nat /\ DOMAIN batch = 1..Len(batch) /\ DOMAIN parts = 1..Len(batch)
      /\ \A j \in DOMAIN batch : parts[j] \in Parts
  BY <1>1, BatchFacts DEF LoopInv, LoopType
<1>3. parts' = [j \in 1..Len(batch) |-> parts'[j]]
      /\ \A j \in 1..Len(batch) : parts'[j] = Loop!Overtaken(j, f)
  BY <1>2 DEF Loop!ExternalChange
<1>4. \A j \in 1..Len(batch) : /\ parts'[j] \in Parts
                               /\ parts[j].kind = "whole" => parts'[j].kind = "whole"
  <2> SUFFICES ASSUME NEW j \in 1..Len(batch)
               PROVE  parts'[j] \in Parts /\ (parts[j].kind = "whole" => parts'[j].kind = "whole")
    OBVIOUS
  <2>1. \/ parts'[j] = parts[j]
        \/ parts[j].kind = "read" /\ parts'[j] = Loop!Plain("readOld")
        \/ parts[j].kind = "held" /\ parts'[j] = Loop!Plain("heldOld")
    BY <1>3 DEF Loop!Overtaken
  <2>2. {Loop!Plain("readOld"), Loop!Plain("heldOld")} \subseteq Parts
    BY PlainIsPart DEF Loop!Pending
  <2> QED BY <1>2, <2>1, <2>2
<1>5. parts' \in Seq(Parts) /\ Len(parts') = Len(batch)
  <2>1. parts' \in [1..Len(batch) -> Parts]
    BY <1>3, <1>4
  <2> QED BY <1>2, <2>1
<1>6. UNCHANGED <<split, deadline, pc, closing, iter, attempt, cancelled, over, late, batch,
                  outcome, repeat, before, aimed, edited, idleIters, enforcer, grace, idle,
                  evicted, content, streak, writes>>
  BY DEF Loop!ExternalChange
<1>7. FileType'
  <2>1. changes' \in 0..MaxChanges
    <3>1. changes \in 0..MaxChanges /\ MaxChanges \in Nat
      BY LoopConstants DEF LoopInv, LoopType, FileType
    <3> QED BY <1>1, <3>1
  <2> QED BY <1>1, <1>6, <2>1, DirtyKeeps DEF LoopInv, LoopType, FileType
<1>8. steps' \in Seq(Steps) /\ Len(steps') <= LoopWindow /\ Loop!StubsReferToContent'
  BY <1>1, <1>6, DirtyKeeps
<1>9. Len(parts') = Len(parts)
  BY <1>5 DEF LoopInv, LoopType, BatchType
<1> QED BY <1>1, <1>2, <1>4, <1>5, <1>6, <1>7, <1>8, <1>9, CallKeeps

\* Every step of a call.
LEMMA CallsKeep ==
  ASSUME Loop!ToolLoopAssumption, LoopInv, NEW k,
         \/ Loop!ReadFile(k) \/ Loop!ServeFile(k) \/ Loop!Refuse(k) \/ Loop!Search(k)
         \/ Loop!RunBash(k) \/ Loop!OpenForEdit(k) \/ Loop!ApplyEdit(k) \/ Loop!WriteFile(k)
  PROVE  LoopInv'
<1> DEFINE Quiet == UNCHANGED <<split, deadline, pc, cancelled, batch, outcome, seen, known, evicted,
                     streak, content, writes, changes, aimed, edited, idleIters, enforcer, grace,
                     steps, idle, closing, iter, attempt, over, late, repeat, before>>
<1>1. CASE Loop!ServeFile(k)
  BY <1>1, ServeKeeps
<1>2. ASSUME NEW kind \in {"read", "blocked", "error", "ran", "held", "guarded"},
             pc = "execute", k \in DOMAIN batch, parts[k].kind \in {"todo", "held", "heldOld"},
             Loop!Becomes(k, kind), Quiet
      PROVE  LoopInv'
  <2>1. kind \in Loop!Pending \cup Loop!Reported /\ parts[k].kind \in Loop!Pending
    BY <1>2 DEF Loop!Pending, Loop!Reported
  <2> QED BY <1>2, <2>1, ReportKeeps
<1>3. ASSUME NEW kind \in {"whole", "partial"}, pc = "execute", k \in DOMAIN batch,
             batch[k][1] \in Loop!EditTools, parts[k].kind \in {"todo", "held", "heldOld"},
             Loop!Writes(k, kind)
      PROVE  LoopInv'
  <2>1. parts[k].kind \in Loop!Pending
    BY <1>3 DEF Loop!Pending
  <2> QED BY <1>3, <2>1, WritesKeeps
<1>4. CASE Loop!ReadFile(k) \/ Loop!Refuse(k) \/ Loop!Search(k) \/ Loop!RunBash(k) \/ Loop!OpenForEdit(k)
  BY <1>2, <1>4 DEF Loop!ReadFile, Loop!Refuse, Loop!Search, Loop!RunBash, Loop!OpenForEdit, Loop!Runs
<1>5. CASE Loop!ApplyEdit(k)
  <2>1. /\ pc = "execute" /\ k \in DOMAIN batch /\ batch[k][1] \in {"Edit", "MultiEdit"}
        /\ parts[k].kind \in {"held", "heldOld"}
    BY <1>5 DEF Loop!ApplyEdit, Loop!Runs
  <2>2. batch[k][1] \in Loop!EditTools
    BY <2>1 DEF Loop!EditTools
  <2> QED BY <1>2, <1>3, <1>5, <2>1, <2>2 DEF Loop!ApplyEdit
<1>6. CASE Loop!WriteFile(k)
  <2>1. /\ pc = "execute" /\ k \in DOMAIN batch /\ batch[k][1] = "Write"
        /\ parts[k].kind = "todo"
    BY <1>6 DEF Loop!WriteFile, Loop!Runs
  <2>2. batch[k][1] \in Loop!EditTools
    BY <2>1 DEF Loop!EditTools
  <2> QED BY <1>2, <1>3, <1>6, <2>1, <2>2 DEF Loop!WriteFile
<1> QED BY <1>1, <1>4, <1>5, <1>6

LEMMA GraceChanged ==
  ASSUME NEW g \in [reached : BOOLEAN, remaining : Int, editFailed : BOOLEAN], NEW n \in Int
  PROVE  /\ [g EXCEPT !.remaining = n] \in [reached : BOOLEAN, remaining : Int, editFailed : BOOLEAN]
         /\ [g EXCEPT !.remaining = n].remaining = n
         /\ [g EXCEPT !.remaining = n].reached = g.reached
         /\ [g EXCEPT !.reached = TRUE, !.remaining = n]
              \in [reached : BOOLEAN, remaining : Int, editFailed : BOOLEAN]
         /\ [g EXCEPT !.reached = TRUE, !.remaining = n].remaining = n
         /\ [g EXCEPT !.reached = TRUE, !.remaining = n].reached
<1>1. DOMAIN g = {"reached", "remaining", "editFailed"}
  OBVIOUS
<1> QED BY <1>1

\* A response with tool calls: a batch that neither edits nor follows an edit is
\* counted before it runs.
LEMMA RequestKeeps ==
  ASSUME Loop!ToolLoopAssumption, LoopInv, NEW b \in Batches, Loop!Request(b)
  PROVE  LoopInv'
<1> DEFINE hit == Loop!DeadlineHit(b)
<1>c. /\ MaxIter \in Nat \ {0} /\ Attempts \in Nat \ {0} /\ GracePeriod \in Nat \ {0}
      /\ Deadlines \subseteq Nat
  BY LoopConstants
<1>t. FlowType /\ BatchType /\ FileType /\ TrackType /\ RequestType
  BY DEF LoopInv, LoopType
<1>1. /\ pc = "inflight" /\ ~closing /\ over' \in {over, TRUE}
      /\ late' = IF over THEN late + 1 ELSE late
      /\ repeat' = Loop!Updated(b)
      /\ idleIters' = IF ~Loop!Exceeded(b) /\ Loop!CountsAsIdle(b) THEN idleIters + 1 ELSE idleIters
      /\ grace' = IF ~Loop!Exceeded(b) /\ hit THEN Loop!GraceAfterHit ELSE grace
      /\ UNCHANGED <<split, deadline, cancelled, seen, known, evicted, streak, content, writes,
                     changes, edited, enforcer, steps, idle, iter>>
  BY DEF Loop!Request, Loop!Charge
<1>2. ~over /\ late = 0 /\ late' = 0 /\ over' \in BOOLEAN
  <2>1. ~over /\ late = 0
    BY <1>1 DEF LoopInv, LateInv, Calling
  <2>2. over' = over \/ over' = TRUE
    BY <1>1
  <2>3. over' \in BOOLEAN
    BY <1>t, <2>2 DEF FlowType
  <2> QED BY <1>1, <2>1, <2>3
<1>3. \/ /\ closing' = TRUE /\ pc' = "call" /\ attempt' = 0
         /\ \/ outcome' = [outcome EXCEPT !.reason = "repeat"]
            \/ outcome' = [outcome EXCEPT !.reason = "deadline"] /\ hit
         /\ UNCHANGED <<batch, parts, aimed, before>>
      \/ /\ ~Loop!Exceeded(b) /\ ~Loop!GraceOver(b)
         /\ pc' = "execute" /\ batch' = b /\ parts' = [k \in DOMAIN b |-> Loop!Todo]
         /\ aimed' = aimed \cup {b[k][2] : k \in Loop!EditCalls(b)}
         /\ before' = Loop!Cardinality(Loop!KnownFiles) /\ attempt' = 0
         /\ UNCHANGED <<closing, outcome>>
  BY DEF Loop!Request, Loop!Finish, Loop!GraceOver
<1>4. FlowType'
  <2>1. attempt' = 0 /\ 0 \in 0..(Attempts - 1)
    BY <1>c, <1>3
  <2>2. outcome' = outcome \/ outcome' = [outcome EXCEPT !.reason = "repeat"]
        \/ outcome' = [outcome EXCEPT !.reason = "deadline"]
    BY <1>3
  <2>3. outcome' \in [reason : {"none", "answered", "repeat", "deadline", "loop", "budget",
                                "iterations", "error"},
                      answer : {"none", "answer", "partial", "nothing", "budget", "failed"}]
    BY <1>t, <2>2 DEF FlowType
  <2>4. closing' \in BOOLEAN /\ pc' \in Calling \cup {"execute", "done"}
    BY <1>t, <1>3 DEF FlowType, Calling
  <2> QED BY <1>t, <1>1, <1>2, <2>1, <2>3, <2>4 DEF FlowType
<1>b. /\ b \in Seq(Loop!Calls) /\ Len(b) \in Nat /\ DOMAIN b = 1..Len(b)
      /\ \A k \in DOMAIN b : b[k][2] \in Files
  BY LoopConstants
<1>5. BatchType'
  <2>1. CASE pc' = "call"
    BY <1>t, <1>3, <2>1 DEF BatchType
  <2>2. CASE pc' = "execute"
    <3>1. batch' = b /\ parts' = [k \in 1..Len(b) |-> Loop!Todo]
      BY <1>3, <1>b, <2>2
    <3>2. Loop!Todo \in Parts
      BY DEF Loop!Todo, Parts, Loop!Pending
    <3>3. parts' \in [1..Len(b) -> Parts]
      BY <3>1, <3>2
    <3>4. parts' \in Seq(Parts) /\ Len(parts') = Len(b)
      BY <1>b, <3>3
    <3> QED BY <3>1, <3>4 DEF BatchType
  <2> QED BY <1>3, <2>1, <2>2
<1>6. FileType' /\ Loop!StubsReferToContent'
  BY <1>t, <1>1 DEF FileType, LoopInv, Loop!StubsReferToContent
<1>g. /\ grace' \in [reached : BOOLEAN, remaining : Int, editFailed : BOOLEAN]
      /\ idleIters' \in Nat
      /\ hit /\ grace' # grace =>
           /\ grace'.reached
           /\ grace'.remaining = IF grace.reached THEN grace.remaining - 1 ELSE GracePeriod
  <2>1. grace \in [reached : BOOLEAN, remaining : Int, editFailed : BOOLEAN] /\ idleIters \in Nat
    BY <1>t DEF TrackType
  <2>2. idleIters' \in Nat
    BY <1>1, <2>1
  <2>3. grace' = grace \/ grace' = Loop!GraceAfterHit
    BY <1>1
  <2>4. /\ Loop!GraceAfterHit \in [reached : BOOLEAN, remaining : Int, editFailed : BOOLEAN]
        /\ Loop!GraceAfterHit.reached
        /\ Loop!GraceAfterHit.remaining = IF grace.reached THEN grace.remaining - 1 ELSE GracePeriod
    <3>1. CASE grace.reached
      <4>1. Loop!GraceAfterHit = [grace EXCEPT !.remaining = grace.remaining - 1]
        BY <3>1 DEF Loop!GraceAfterHit
      <4>2. grace.remaining - 1 \in Int
        BY <2>1
      <4> QED BY <2>1, <3>1, <4>1, <4>2, GraceChanged
    <3>2. CASE ~grace.reached
      <4>1. Loop!GraceAfterHit = [grace EXCEPT !.reached = TRUE, !.remaining = GracePeriod]
        BY <3>2 DEF Loop!GraceAfterHit
      <4>2. GracePeriod \in Int
        BY <1>c
      <4> QED BY <2>1, <3>2, <4>1, <4>2, GraceChanged
    <3> QED BY <3>1, <3>2
  <2> QED BY <2>1, <2>2, <2>3, <2>4
<1>7. TrackType'
  <2>1. aimed' \subseteq Files
    <3>1. Loop!EditCalls(b) \subseteq DOMAIN b
      BY DEF Loop!EditCalls
    <3>2. {b[k][2] : k \in Loop!EditCalls(b)} \subseteq Files
      BY <1>b, <3>1
    <3>3. aimed \subseteq Files /\ (aimed' = aimed \/ aimed' = aimed \cup {b[k][2] : k \in Loop!EditCalls(b)})
      BY <1>t, <1>3 DEF TrackType
    <3> QED BY <3>2, <3>3
  <2> QED BY <1>t, <1>1, <1>g, <2>1 DEF TrackType
<1>8. RequestType'
  <2>1. before' \in Nat
    BY <1>t, <1>3, KnownFilesCounted DEF RequestType
  <2>2. Loop!Updated(b) \in [sig : Batches \cup {<<>>}, count : Nat]
    <3>1. repeat \in [sig : Batches \cup {<<>>}, count : Nat]
      BY <1>t DEF RequestType
    <3>2. [repeat EXCEPT !.count = repeat.count + 1] \in [sig : Batches \cup {<<>>}, count : Nat]
      BY <3>1
    <3>3. [sig |-> IF Len(b) = 1 THEN b ELSE <<>>, count |-> 1] \in [sig : Batches \cup {<<>>}, count : Nat]
      OBVIOUS
    <3> QED BY <3>2, <3>3 DEF Loop!Updated, Loop!NoBatch
  <2> QED BY <1>1, <2>1, <2>2 DEF RequestType
<1>9. ClosingInv' /\ LateInv'
  <2>1. outcome.reason # "deadline"
    BY <1>1 DEF LoopInv, ClosingInv
  <2>2. outcome'.reason = "deadline" => closing'
    BY <1>t, <1>3, <2>1 DEF FlowType
  <2>3. late' <= 1
    BY <1>2
  <2> QED BY <1>1, <1>2, <1>3, <2>2, <2>3 DEF ClosingInv, LateInv, Calling
<1>10. WholeInv'
  BY <1>1 DEF LoopInv, WholeInv
<1>11. DeadlineOnlyWithoutEdits'
  <2>1. outcome'.reason = "deadline" => hit
    BY <1>t, <1>1, <1>3 DEF FlowType, LoopInv, ClosingInv
  <2>2. hit => ~edited
    BY DEF Loop!DeadlineHit, Loop!CountsAsIdle
  <2> QED BY <1>1, <2>1, <2>2 DEF LoopInv, WholeInv, DeadlineOnlyWithoutEdits
<1>12. IdleInv'
  <2> SUFFICES ASSUME deadline > 0, ~edited PROVE IdleInv'
    BY <1>1 DEF IdleInv
  <2>1. /\ deadline \in Nat /\ idle \in Nat /\ idleIters \in Nat
        /\ grace \in [reached : BOOLEAN, remaining : Int, editFailed : BOOLEAN]
    BY <1>c, <1>t DEF FlowType, TrackType
  <2>2. Accounted(idle) /\ idle <= deadline + GracePeriod - 1
    BY <1>1 DEF LoopInv, IdleInv, Calling
  <2>3. CASE closing'
    BY <1>1, <1>3, <2>2, <2>3 DEF IdleInv
  <2>4. CASE pc' = "execute" /\ Loop!EditCalls(b) # {}
    <3>1. idleIters' = idleIters /\ grace' = grace /\ batch' = b /\ pc' = "execute"
      BY <1>1, <1>3, <2>4 DEF Loop!CountsAsIdle, Loop!DeadlineHit
    <3>2. Accounted(idle)'
      BY <1>1, <2>2, <3>1 DEF Accounted
    <3> QED BY <1>1, <2>2, <2>4, <3>1, <3>2 DEF IdleInv, Calling, Accounted
  <2>5. CASE pc' = "execute" /\ Loop!EditCalls(b) = {}
    <3>1. ~Loop!Exceeded(b) /\ ~Loop!GraceOver(b) /\ batch' = b /\ Loop!CountsAsIdle(b)
      BY <1>1, <1>3, <2>5 DEF Loop!CountsAsIdle
    <3>2. idleIters' = idleIters + 1
      BY <1>1, <3>1
    <3>3. CASE ~hit
      <4>1. grace' = grace /\ idleIters + 1 < deadline
        BY <1>1, <2>1, <3>1, <3>3 DEF Loop!DeadlineHit
      <4>2. idle + 1 <= idleIters' /\ idle + 1 <= deadline - 1
        BY <2>1, <2>2, <3>2, <4>1 DEF Accounted
      <4>3. Accounted(idle + 1)'
        BY <1>1, <2>2, <4>1, <4>2 DEF Accounted
      <4> QED BY <1>1, <2>2, <2>5, <3>1, <4>3 DEF IdleInv, Calling, Accounted
    <3>4. CASE hit /\ ~grace.reached
      <4>1. grace'.reached /\ grace'.remaining = GracePeriod
        BY <1>1, <1>c, <2>1, <3>1, <3>4 DEF Loop!GraceAfterHit
      <4>2. idle + 1 <= idleIters' /\ idle + 1 <= deadline
        BY <2>1, <2>2, <3>2, <3>4 DEF Accounted
      <4>3. Accounted(idle + 1)'
        BY <1>c, <1>1, <2>1, <4>1, <4>2 DEF Accounted
      <4> QED BY <1>1, <2>2, <2>5, <3>1, <4>3 DEF IdleInv, Calling, Accounted
    <3>5. CASE hit /\ grace.reached
      <4>1. Loop!GraceAfterHit = [grace EXCEPT !.remaining = grace.remaining - 1]
        BY <3>5 DEF Loop!GraceAfterHit
      <4>2. Loop!GraceAfterHit.remaining = grace.remaining - 1 /\ Loop!GraceAfterHit.reached
        BY <2>1, <3>5, <4>1
      <4>3. grace' = Loop!GraceAfterHit /\ grace.remaining - 1 > 0
        BY <1>1, <2>1, <3>1, <3>5, <4>2 DEF Loop!GraceOver
      <4>4. grace'.reached /\ grace'.remaining = grace.remaining - 1
        BY <4>2, <4>3
      <4>5. idle <= idleIters /\ 1 <= grace.remaining /\ grace.remaining <= GracePeriod
            /\ (idle <= deadline - 1 \/ idle <= deadline + GracePeriod - grace.remaining)
        BY <2>2, <3>5 DEF Accounted
      <4>6. /\ idle + 1 <= idleIters' /\ 1 <= grace'.remaining /\ grace'.remaining <= GracePeriod
            /\ idle + 1 <= deadline + GracePeriod - grace'.remaining
        <5> DEFINE n == grace.remaining
        <5>1. n \in Int /\ grace'.remaining = n - 1 /\ n - 1 > 0
          BY <2>1, <4>3, <4>4
        <5> HIDE DEF n
        <5> QED BY <1>c, <2>1, <3>2, <4>5, <5>1 DEF n
      <4>7. Accounted(idle + 1)'
        BY <1>1, <4>4, <4>6 DEF Accounted
      <4> QED BY <1>1, <2>2, <2>5, <3>1, <4>7 DEF IdleInv, Calling, Accounted
    <3> QED BY <3>3, <3>4, <3>5
  <2> QED BY <1>1, <1>3, <2>3, <2>4, <2>5
<1> QED BY <1>4, <1>5, <1>6, <1>7, <1>8, <1>9, <1>10, <1>11, <1>12 DEF LoopInv, LoopType

LEMMA StepsAfterType ==
  ASSUME Loop!ToolLoopAssumption, LoopInv, pc = "execute"
  PROVE  Loop!StepsAfter \in Seq(Steps) /\ Len(Loop!StepsAfter) <= LoopWindow
<1>c. LoopWindow \in Nat \ {0}
  BY LoopConstants
<1>1. /\ steps \in Seq(Steps) /\ Len(steps) <= LoopWindow /\ Len(steps) \in Nat
      /\ batch \in Batches
  BY BatchFacts DEF LoopInv, LoopType, TrackType
<1>2. Loop!Signature \in Steps
  <2>1. batch \in Seq(Loop!Calls) /\ \A k \in DOMAIN batch : batch[k] \in Loop!Calls
    BY <1>1, LoopConstants
  <2>2. \A k \in DOMAIN batch : parts[k] \in Parts
    BY BatchFacts DEF LoopInv, LoopType
  <2>3. Loop!Todo \in Parts
    BY DEF Loop!Todo, Parts, Loop!Pending
  <2>4. Loop!Signature \in [DOMAIN batch -> Loop!Calls \X Parts]
    BY <2>1, <2>2, <2>3 DEF Loop!Signature
  <2> QED BY <1>1, <2>4 DEF Steps
<1> DEFINE s == Append(steps, Loop!Signature)
<1>3. s \in Seq(Steps) /\ Len(s) = Len(steps) + 1
  BY <1>1, <1>2
<1>4. Loop!StepsAfter = IF Len(s) > LoopWindow THEN Tail(s) ELSE s
  BY DEF Loop!StepsAfter
<1> HIDE DEF s
<1>5. CASE Len(s) > LoopWindow
  <2>1. s # <<>>
    BY <1>1, <1>3
  <2>2. Tail(s) \in Seq(Steps) /\ Len(Tail(s)) = Len(s) - 1
    BY <1>3, <2>1
  <2> QED BY <1>c, <1>1, <1>3, <1>4, <1>5, <2>2
<1>6. CASE ~(Len(s) > LoopWindow)
  BY <1>c, <1>1, <1>3, <1>4, <1>6
<1> QED BY <1>5, <1>6

\* The compactions keep what a stub may refer to, or mark it as gone.
LEMMA CompactionsKeep ==
  ASSUME LoopInv, known' = known, Loop!Compactions(Loop!Pinned)
  PROVE  /\ Loop!StubsReferToContent'
         /\ content' \in [Files -> [state : {"none", "full", "rolled", "gone"},
                                    at : 0..MaxIter, kept : BOOLEAN]]
         /\ evicted' \in [Files -> BOOLEAN]
<1> DEFINE C == [state : {"none", "full", "rolled", "gone"}, at : 0..MaxIter, kept : BOOLEAN]
<1>1. /\ content \in [Files -> C] /\ evicted \in [Files -> BOOLEAN]
      /\ known \in [Files -> {"absent", "current", "changed"}]
  BY DEF LoopInv, LoopType, FileType
<1>2. ASSUME NEW c \in C
      PROVE  /\ [c EXCEPT !.kept = TRUE] \in C /\ [c EXCEPT !.kept = TRUE].state = c.state
             /\ [c EXCEPT !.state = "rolled"] \in C /\ [c EXCEPT !.state = "rolled"].state = "rolled"
             /\ [c EXCEPT !.state = "gone"] \in C
  OBVIOUS
<1> DEFINE p == Loop!Pinned
<1>3. p \in [Files -> C] /\ \A f \in Files : p[f].state = content[f].state
  <2>1. p = [f \in Files |-> p[f]]
    BY DEF Loop!Pinned
  <2>2. \A f \in Files : p[f] = content[f] \/ p[f] = [content[f] EXCEPT !.kept = TRUE]
    BY DEF Loop!Pinned
  <2> HIDE DEF p, C
  <2>3. ASSUME NEW f \in Files PROVE p[f] \in C /\ p[f].state = content[f].state
    <3>1. content[f] \in C
      BY <1>1
    <3>2. /\ [content[f] EXCEPT !.kept = TRUE] \in C
          /\ [content[f] EXCEPT !.kept = TRUE].state = content[f].state
      BY <1>2, <3>1
    <3> QED BY <2>2, <3>1, <3>2
  <2> QED BY <2>1, <2>3
<1> HIDE DEF p
<1>4. PICK rolls \in BOOLEAN, compacts \in BOOLEAN :
        LET r == IF rolls /\ iter # 0 /\ iter % RollInterval = 0 THEN Loop!Rolled(p) ELSE p
        IN IF compacts
             THEN content' = Loop!Compacted(r) /\ evicted' = [f \in Files |-> known[f] # "absent"]
             ELSE content' = r /\ UNCHANGED evicted
  BY DEF Loop!Compactions, p
<1> DEFINE r == IF rolls /\ iter # 0 /\ iter % RollInterval = 0 THEN Loop!Rolled(p) ELSE p
<1>5. /\ r \in [Files -> C]
      /\ \A f \in Files : p[f].state \in {"full", "rolled"} => r[f].state \in {"full", "rolled"}
  <2>1. CASE r = p
    BY <1>3, <2>1
  <2>2. CASE r = Loop!Rolled(p)
    <3>1. r = [f \in Files |-> r[f]]
      BY <2>2 DEF Loop!Rolled
    <3>2. \A f \in Files : r[f] = p[f] \/ r[f] = [p[f] EXCEPT !.state = "rolled"]
      BY <2>2 DEF Loop!Rolled
    <3> HIDE DEF r, C
    <3>3. ASSUME NEW f \in Files
          PROVE  r[f] \in C /\ (p[f].state \in {"full", "rolled"} => r[f].state \in {"full", "rolled"})
      <4>1. p[f] \in C
        BY <1>3
      <4>2. [p[f] EXCEPT !.state = "rolled"] \in C /\ [p[f] EXCEPT !.state = "rolled"].state = "rolled"
        BY <1>2, <4>1
      <4> QED BY <3>2, <4>1, <4>2
    <3> QED BY <3>1, <3>3
  <2> QED BY <2>1, <2>2
<1>6. \/ content' = Loop!Compacted(r) /\ evicted' = [f \in Files |-> known[f] # "absent"]
      \/ content' = r /\ UNCHANGED evicted
  BY <1>4
<1> HIDE DEF r
<1>7. CASE content' = r /\ UNCHANGED evicted
  BY <1>3, <1>5, <1>1, <1>7 DEF LoopInv, Loop!StubsReferToContent
<1>8. CASE content' = Loop!Compacted(r) /\ evicted' = [f \in Files |-> known[f] # "absent"]
  <2>1. Loop!StubsReferToContent'
    BY <1>8 DEF Loop!StubsReferToContent
  <2>2. content' = [f \in Files |-> content'[f]]
    BY <1>8 DEF Loop!Compacted
  <2>3. \A f \in Files : content'[f] = r[f] \/ content'[f] = [r[f] EXCEPT !.state = "gone"]
    BY <1>8 DEF Loop!Compacted
  <2>4. \A f \in Files : content'[f] \in C
    <3> HIDE DEF C
    <3> QED BY <1>2, <1>5, <2>3
  <2> QED BY <1>8, <2>1, <2>2, <2>4
<1> QED BY <1>6, <1>7, <1>8

LEMMA AfterKeeps ==
  ASSUME Loop!ToolLoopAssumption, LoopInv, Loop!After
  PROVE  LoopInv'
<1>c. /\ MaxIter \in Nat \ {0} /\ Attempts \in Nat \ {0} /\ GracePeriod \in Nat \ {0}
      /\ Deadlines \subseteq Nat
  BY LoopConstants
<1>t. FlowType /\ BatchType /\ FileType /\ TrackType /\ RequestType
  BY DEF LoopInv, LoopType
<1>1. /\ pc = "execute" /\ \A k \in DOMAIN parts : parts[k].kind \in Loop!Reported
      /\ edited' = Loop!Edited /\ grace' = Loop!GraceAfter
      /\ streak' = IF Loop!StreakReset THEN 0 ELSE streak
      /\ idleIters' = IF Loop!NewFiles /\ ~Loop!Edited THEN 0 ELSE idleIters
      /\ steps' = Loop!StepsAfter
      /\ idle' = IF Loop!NewFiles \/ Loop!EditCalls(batch) # {} THEN 0 ELSE idle + 1
      /\ batch' = <<>> /\ parts' = <<>>
      /\ UNCHANGED <<split, deadline, cancelled, over, seen, known, writes, changes, aimed, repeat,
                     before, late>>
  BY DEF Loop!After, Loop!NoBatch
<1>2. /\ \/ /\ closing' = TRUE /\ pc' = "call" /\ attempt' = 0
            /\ \E reason \in {"loop", "budget", "iterations"} :
                 outcome' = [outcome EXCEPT !.reason = reason]
            /\ UNCHANGED iter
         \/ /\ ~over /\ iter + 1 < MaxIter /\ iter' = iter + 1 /\ pc' = "call"
            /\ UNCHANGED <<closing, attempt, outcome>>
      /\ enforcer' \in {Loop!PhaseReset, Loop!Nudged}
  BY DEF Loop!After, Loop!Finish, Loop!OverBudget
<1>3. FlowType'
  <2>1. attempt' \in 0..(Attempts - 1)
    BY <1>c, <1>t, <1>2 DEF FlowType
  <2>2. iter' \in 0..MaxIter
    BY <1>c, <1>t, <1>2 DEF FlowType
  <2>3. outcome' \in [reason : {"none", "answered", "repeat", "deadline", "loop", "budget",
                                "iterations", "error"},
                      answer : {"none", "answer", "partial", "nothing", "budget", "failed"}]
    BY <1>t, <1>2 DEF FlowType
  <2>4. closing' \in BOOLEAN
    BY <1>t, <1>2 DEF FlowType
  <2> QED BY <1>t, <1>1, <1>2, <2>1, <2>2, <2>3, <2>4 DEF FlowType, Calling
<1>4. BatchType'
  BY <1>1, <1>2 DEF BatchType
<1>5. FileType' /\ Loop!StubsReferToContent'
  <2>1. \/ UNCHANGED <<content, evicted>>
        \/ Loop!Compactions(Loop!Pinned)
    BY DEF Loop!After
  <2>2. streak' \in Nat
    BY <1>t, <1>1 DEF FileType
  <2>3. CASE UNCHANGED <<content, evicted>>
    BY <1>t, <1>1, <2>2, <2>3 DEF FileType, LoopInv, Loop!StubsReferToContent
  <2>4. CASE Loop!Compactions(Loop!Pinned)
    <3>1. /\ Loop!StubsReferToContent'
          /\ content' \in [Files -> [state : {"none", "full", "rolled", "gone"},
                                     at : 0..MaxIter, kept : BOOLEAN]]
          /\ evicted' \in [Files -> BOOLEAN]
      BY <1>1, <2>4, CompactionsKeep
    <3> QED BY <1>t, <1>1, <2>2, <3>1 DEF FileType
  <2> QED BY <2>1, <2>3, <2>4
<1>6. TrackType'
  <2>1. /\ idle \in Nat /\ idleIters \in Nat /\ edited \in BOOLEAN
        /\ enforcer \in [idle : Nat, nudges : Nat]
        /\ grace \in [reached : BOOLEAN, remaining : Int, editFailed : BOOLEAN]
    BY <1>t DEF TrackType
  <2>2. idle' \in Nat /\ idleIters' \in Nat
    BY <1>1, <2>1
  <2>3. edited' \in BOOLEAN
    BY <1>1, <2>1 DEF Loop!Edited, Loop!EditConfirmed
  <2>4. Loop!PhaseReset \in [idle : Nat, nudges : Nat]
    BY <2>1 DEF Loop!PhaseReset
  <2>5. Loop!Nudged \in [idle : Nat, nudges : Nat]
    BY <2>1, <2>4 DEF Loop!Nudged
  <2>6. Loop!GraceAfter \in [reached : BOOLEAN, remaining : Int, editFailed : BOOLEAN]
    BY <2>1 DEF Loop!GraceAfter, Loop!Edited, Loop!EditFailed, Loop!EditConfirmed
  <2> QED BY <1>t, <1>1, <1>2, <2>2, <2>3, <2>4, <2>5, <2>6, StepsAfterType DEF TrackType
<1>7. RequestType'
  BY <1>t, <1>1 DEF RequestType
<1>8. ClosingInv' /\ LateInv'
  <2>1. late = 0 /\ ~closing /\ outcome.reason # "deadline"
    BY <1>1 DEF LoopInv, ClosingInv, LateInv
  <2>2. outcome'.reason # "deadline"
    BY <1>t, <1>2, <2>1 DEF FlowType
  <2> QED BY <1>1, <1>2, <2>1, <2>2 DEF ClosingInv, LateInv, Calling
<1>9. WholeInv' /\ DeadlineOnlyWithoutEdits'
  <2>1. ASSUME ~split, "whole" \in writes PROVE edited'
    <3>1. CASE edited
      BY <1>1, <3>1 DEF Loop!Edited
    <3>2. CASE ~edited
      <4>1. PICK k \in Loop!EditCalls(batch) : parts[k].kind = "whole"
        BY <1>1, <2>1, <3>2 DEF LoopInv, WholeInv
      <4>2. Loop!Visible(k) /\ ~Loop!LooksFailed(k)
        BY <2>1, <4>1 DEF Loop!Visible, Loop!LooksFailed
      <4> QED BY <1>1, <4>1, <4>2 DEF Loop!Edited, Loop!EditConfirmed
    <3> QED BY <3>1, <3>2
  <2>2. outcome'.reason # "deadline"
    BY <1>t, <1>1, <1>2 DEF FlowType, LoopInv, ClosingInv
  <2> QED BY <1>1, <2>1, <2>2 DEF WholeInv, DeadlineOnlyWithoutEdits
<1>10. IdleInv'
  <2> SUFFICES ASSUME deadline > 0, ~edited' PROVE IdleInv'
    BY <1>1 DEF IdleInv
  <2>1. /\ deadline \in Nat /\ idle \in Nat /\ idleIters \in Nat
        /\ grace \in [reached : BOOLEAN, remaining : Int, editFailed : BOOLEAN]
    BY <1>c, <1>t DEF FlowType, TrackType
  <2>2. ~edited /\ ~Loop!Edited
    BY <1>1 DEF Loop!Edited
  <2>3. grace'.reached = grace.reached /\ grace'.remaining = grace.remaining
    <3>1. Loop!GraceAfter.remaining = grace.remaining
      BY DEF Loop!GraceAfter
    <3>2. Loop!GraceAfter.reached <=> grace.reached
      BY <2>2 DEF Loop!GraceAfter
    <3>3. Loop!GraceAfter.reached \in BOOLEAN /\ grace.reached \in BOOLEAN
      BY <2>1 DEF Loop!GraceAfter
    <3> QED BY <1>1, <3>1, <3>2, <3>3
  <2>4. idle' <= deadline + GracePeriod - 1 /\ Accounted(idle)'
    <3>1. CASE Loop!NewFiles
      <4>1. idle' = 0 /\ idleIters' = 0
        BY <1>1, <2>2, <3>1
      <4>2. grace.reached => 1 <= grace.remaining /\ grace.remaining <= GracePeriod
        BY <1>1, <2>2 DEF LoopInv, IdleInv, Accounted
      <4> QED BY <1>c, <1>1, <2>1, <2>3, <4>1, <4>2 DEF Accounted
    <3>2. CASE ~Loop!NewFiles /\ Loop!EditCalls(batch) # {}
      <4>1. idle' = 0 /\ idleIters' = idleIters
        BY <1>1, <3>2
      <4>2. grace.reached => 1 <= grace.remaining /\ grace.remaining <= GracePeriod
        BY <1>1, <2>2 DEF LoopInv, IdleInv, Accounted
      <4> QED BY <1>c, <1>1, <2>1, <2>3, <4>1, <4>2 DEF Accounted
    <3>3. CASE ~Loop!NewFiles /\ Loop!EditCalls(batch) = {}
      <4>1. idle' = idle + 1 /\ idleIters' = idleIters
        BY <1>1, <3>3
      <4>2. Accounted(idle + 1)
        BY <1>1, <2>2, <3>3 DEF LoopInv, IdleInv
      <4>3. Accounted(idle)'
        BY <1>1, <2>3, <4>1, <4>2 DEF Accounted
      <4>4. idle + 1 <= deadline + GracePeriod - 1
        <5> DEFINE n == grace.remaining
        <5>1. n \in Int /\ (idle + 1 <= deadline - 1 \/ (1 <= n /\ idle + 1 <= deadline + GracePeriod - n))
          BY <2>1, <4>2 DEF Accounted
        <5> HIDE DEF n
        <5> QED BY <1>c, <2>1, <5>1
      <4> QED BY <1>1, <4>1, <4>3, <4>4
    <3> QED BY <3>1, <3>2, <3>3
  <2> QED BY <1>1, <1>2, <2>4 DEF IdleInv, Accounted
<1> QED BY <1>3, <1>4, <1>5, <1>6, <1>7, <1>8, <1>9, <1>10 DEF LoopInv, LoopType

LEMMA LoopInductive ==
  ASSUME Loop!ToolLoopAssumption, LoopInv, [Loop!Next]_(Loop!vars)
  PROVE  LoopInv'
<1>1. CASE UNCHANGED Loop!vars
  <2>1. UNCHANGED <<split, deadline, pc, cancelled, batch, parts, outcome, seen, known, evicted, streak,
                    content, writes, changes, aimed, edited, idleIters, enforcer, grace, steps, idle,
                    closing, iter, attempt, over, late, repeat, before>>
    BY <1>1 DEF Loop!vars
  <2>2. FlowType' /\ BatchType' /\ FileType' /\ TrackType' /\ RequestType'
    <3>1. FlowType' /\ RequestType'
      BY <2>1 DEF LoopInv, LoopType, FlowType, RequestType
    <3>2. BatchType' /\ TrackType'
      BY <2>1 DEF LoopInv, LoopType, BatchType, TrackType
    <3>3. FileType'
      BY <2>1 DEF LoopInv, LoopType, FileType
    <3> QED BY <3>1, <3>2, <3>3
  <2>3. ClosingInv' /\ WholeInv' /\ LateInv' /\ DeadlineOnlyWithoutEdits' /\ Loop!StubsReferToContent'
    BY <2>1 DEF LoopInv, ClosingInv, WholeInv, LateInv, DeadlineOnlyWithoutEdits,
                Loop!StubsReferToContent, Loop!EditCalls
  <2>4. IdleInv'
    BY <2>1 DEF LoopInv, IdleInv, Accounted, Loop!EditCalls
  <2> QED BY <2>2, <2>3, <2>4 DEF LoopInv, LoopType
<1>2. CASE Loop!Cancel
  BY <1>2, ModelKeeps
<1>3. CASE Loop!Model
  BY <1>3, ModelKeeps, RequestKeeps DEF Loop!Model
<1>4. CASE Loop!ToolCalls
  BY <1>4, CallsKeep DEF Loop!ToolCalls
<1>5. CASE Loop!After
  BY <1>5, AfterKeeps
<1>6. CASE \E f \in Files : Loop!ExternalChange(f)
  BY <1>6, ChangeKeeps
<1>7. CASE Loop!Terminating
  BY <1>1, <1>7 DEF Loop!Terminating
<1> QED BY <1>1, <1>2, <1>3, <1>4, <1>5, <1>6, <1>7 DEF Loop!Next

LEMMA LoopInvariance ==
  ASSUME Loop!ToolLoopAssumption PROVE Loop!Spec => []LoopInv
<1>1. Loop!Init => LoopInv
  BY LoopInitially
<1>2. LoopInv /\ [Loop!Next]_(Loop!vars) => LoopInv'
  BY LoopInductive
<1> QED BY <1>1, <1>2, PTL DEF Loop!Spec

\* Every tool loop has its type.
THEOREM LoopTypeCorrect ==
  ASSUME Loop!ToolLoopAssumption PROVE Loop!Spec => []Loop!TypeOK
<1>1. LoopInv => Loop!TypeOK
  BY LoopTypeIsTypeOK DEF LoopInv
<1> QED BY <1>1, LoopInvariance, PTL

\* An agent with one edit reported in full is never stopped at its edit
\* deadline (tools.go:261-312), whatever else it calls in any order.
THEOREM DeadlineSound ==
  ASSUME Loop!ToolLoopAssumption PROVE Loop!Spec => []DeadlineOnlyWithoutEdits
<1>1. LoopInv => DeadlineOnlyWithoutEdits
  BY DEF LoopInv
<1> QED BY <1>1, LoopInvariance, PTL

\* An agent that has edited nothing idles for at most the deadline and the grace
\* period (tools.go:261-475), for every deadline and every mixture of tools.
THEOREM IdlingSound ==
  ASSUME Loop!ToolLoopAssumption PROVE Loop!Spec => []IdlingIsBounded
<1>1. LoopInv => IdlingIsBounded
  BY DEF LoopInv, IdleInv, IdlingIsBounded
<1> QED BY <1>1, LoopInvariance, PTL

\* "Content was already provided" is said of content the conversation has
\* (efficiency.go:64, tools.go:1486), through every order of compactions,
\* re-reads and changes by others.
THEOREM StubsSound ==
  ASSUME Loop!ToolLoopAssumption PROVE Loop!Spec => []Loop!StubsReferToContent
<1>1. LoopInv => Loop!StubsReferToContent
  BY DEF LoopInv
<1> QED BY <1>1, LoopInvariance, PTL

\* One response is paid for after the budget is gone, the closing one
\* (tools.go:737, finishToolLoop).
THEOREM LoopSpendingSound ==
  ASSUME Loop!ToolLoopAssumption PROVE Loop!Spec => []SpendingStops
<1>1. LoopInv => SpendingStops
  BY DEF LoopInv, LateInv, SpendingStops
<1> QED BY <1>1, LoopInvariance, PTL

----------------------------------------------------------------------------
(***************************************************************************)
(* The loop is one invocation of those the tree consists of.               *)
(***************************************************************************)

USE DEF Loop!Lone!vars

LoopMove == [Loop!Lone!Next]_(Loop!Lone!vars)

StageOf ==
  IF pc = "done" THEN IF outcome.answer \in {"answer", "partial"} THEN "succeeded" ELSE "failed"
  ELSE IF closing THEN "final"
  ELSE IF pc = "execute" THEN "tools" ELSE "model"

\* The invocation is where the loop is, and over budget when that is.
LEMMA OneAgent ==
  /\ Loop!stageBar["agent"] = StageOf /\ Loop!overBar["agent"] = over
  /\ Loop!Lone!Becomes("agent", StageOf', over')
  /\ (StageOf' = StageOf /\ over' = over) => LoopMove
BY DEF StageOf, Loop!Lone!Becomes, Loop!stageBar, Loop!overBar, LoopMove

\* The model call failed for good.
LEMMA FailedCallMoves ==
  ASSUME LoopInv, Loop!CallFailed, pc \in Calling PROVE LoopMove
<1>0. pc' = "done" /\ closing' = closing /\ over' = over /\ pc \in {"call", "inflight", "backoff"}
  BY DEF Loop!CallFailed, Calling
<1>1. PICK a \in Loop!Unanswered : outcome'.answer = a
  BY DEF Loop!CallFailed
<1>2. CASE closing
  <2>1. StageOf = "final" /\ StageOf' \in {"succeeded", "failed"}
    BY <1>0, <1>2 DEF StageOf
  <2>2. over => StageOf' = "failed"
    BY <1>0, <1>1, <1>2 DEF Loop!Unanswered, Loop!Fallbacks, StageOf
  <2>3. over \in BOOLEAN
    BY DEF LoopInv, LoopType, FlowType
  <2>4. Loop!Lone!Close("agent")
    BY <1>0, <2>1, <2>2, <2>3, OneAgent DEF Loop!Lone!Close
  <2> QED BY <2>4 DEF LoopMove, Loop!Lone!Next
<1>3. CASE ~closing
  <2>1. StageOf = "model" /\ StageOf' = "failed"
    BY <1>0, <1>1, <1>3 DEF Loop!Unanswered, StageOf
  <2>2. Loop!Lone!Fail("agent")
    BY <1>0, <2>1, OneAgent DEF Loop!Lone!Fail
  <2> QED BY <2>2 DEF LoopMove, Loop!Lone!Next
<1> QED BY <1>2, <1>3

LEMMA ModelMoves ==
  ASSUME LoopInv, Loop!Model PROVE LoopMove
<1>0. over \in BOOLEAN /\ (~closing /\ pc \in Calling => ~over)
  BY DEF LoopInv, LoopType, FlowType, LateInv
<1>1. CASE Loop!StartAttempt \/ Loop!AttemptFails \/ Loop!AttemptFailsForNow \/ Loop!Backoff
  <2>1. CASE Loop!CallFailed /\ pc \in Calling
    BY <2>1, FailedCallMoves
  <2>2. CASE ~(Loop!CallFailed /\ pc \in Calling)
    <3>1. /\ pc \in Calling /\ pc' \in Calling
          /\ closing' = closing /\ over' = over /\ outcome' = outcome
      BY <1>1, <2>2 DEF Loop!StartAttempt, Loop!AttemptFails, Loop!AttemptFailsForNow, Loop!Backoff,
                        Calling
    <3>2. StageOf' = StageOf
      BY <3>1 DEF StageOf, Calling
    <3> QED BY <3>1, <3>2, OneAgent
  <2> QED BY <2>1, <2>2
<1>2. CASE Loop!Answer
  <2>1. StageOf = "model" /\ StageOf' = "succeeded" /\ over' \in BOOLEAN /\ ~over
    BY <1>0, <1>2 DEF Loop!Answer, Loop!Charge, StageOf, Calling
  <2>2. Loop!Lone!Respond("agent")
    BY <2>1, OneAgent DEF Loop!Lone!Respond
  <2> QED BY <2>2 DEF LoopMove, Loop!Lone!Next
<1>3. ASSUME NEW text \in BOOLEAN, Loop!FinalResponse(text) PROVE LoopMove
  <2>0. /\ pc = "inflight" /\ closing /\ pc' = "done" /\ over' \in {over, TRUE}
    BY <1>3 DEF Loop!FinalResponse, Loop!Charge
  <2>1. over => outcome'.answer = "budget"
    BY <1>3 DEF Loop!FinalResponse, Loop!Fallbacks
  <2>2. StageOf = "final" /\ StageOf' \in {"succeeded", "failed"}
    BY <2>0 DEF StageOf
  <2>3. over' \in BOOLEAN /\ (over => over' = TRUE)
    BY <1>0, <2>0
  <2>4. over => StageOf' = "failed"
    BY <2>0, <2>1 DEF StageOf
  <2>5. Loop!Lone!Close("agent")
    BY <2>2, <2>3, <2>4, OneAgent DEF Loop!Lone!Close
  <2> QED BY <2>5 DEF LoopMove, Loop!Lone!Next
<1>4. ASSUME NEW b \in Batches, Loop!Request(b) PROVE LoopMove
  <2>1. pc = "inflight" /\ ~closing /\ over' \in BOOLEAN /\ ~over
    BY <1>0, <1>4 DEF Loop!Request, Loop!Charge, Calling
  <2>2. (closing' /\ pc' = "call") \/ (~closing' /\ pc' = "execute")
    BY <1>4 DEF Loop!Request, Loop!Finish
  <2>3. StageOf = "model" /\ StageOf' \in {"tools", "final"}
    BY <2>1, <2>2 DEF StageOf
  <2>4. Loop!Lone!Respond("agent")
    BY <2>1, <2>3, OneAgent DEF Loop!Lone!Respond
  <2> QED BY <2>4 DEF LoopMove, Loop!Lone!Next
<1> QED BY <1>1, <1>2, <1>3, <1>4 DEF Loop!Model

LEMMA AfterMoves ==
  ASSUME LoopInv, Loop!After PROVE LoopMove
<1>1. pc = "execute" /\ ~closing /\ over' = over /\ over \in BOOLEAN
  BY DEF Loop!After, LoopInv, ClosingInv, LoopType, FlowType
<1>2. (closing' /\ pc' = "call") \/ (closing' = closing /\ pc' = "call" /\ ~over)
  BY DEF Loop!After, Loop!Finish, Loop!OverBudget
<1>3. StageOf = "tools" /\ (StageOf' = "final" \/ (StageOf' = "model" /\ ~over))
  BY <1>1, <1>2 DEF StageOf
<1>4. Loop!Lone!GoOn("agent") \/ Loop!Lone!Stop("agent")
  BY <1>1, <1>3, OneAgent DEF Loop!Lone!GoOn, Loop!Lone!Stop
<1> QED BY <1>4 DEF LoopMove, Loop!Lone!Next

\* Tool calls, and what others do meanwhile, leave the invocation where it is.
LEMMA OthersMove ==
  ASSUME UNCHANGED <<pc, outcome, closing, over>> PROVE LoopMove
<1>1. StageOf' = StageOf
  BY DEF StageOf
<1> QED BY <1>1, OneAgent

LEMMA CallsMove ==
  ASSUME Loop!ToolCalls PROVE LoopMove
<1>1. PICK k \in 1..Len(batch) :
        \/ Loop!ReadFile(k) \/ Loop!ServeFile(k) \/ Loop!Refuse(k) \/ Loop!Search(k)
        \/ Loop!RunBash(k) \/ Loop!OpenForEdit(k) \/ Loop!ApplyEdit(k) \/ Loop!WriteFile(k)
  BY DEF Loop!ToolCalls
<1>2. UNCHANGED <<pc, outcome, closing, over>>
  <2>1. CASE Loop!ReadFile(k) \/ Loop!Refuse(k) \/ Loop!Search(k) \/ Loop!RunBash(k)
             \/ Loop!OpenForEdit(k)
    BY <2>1 DEF Loop!ReadFile, Loop!Refuse, Loop!Search, Loop!RunBash, Loop!OpenForEdit
  <2>2. CASE Loop!ServeFile(k)
    BY <2>2, Zenon DEF Loop!ServeFile
  <2>3. CASE Loop!ApplyEdit(k) \/ Loop!WriteFile(k)
    BY <2>3 DEF Loop!ApplyEdit, Loop!WriteFile, Loop!Writes
  <2> QED BY <1>1, <2>1, <2>2, <2>3
<1> QED BY <1>2, OthersMove

\* The loop is the invocation the tree counts on: no request is made over the
\* budget but the closing one, an answer found over the budget before it fails,
\* and nothing follows the end (toolLoop, finishToolLoop), for every order of
\* tool calls, retries, cancellations and compactions.
THEOREM LoopIsInvocation ==
  ASSUME Loop!ToolLoopAssumption PROVE Loop!Spec => Loop!ImplementsInvocations
<1>1. Loop!Init => Loop!Lone!Init
  BY DEF Loop!Init, Loop!Lone!Init, Loop!stageBar, Loop!overBar
<1>2. LoopInv /\ [Loop!Next]_(Loop!vars) => LoopMove
  <2> SUFFICES ASSUME LoopInv, [Loop!Next]_(Loop!vars) PROVE LoopMove
    OBVIOUS
  <2>1. CASE UNCHANGED Loop!vars \/ Loop!Terminating
    BY <2>1, OthersMove DEF Loop!Terminating, Loop!vars
  <2>2. CASE Loop!Cancel \/ \E f \in Files : Loop!ExternalChange(f)
    <3>1. UNCHANGED <<pc, outcome, closing, over>>
      BY <2>2 DEF Loop!Cancel, Loop!ExternalChange
    <3> QED BY <3>1, OthersMove
  <2> QED BY <2>1, <2>2, ModelMoves, CallsMove, AfterMoves DEF Loop!Next
<1> QED BY <1>1, <1>2, LoopInvariance, PTL
        DEF Loop!Spec, Loop!ImplementsInvocations, Loop!Lone!Spec, LoopMove

=============================================================================
