---------------------------- MODULE ShardProofs ----------------------------
(***************************************************************************)
(* Theorems about Shard for every number of shards, every pool and every   *)
(* policy, and about ShardSplit for every work-list.                       *)
(***************************************************************************)
EXTENDS Shard, ShardSplitPromise, FiniteSetTheorems, WellFoundedInduction, TLAPS

USE DEF options, pool, gitView, work, results

Written == {"reported", "leaving", "done"}

InThePool == {s \in Shards : phase[s] \in InPool}

\* The shards that have failed, and those that still may.
Hot == {s \in Shards : error[s] = "failed" \/ phase[s] = "running"}

\* Before anything stopped the run these shards hold a slot; afterwards no shard
\* joins them.
HotIsBounded ==
  policy = "stop" =>
    IF cancelled THEN Cardinality(Hot) <= MaxParallel
    ELSE \A s \in Hot : phase[s] \in {"running", "reported"}

\* A CLI under which nobody changed the tree finds it as its snapshot has it.
SnapshotHolds ==
  \A s \in Shards : external /\ phase[s] = "running" /\ ~stirred[s] => tree = before[s]

Honest(s) ==
  /\ applied[s] => IF external THEN stirred[s] \/ cancelled ELSE edited[s]
  /\ ~external /\ edited[s] => applied[s]
  /\ RequireActionable /\ claims[s] => applied[s]

\* A result is written once, by the shard's own goroutine.
ResultsByPhase ==
  /\ \A s \in Shards : error[s] # "none" => phase[s] \in Written
  /\ \A s \in Shards : error[s] = "skipped" => cancelled
  /\ \A s \in Shards : phase[s] \in Written /\ error[s] = "none" => Honest(s)
  /\ report.returned => \A s \in Shards : phase[s] = "done"

\* With on_shard_error=continue only an interrupt cancels the run.
WhoCancels == policy = "continue" /\ cancelled => interrupted

IInv ==
  TypeOK /\ PoolAccounted /\ HotIsBounded /\ SnapshotHolds /\ ResultsByPhase /\ WhoCancels

LEMMA ShardsFinite ==
  /\ IsFiniteSet(Shards)
  /\ \A S \in SUBSET Shards : IsFiniteSet(S) /\ Cardinality(S) \in Nat
<1>1. IsFiniteSet(Shards)
  BY FS_Interval, ShardAssumption DEF Shards
<1> QED BY <1>1, FS_Subset, FS_CardinalityType

\* A shard that moves within the pool, or stays outside, leaves the count alone.
LEMMA PoolKept ==
  ASSUME IInv, slots' = slots,
         \A s \in Shards : phase'[s] \in InPool <=> phase[s] \in InPool
  PROVE  PoolAccounted'
BY DEF IInv, PoolAccounted

\* Nobody starts to run, and the tree stays as it is.
LEMMA SnapshotKept ==
  ASSUME IInv, UNCHANGED <<external, tree, stirred>>,
         \A s \in Shards : phase'[s] = "running" => phase[s] = "running" /\ before'[s] = before[s]
  PROVE  SnapshotHolds'
BY DEF IInv, SnapshotHolds

LEMMA Moved ==
  ASSUME IInv, NEW s \in Shards, NEW to \in Phases, Move(s, to)
  PROVE  /\ phase' \in [Shards -> Phases] /\ phase'[s] = to
         /\ \A t \in Shards : t # s => phase'[t] = phase[t]
BY DEF Move, IInv, TypeOK

\* The hot shards are in the pool while nothing has stopped the run.
LEMMA HotInPool ==
  ASSUME IInv, policy = "stop"
  PROVE  Cardinality(Hot) <= MaxParallel
<1>1. CASE cancelled
  BY <1>1 DEF IInv, HotIsBounded
<1>2. CASE ~cancelled
  <2>1. Hot \subseteq InThePool
    BY <1>2 DEF IInv, HotIsBounded, InThePool, InPool, Hot
  <2>2. Cardinality(Hot) <= Cardinality(InThePool)
    BY <2>1, ShardsFinite, FS_Subset DEF InThePool
  <2>3. Cardinality(InThePool) = slots
    BY DEF IInv, PoolAccounted, InThePool
  <2>4. Cardinality(Hot) \in Nat /\ slots \in 0..MaxParallel
    BY ShardsFinite DEF Hot, IInv, TypeOK
  <2> QED BY <2>2, <2>3, <2>4, ShardAssumption
<1> QED BY <1>1, <1>2 DEF IInv, TypeOK

\* Nobody becomes hot in a step after which the run is stopped.
LEMMA HotShrinks ==
  ASSUME IInv, policy = "stop", Hot' \subseteq Hot
  PROVE  Cardinality(Hot') <= MaxParallel
<1>1. Cardinality(Hot') <= Cardinality(Hot)
  BY ShardsFinite, FS_Subset DEF Hot
<1>2. Cardinality(Hot') \in Nat /\ Cardinality(Hot) \in Nat
  BY ShardsFinite DEF Hot
<1> QED BY <1>1, <1>2, HotInPool, ShardAssumption

(***************************************************************************)
(* The steps                                                               *)
(***************************************************************************)

LEMMA AcquireStep == ASSUME IInv, NEW s \in Shards, Acquire(s) PROVE IInv'
<1>1. phase[s] = "queued" /\ slots < MaxParallel /\ slots' = slots + 1
  BY DEF Acquire
<1>2. /\ phase' \in [Shards -> Phases] /\ phase'[s] = "holding"
      /\ \A t \in Shards : t # s => phase'[t] = phase[t]
  BY Moved DEF Acquire, Phases
<1>3. InThePool' = InThePool \cup {s} /\ s \notin InThePool
  BY <1>1, <1>2 DEF InThePool, InPool
<1>4. PoolAccounted'
  BY <1>1, <1>3, ShardsFinite, FS_AddElement DEF IInv, PoolAccounted, InThePool
<1>5. TypeOK'
  BY <1>1, <1>2, ShardAssumption DEF Acquire, IInv, TypeOK
<1>6. Hot' = Hot /\ cancelled' = cancelled /\ policy' = policy
  BY <1>1, <1>2 DEF Hot, Acquire
<1>7. HotIsBounded'
  BY <1>1, <1>2, <1>6 DEF IInv, HotIsBounded, Hot
<1>8. ResultsByPhase' /\ WhoCancels'
  BY <1>1, <1>2 DEF Acquire, IInv, ResultsByPhase, WhoCancels, Written, Honest
<1>9. SnapshotHolds'
  BY <1>2, SnapshotKept DEF Acquire
<1> QED BY <1>4, <1>5, <1>7, <1>8, <1>9 DEF IInv

LEMMA StartStep == ASSUME IInv, NEW s \in Shards, Start(s) PROVE IInv'
<1>1. phase[s] = "holding" /\ ~cancelled
  BY DEF Start
<1>2. /\ phase' \in [Shards -> Phases] /\ phase'[s] = "running"
      /\ \A t \in Shards : t # s => phase'[t] = phase[t]
  BY Moved DEF Start, Phases
<1>3. PoolAccounted'
  BY <1>1, <1>2, PoolKept DEF Start, InPool
<1>4. TypeOK'
  <2>1. before' \in [Shards -> SUBSET Shards]
    BY DEF Start, IInv, TypeOK
  <2> QED BY <1>2, <2>1 DEF Start, IInv, TypeOK
<1>5. HotIsBounded'
  BY <1>1, <1>2 DEF Start, IInv, HotIsBounded, Hot
<1>6. ResultsByPhase' /\ WhoCancels'
  BY <1>1, <1>2 DEF Start, IInv, ResultsByPhase, WhoCancels, Written, Honest
<1>7. SnapshotHolds'
  BY <1>2 DEF Start, IInv, TypeOK, SnapshotHolds
<1> QED BY <1>3, <1>4, <1>5, <1>6, <1>7 DEF IInv

LEMMA SkipStep == ASSUME IInv, NEW s \in Shards, Skip(s) PROVE IInv'
<1>1. phase[s] = "holding" /\ cancelled
  BY DEF Skip
<1>2. /\ phase' \in [Shards -> Phases] /\ phase'[s] = "leaving"
      /\ \A t \in Shards : t # s => phase'[t] = phase[t]
  BY Moved DEF Skip, Phases
<1>3. /\ error' \in [Shards -> Errors] /\ error'[s] = "skipped"
      /\ \A t \in Shards : t # s => error'[t] = error[t]
  BY DEF Skip, IInv, TypeOK, Errors
<1>4. PoolAccounted'
  BY <1>1, <1>2, PoolKept DEF Skip, InPool
<1>5. TypeOK'
  BY <1>2, <1>3 DEF Skip, IInv, TypeOK
<1>6. Hot' \subseteq Hot
  BY <1>2, <1>3 DEF Hot
<1>7. HotIsBounded'
  BY <1>1, <1>6, HotShrinks DEF Skip, HotIsBounded
<1>8. ResultsByPhase' /\ WhoCancels'
  BY <1>1, <1>2, <1>3 DEF Skip, IInv, ResultsByPhase, WhoCancels, Written, Honest
<1>9. SnapshotHolds'
  BY <1>2, SnapshotKept DEF Skip
<1> QED BY <1>4, <1>5, <1>7, <1>8, <1>9 DEF IInv

LEMMA WorkStep == ASSUME IInv, NEW s \in Shards, ModelCall(s) \/ Edit(s) PROVE IInv'
<1>1. phase[s] = "running" /\ ~external /\ UNCHANGED <<phase, pool, gitView, results, report>>
  BY DEF ModelCall, Edit
<1>2. /\ edited' \in [Shards -> BOOLEAN]
      /\ \A t \in Shards : t # s => edited'[t] = edited[t]
  BY DEF ModelCall, Edit, IInv, TypeOK
<1>3. cost' \in [Shards -> Nat]
  BY ShardAssumption DEF ModelCall, Edit, IInv, TypeOK
<1>4. TypeOK'
  BY <1>1, <1>2, <1>3 DEF IInv, TypeOK
<1>5. PoolAccounted' /\ HotIsBounded' /\ WhoCancels' /\ SnapshotHolds'
  BY <1>1 DEF IInv, PoolAccounted, HotIsBounded, Hot, WhoCancels, SnapshotHolds
<1>6. ResultsByPhase'
  BY <1>1, <1>2 DEF IInv, ResultsByPhase, Written, Honest
<1> QED BY <1>4, <1>5, <1>6 DEF IInv

\* A CLI that changes the tree disturbs the snapshots of those that run beside it.
LEMMA CLIStep == ASSUME IInv, NEW s \in Shards, CLIEdit(s) \/ CLICommit(s) PROVE IInv'
<1>1. /\ phase[s] = "running" /\ external
      /\ UNCHANGED <<phase, pool, before, cost, results, report>>
  BY DEF CLIEdit, CLICommit
<1>2. /\ edited' \in [Shards -> BOOLEAN]
      /\ \A t \in Shards : t # s => edited'[t] = edited[t]
  BY DEF CLIEdit, CLICommit, IInv, TypeOK
<1>3. PICK t \in SUBSET Shards : ChangeTree(t)
  <2>1. CASE CLIEdit(s)
    BY <2>1 DEF CLIEdit, IInv, TypeOK
  <2>2. CASE CLICommit(s)
    <3>1. PICK part \in SUBSET tree \ {{}} : ChangeTree(tree \ part)
      BY <2>2 DEF CLICommit
    <3> QED BY <3>1 DEF IInv, TypeOK
  <2> QED BY <2>1, <2>2
<1>4. /\ tree' \in SUBSET Shards /\ stirred' \in [Shards -> BOOLEAN]
      /\ \A r \in Shards : stirred[r] => stirred'[r]
      /\ \A r \in Shards : phase[r] = "running" /\ ~stirred'[r] => tree' = tree
  BY <1>3 DEF ChangeTree, IInv, TypeOK
<1>5. TypeOK'
  BY <1>1, <1>2, <1>4 DEF IInv, TypeOK
<1>6. PoolAccounted' /\ HotIsBounded' /\ WhoCancels'
  BY <1>1 DEF IInv, PoolAccounted, HotIsBounded, Hot, WhoCancels
<1>7. SnapshotHolds'
  BY <1>1, <1>4 DEF IInv, SnapshotHolds
<1>8. ResultsByPhase'
  BY <1>1, <1>2, <1>4 DEF IInv, ResultsByPhase, Written, Honest
<1> QED BY <1>5, <1>6, <1>7, <1>8 DEF IInv

\* A goroutine that writes its outcome: an honest one when it is no failure.
LEMMA WriteStep ==
  ASSUME IInv, NEW s \in Shards, phase[s] = "running",
         NEW err \in {"none", "failed"}, NEW claim \in BOOLEAN, NEW has \in BOOLEAN,
         NEW edits \in BOOLEAN, Write(s, err, claim, has, edits),
         err = "none" => edits = EditsApplied(s) /\ ~Fabricated(s, claim),
         UNCHANGED <<pool, report>>, cost' \in [Shards -> Nat]
  PROVE  IInv'
<1>1. /\ phase' \in [Shards -> Phases] /\ phase'[s] = "reported"
      /\ \A t \in Shards : t # s => phase'[t] = phase[t]
  BY Moved DEF Write, Phases
<1>2. /\ error' \in [Shards -> Errors] /\ error'[s] = err
      /\ \A t \in Shards : t # s => error'[t] = error[t]
  BY DEF Write, IInv, TypeOK, Errors
<1>3. /\ applied' \in [Shards -> BOOLEAN] /\ applied'[s] = edits
      /\ \A t \in Shards : t # s => applied'[t] = applied[t]
  BY DEF Write, IInv, TypeOK
<1>4. /\ claims' \in [Shards -> BOOLEAN] /\ claims'[s] = claim
      /\ \A t \in Shards : t # s => claims'[t] = claims[t]
  BY DEF Write, IInv, TypeOK
<1>5. /\ metered' \in [Shards -> BOOLEAN] /\ UNCHANGED <<edited, tree, stirred>>
      /\ before' \in [Shards -> SUBSET Shards]
      /\ \A t \in Shards : t # s => before'[t] = before[t]
  BY DEF Write, IInv, TypeOK
<1>6. TypeOK'
  BY <1>1, <1>2, <1>3, <1>4, <1>5 DEF IInv, TypeOK
<1>7. PoolAccounted'
  BY <1>1, PoolKept DEF InPool
<1>8. Hot' \subseteq Hot
  BY <1>1, <1>2 DEF Hot
<1>9. HotIsBounded'
  <2>1. CASE cancelled
    BY <1>8, <2>1, HotShrinks DEF HotIsBounded
  <2>2. CASE ~cancelled
    BY <1>1, <1>8, <2>2 DEF IInv, HotIsBounded, Hot
  <2> QED BY <2>1, <2>2 DEF IInv, TypeOK
<1>10. err = "none" => Honest(s)'
  <2> SUFFICES ASSUME err = "none" PROVE Honest(s)'
    OBVIOUS
  <2>1. applied'[s] = EditsApplied(s) /\ (RequireActionable /\ claims'[s] => applied'[s])
    BY <1>3, <1>4 DEF Fabricated
  <2>2. external /\ EditsApplied(s) => stirred[s] \/ cancelled
    BY DEF EditsApplied, IInv, SnapshotHolds
  <2>3. ~external => EditsApplied(s) = edited[s]
    BY DEF EditsApplied
  <2> QED BY <1>5, <2>1, <2>2, <2>3 DEF Honest
<1>11. \A t \in Shards : t # s => (Honest(t)' <=> Honest(t))
  BY <1>3, <1>4, <1>5 DEF Honest
<1>12. ResultsByPhase'
  BY <1>1, <1>2, <1>10, <1>11 DEF IInv, ResultsByPhase, Written
<1>13. WhoCancels'
  BY DEF IInv, WhoCancels
<1>14. SnapshotHolds'
  BY <1>1, <1>5, SnapshotKept
<1> QED BY <1>6, <1>7, <1>9, <1>12, <1>13, <1>14 DEF IInv

LEMMA OutcomeStep ==
  ASSUME IInv, NEW s \in Shards,
         BuildFails(s) \/ Answer(s) \/ CLIAnswer(s) \/ RunFails(s) \/ BudgetFails(s)
  PROVE  IInv'
<1>1. /\ cost \in [Shards -> Nat] /\ edited[s] \in BOOLEAN
      /\ EditsApplied(s) \in BOOLEAN /\ (~external /\ edited[s]) \in BOOLEAN
  BY DEF IInv, TypeOK, EditsApplied
<1>2. CASE BuildFails(s)
  BY <1>1, <1>2, WriteStep DEF BuildFails
<1>3. CASE Answer(s) \/ CLIAnswer(s)
  <2>1. phase[s] = "running" /\ UNCHANGED <<pool, report>> /\ Answered(s, TRUE)
    BY <1>3 DEF Answer, CLIAnswer
  <2>2. PICK claim \in BOOLEAN :
          Write(s, IF Fabricated(s, claim) THEN "failed" ELSE "none", claim, TRUE,
                EditsApplied(s))
    BY <2>1 DEF Answered
  <2>3. cost' \in [Shards -> Nat]
    <3>1. cost \in [Shards -> Nat]
      BY <1>1
    <3>2. CASE Answer(s)
      BY <3>1, <3>2 DEF Answer
    <3>3. CASE CLIAnswer(s)
      <4>1. PICK c \in 1..MaxCallCost : cost' = [cost EXCEPT ![s] = @ + c]
        BY <3>3 DEF CLIAnswer
      <4>2. c \in Nat
        BY <4>1, ShardAssumption
      <4> QED BY <3>1, <4>1, <4>2
    <3> QED BY <1>3, <3>2, <3>3
  <2> DEFINE err == IF Fabricated(s, claim) THEN "failed" ELSE "none"
  <2>4. err \in {"none", "failed"} /\ (err = "none" => ~Fabricated(s, claim))
    OBVIOUS
  <2>5. Write(s, err, claim, TRUE, EditsApplied(s))
    BY <2>2
  <2> HIDE DEF err
  <2> QED BY <1>1, <2>1, <2>3, <2>4, <2>5, WriteStep
<1>4. CASE RunFails(s)
  BY <1>1, <1>4, WriteStep DEF RunFails
<1>5. CASE BudgetFails(s)
  <2>1. PICK claim \in BOOLEAN : Write(s, "failed", claim, TRUE, edited[s])
    BY <1>5 DEF BudgetFails
  <2>2. cost' \in [Shards -> Nat]
    BY <1>1, <1>5, ShardAssumption DEF BudgetFails
  <2> QED BY <1>1, <1>5, <2>1, <2>2, WriteStep DEF BudgetFails
<1> QED BY <1>2, <1>3, <1>4, <1>5

LEMMA StopStep == ASSUME IInv, NEW s \in Shards, Stop(s) PROVE IInv'
<1>1. phase[s] = "reported" /\ UNCHANGED <<options, slots, interrupted, work, results, report>>
  BY DEF Stop
<1>2. /\ phase' \in [Shards -> Phases] /\ phase'[s] = "leaving"
      /\ \A t \in Shards : t # s => phase'[t] = phase[t]
  BY Moved DEF Stop, Phases
<1>3. cancelled' = (cancelled \/ (error[s] # "none" /\ policy = "stop"))
  BY DEF Stop
<1>4. TypeOK'
  BY <1>1, <1>2, <1>3 DEF Stop, IInv, TypeOK
<1>5. PoolAccounted'
  BY <1>1, <1>2, PoolKept DEF InPool
<1>6. Hot' \subseteq Hot
  BY <1>1, <1>2 DEF Hot
<1>7. HotIsBounded'
  <2>1. CASE cancelled'
    BY <1>1, <1>6, <2>1, HotShrinks DEF HotIsBounded
  <2>2. ASSUME ~cancelled', policy = "stop"
        PROVE \A t \in Hot' : phase'[t] \in {"running", "reported"}
    BY <1>1, <1>2, <1>3, <1>6, <2>2 DEF IInv, HotIsBounded, Hot
  <2> QED BY <1>1, <1>4, <2>1, <2>2 DEF HotIsBounded, TypeOK
<1>8. ResultsByPhase' /\ WhoCancels'
  BY <1>1, <1>2, <1>3 DEF IInv, ResultsByPhase, WhoCancels, Written, Honest
<1>9. SnapshotHolds'
  BY <1>1, <1>2, SnapshotKept
<1> QED BY <1>4, <1>5, <1>7, <1>8, <1>9 DEF IInv

LEMMA LeaveStep == ASSUME IInv, NEW s \in Shards, Leave(s) PROVE IInv'
<1>1. /\ phase[s] = "leaving" /\ slots' = slots - 1
      /\ UNCHANGED <<options, cancelled, interrupted, stopped, work, results, report>>
  BY DEF Leave
<1>2. /\ phase' \in [Shards -> Phases] /\ phase'[s] = "done"
      /\ \A t \in Shards : t # s => phase'[t] = phase[t]
  BY Moved DEF Leave, Phases
<1>3. InThePool' = InThePool \ {s} /\ s \in InThePool
  BY <1>1, <1>2 DEF InThePool, InPool
<1>4. /\ Cardinality(InThePool) \in Nat /\ Cardinality(InThePool') \in Nat
      /\ Cardinality(InThePool') = Cardinality(InThePool) - 1
  BY <1>3, ShardsFinite, FS_RemoveElement DEF InThePool
<1>5. PoolAccounted' /\ slots' \in 0..MaxParallel
  BY <1>1, <1>4, ShardAssumption DEF IInv, TypeOK, PoolAccounted, InThePool
<1>6. TypeOK'
  BY <1>1, <1>2, <1>5 DEF IInv, TypeOK
<1>7. Hot' \subseteq Hot
  BY <1>1, <1>2 DEF Hot
<1>8. HotIsBounded'
  <2>1. CASE cancelled
    BY <1>1, <1>7, <2>1, HotShrinks DEF HotIsBounded
  <2>2. CASE ~cancelled
    BY <1>1, <1>2, <1>7, <2>2 DEF IInv, HotIsBounded, Hot
  <2> QED BY <2>1, <2>2
<1>9. ResultsByPhase' /\ WhoCancels'
  BY <1>1, <1>2 DEF IInv, ResultsByPhase, WhoCancels, Written, Honest
<1>10. SnapshotHolds'
  BY <1>1, <1>2, SnapshotKept
<1> QED BY <1>5, <1>6, <1>8, <1>9, <1>10 DEF IInv

LEMMA CollectStep == ASSUME IInv, Collect PROVE IInv'
<1>1. /\ UNCHANGED <<phase, pool, work, results>>
      /\ \A s \in Shards : phase[s] = "done"
  BY DEF Collect
<1>2. report'.returned = TRUE
  BY DEF Collect, Report
<1>3. TypeOK'
  BY <1>1, <1>2 DEF IInv, TypeOK
<1>4. PoolAccounted' /\ HotIsBounded' /\ WhoCancels' /\ SnapshotHolds'
  BY <1>1 DEF IInv, PoolAccounted, HotIsBounded, Hot, WhoCancels, SnapshotHolds
<1>5. ResultsByPhase'
  BY <1>1 DEF IInv, ResultsByPhase, Honest
<1> QED BY <1>3, <1>4, <1>5 DEF IInv

LEMMA InterruptStep == ASSUME IInv, Interrupt PROVE IInv'
<1>1. /\ interrupted' = TRUE /\ cancelled' = TRUE
      /\ UNCHANGED <<options, phase, slots, stopped, work, results, report>>
  BY DEF Interrupt
<1>2. TypeOK' /\ PoolAccounted' /\ WhoCancels' /\ ResultsByPhase' /\ SnapshotHolds'
  BY <1>1 DEF IInv, TypeOK, PoolAccounted, WhoCancels, ResultsByPhase, Honest, SnapshotHolds
<1>3. HotIsBounded'
  <2>1. Hot' \subseteq Hot
    BY <1>1 DEF Hot
  <2> QED BY <1>1, <2>1, HotShrinks DEF HotIsBounded
<1> QED BY <1>2, <1>3 DEF IInv

LEMMA Initially == Init => IInv
<1> SUFFICES ASSUME Init PROVE IInv
  OBVIOUS
<1>1. TypeOK
  <2>1. slots \in 0..MaxParallel
    BY ShardAssumption DEF Init
  <2>2. report.returned \in BOOLEAN
    BY DEF Init, NoReport
  <2>3. phase \in [Shards -> Phases] /\ error \in [Shards -> Errors]
    BY DEF Init, Phases, Errors
  <2> QED BY <2>1, <2>2, <2>3 DEF Init, TypeOK
<1>2. {s \in Shards : phase[s] \in InPool} = {}
  BY DEF Init, InPool
<1>3. PoolAccounted
  BY <1>2, FS_EmptySet DEF Init, PoolAccounted
<1>4. HotIsBounded
  BY DEF Init, HotIsBounded, Hot
<1>5. ResultsByPhase /\ WhoCancels /\ SnapshotHolds
  BY DEF Init, ResultsByPhase, WhoCancels, Written, NoReport, SnapshotHolds
<1> QED BY <1>1, <1>3, <1>4, <1>5 DEF IInv

LEMMA Inductive == IInv /\ [Next]_vars => IInv'
<1> SUFFICES ASSUME IInv, [Next]_vars PROVE IInv'
  OBVIOUS
<1>1. CASE UNCHANGED vars
  BY <1>1 DEF vars, IInv, TypeOK, PoolAccounted, HotIsBounded, Hot, ResultsByPhase, Honest,
              SnapshotHolds, WhoCancels
<1>2. ASSUME NEW s \in Shards, ShardStep(s) PROVE IInv'
  BY <1>2, AcquireStep, StartStep, SkipStep, WorkStep, CLIStep, OutcomeStep, StopStep, LeaveStep
  DEF ShardStep
<1> QED BY <1>1, <1>2, CollectStep, InterruptStep DEF Next

LEMMA Invariance == Spec => []IInv
BY Initially, Inductive, PTL DEF Spec

(***************************************************************************)
(* The theorems                                                            *)
(***************************************************************************)

\* Every reachable state of a sharded run is well typed; the pool never holds
\* more than max_parallel shards.
THEOREM TypeCorrect == Spec => []TypeOK
<1>1. IInv => TypeOK
  BY DEF IInv
<1> QED BY <1>1, Invariance, PTL

\* Every goroutine gives its slot back exactly once, however it ends.
THEOREM PoolIsAccounted == Spec => []PoolAccounted
<1>1. IInv => PoolAccounted
  BY DEF IInv
<1> QED BY <1>1, Invariance, PTL

\* With on_shard_error=stop no more shards fail than fit into the pool: whoever
\* was waiting when the first failure was noticed is skipped.
THEOREM FailuresAreBounded == Spec => []StopBoundsFailures
<1> DEFINE Failed == {s \in Shards : error[s] = "failed"}
<1>1. ASSUME IInv, policy = "stop" PROVE Cardinality(Failed) <= MaxParallel
  <2>1. Cardinality(Failed) <= Cardinality(Hot)
    BY ShardsFinite, FS_Subset DEF Hot
  <2>2. Cardinality(Failed) \in Nat /\ Cardinality(Hot) \in Nat
    BY ShardsFinite DEF Hot
  <2> QED BY <1>1, <2>1, <2>2, HotInPool, ShardAssumption
<1>2. IInv => StopBoundsFailures
  BY <1>1 DEF StopBoundsFailures
<1> QED BY <1>2, Invariance, PTL

\* With on_shard_error=continue no shard of an uninterrupted run is skipped.
THEOREM EveryShardRuns == Spec => []ContinueRunsAll
<1>1. IInv => ContinueRunsAll
  BY DEF IInv, ContinueRunsAll, ResultsByPhase, WhoCancels
<1> QED BY <1>1, Invariance, PTL

(***************************************************************************)
(* Sums.  MapThenSumSet takes a set apart in the order CHOOSE gives; the   *)
(* lemmas say that every order gives the same sum, by the smallest set for *)
(* which it would not.                                                     *)
(***************************************************************************)

\* f gives the sum of c over every subset of S.
Sums(c, S, f) ==
  f = [T \in SUBSET S |-> IF T = {} THEN 0
                          ELSE LET x == CHOOSE x \in T : TRUE IN c[x] + f[T \ {x}]]

LEMMA LessIsWellFounded ==
  IsWellFoundedOn({ss \in Nat \X Nat : ss[1] < ss[2]}, Nat)
BY ONLY NatLessThanWellFounded, Zenon DEF OpToRel

LEMMA Smallest ==
  ASSUME NEW S \in SUBSET Nat, S # {}
  PROVE  \E x \in S : \A y \in S : x <= y
<1> DEFINE less == {ss \in Nat \X Nat : ss[1] < ss[2]}
<1>1. PICK x \in S : \A y \in S : <<y, x>> \notin less
  <2> HIDE DEF less
  <2> QED BY LessIsWellFounded, WFMin DEF less
<1>2. \A y \in S : y < x => <<y, x>> \in less
  OBVIOUS
<1> HIDE DEF less
<1>3. \A y \in S : ~ (y < x) /\ y \in Nat
  BY <1>1, <1>2
<1> QED BY <1>3

\* A nonempty family of subsets of a finite set has one of which every element
\* can be removed without staying in the family.
LEMMA SmallestSet ==
  ASSUME NEW S, IsFiniteSet(S), NEW D \in SUBSET (SUBSET S), D # {}
  PROVE  \E T \in D : \A x \in T : T \ {x} \notin D
<1>1. \A T \in SUBSET S : IsFiniteSet(T) /\ Cardinality(T) \in Nat
  BY FS_Subset, FS_CardinalityType
<1> DEFINE sizes == {Cardinality(T) : T \in D}
<1>2. sizes \in SUBSET Nat /\ sizes # {}
  BY <1>1
<1>3. PICK n \in sizes : \A m \in sizes : n <= m
  BY <1>2, Smallest
<1>4. PICK T \in D : n = Cardinality(T)
  OBVIOUS
<1>5. ASSUME NEW x \in T, T \ {x} \in D PROVE FALSE
  <2>1. Cardinality(T \ {x}) = Cardinality(T) - 1
    BY <1>1, FS_RemoveElement
  <2>2. n <= Cardinality(T \ {x})
    BY <1>3, <1>5
  <2> QED BY <1>1, <1>4, <2>1, <2>2
<1> QED BY <1>5

LEMMA SumsUnfold ==
  ASSUME NEW c, NEW S, NEW f, Sums(c, S, f)
  PROVE  /\ f[{}] = 0
         /\ \A T \in SUBSET S : T # {} =>
              \E x \in T : x = (CHOOSE y \in T : TRUE) /\ f[T] = c[x] + f[T \ {x}]
<1>1. f[{}] = 0
  BY DEF Sums
<1>2. ASSUME NEW T \in SUBSET S, T # {}
      PROVE  f[T] = c[CHOOSE y \in T : TRUE] + f[T \ {CHOOSE y \in T : TRUE}]
  BY <1>2 DEF Sums
<1>3. ASSUME NEW T \in SUBSET S, T # {} PROVE (CHOOSE y \in T : TRUE) \in T
  BY <1>3
<1> QED BY <1>1, <1>2, <1>3

\* f sums up the subsets with n elements at most.
SumsTo(c, S, f, n) ==
  \A T \in SUBSET S : Cardinality(T) <= n =>
    f[T] = IF T = {} THEN 0 ELSE c[CHOOSE x \in T : TRUE] + f[T \ {CHOOSE x \in T : TRUE}]

LEMMA SumsExist ==
  ASSUME NEW S, IsFiniteSet(S), NEW c, \A s \in S : c[s] \in Nat
  PROVE  \E f : Sums(c, S, f)
<1>1. \A T \in SUBSET S : IsFiniteSet(T) /\ Cardinality(T) \in Nat
  BY FS_Subset, FS_CardinalityType
<1> DEFINE ok(n) == \E f \in [SUBSET S -> Nat] : SumsTo(c, S, f, n)
<1> DEFINE next(f) == [T \in SUBSET S |-> IF T = {} THEN 0
              ELSE c[CHOOSE x \in T : TRUE] + f[T \ {CHOOSE x \in T : TRUE}]]
<1>2. ASSUME NEW f \in [SUBSET S -> Nat] PROVE next(f) \in [SUBSET S -> Nat]
  <2>1. ASSUME NEW T \in SUBSET S, T # {} PROVE (CHOOSE x \in T : TRUE) \in T
    BY <2>1
  <2>2. ASSUME NEW T \in SUBSET S, T # {}
        PROVE  c[CHOOSE x \in T : TRUE] + f[T \ {CHOOSE x \in T : TRUE}] \in Nat
    <3>1. c[CHOOSE x \in T : TRUE] \in Nat
      BY <2>1, <2>2
    <3>2. f[T \ {CHOOSE x \in T : TRUE}] \in Nat
      BY <2>2
    <3> QED BY <3>1, <3>2
  <2> QED BY <2>2
<1>3. ok(0)
  <2> DEFINE zero == [T \in SUBSET S |-> 0]
  <2>1. zero \in [SUBSET S -> Nat]
    OBVIOUS
  <2>2. ASSUME NEW T \in SUBSET S, Cardinality(T) <= 0 PROVE T = {}
    BY <1>1, <2>2, FS_EmptySet
  <2>3. SumsTo(c, S, zero, 0)
    BY <2>2 DEF SumsTo
  <2> QED BY <2>1, <2>3
<1>4. ASSUME NEW n \in Nat, ok(n) PROVE ok(n + 1)
  <2>1. PICK f \in [SUBSET S -> Nat] : SumsTo(c, S, f, n)
    BY <1>4
  <2> DEFINE g == next(f)
  <2>2. \A T \in SUBSET S : Cardinality(T) <= n => g[T] = f[T]
    BY <2>1 DEF SumsTo
  <2>3. ASSUME NEW T \in SUBSET S, Cardinality(T) <= n + 1, T # {}
        PROVE  g[T \ {CHOOSE x \in T : TRUE}] = f[T \ {CHOOSE x \in T : TRUE}]
    <3> DEFINE y == CHOOSE x \in T : TRUE
    <3>1. y \in T
      BY <2>3
    <3> HIDE DEF y
    <3>2. Cardinality(T \ {y}) = Cardinality(T) - 1
      BY <1>1, <3>1, FS_RemoveElement
    <3>3. T \ {y} \in SUBSET S /\ Cardinality(T \ {y}) <= n
      BY <1>1, <2>3, <3>2
    <3> HIDE DEF g
    <3>4. g[T \ {y}] = f[T \ {y}]
      BY <2>2, <3>3
    <3> QED BY <3>4 DEF y
  <2>4. ASSUME NEW T \in SUBSET S, Cardinality(T) <= n + 1
        PROVE  g[T] = IF T = {} THEN 0
                      ELSE c[CHOOSE x \in T : TRUE] + g[T \ {CHOOSE x \in T : TRUE}]
    <3>1. g[T] = IF T = {} THEN 0
                 ELSE c[CHOOSE x \in T : TRUE] + f[T \ {CHOOSE x \in T : TRUE}]
      OBVIOUS
    <3> HIDE DEF g
    <3> QED BY <2>3, <2>4, <3>1
  <2>5. g \in [SUBSET S -> Nat]
    BY <1>2
  <2> HIDE DEF g
  <2>6. SumsTo(c, S, g, n + 1)
    BY <2>4 DEF SumsTo
  <2> QED BY <2>5, <2>6
<1>5. \A n \in Nat : ok(n)
  <2> DEFINE bad == {n \in Nat : ~ok(n)}
  <2> SUFFICES ASSUME bad # {} PROVE FALSE
    OBVIOUS
  <2> HIDE DEF ok
  <2>1. PICK n \in bad : \A m \in bad : n <= m
    BY Smallest
  <2>2. n \in Nat /\ n # 0
    BY <1>3
  <2>3. n - 1 \in Nat /\ n - 1 \notin bad /\ (n - 1) + 1 = n
    BY <2>1, <2>2
  <2>4. ok(n - 1)
    BY <2>3
  <2>5. ok((n - 1) + 1)
    BY <1>4, <2>3, <2>4
  <2> QED BY <2>1, <2>3, <2>5
<1>6. PICK f \in [SUBSET S -> Nat] : SumsTo(c, S, f, Cardinality(S))
  BY <1>1, <1>5
<1>7. \A T \in SUBSET S : Cardinality(T) <= Cardinality(S)
  BY FS_Subset
<1>8. \A T \in SUBSET S : f[T] = next(f)[T]
  BY <1>6, <1>7 DEF SumsTo
<1>9. f = next(f)
  BY <1>2, <1>8
<1>10. Sums(c, S, f)
  BY <1>9 DEF Sums
<1> QED BY <1>10

LEMMA TotalIsSum ==
  ASSUME NEW S, IsFiniteSet(S), NEW c, \A s \in S : c[s] \in Nat
  PROVE  \E f : Sums(c, S, f) /\ Total(c, S) = f[S]
<1> DEFINE f == CHOOSE f : Sums(c, S, f)
<1>1. Sums(c, S, f)
  BY SumsExist
<1>2. Total(c, S) = f[S]
  BY DEF Total, MapThenSumSet, MapThenFoldSet, Sums
<1> QED BY <1>1, <1>2

LEMMA SumsType ==
  ASSUME NEW S, IsFiniteSet(S), NEW c, \A s \in S : c[s] \in Nat, NEW f, Sums(c, S, f)
  PROVE  \A T \in SUBSET S : f[T] \in Nat
<1> DEFINE bad == {T \in SUBSET S : f[T] \notin Nat}
<1> SUFFICES ASSUME bad # {} PROVE FALSE
  OBVIOUS
<1>1. PICK T \in bad : \A x \in T : T \ {x} \notin bad
  <2>1. bad \in SUBSET (SUBSET S)
    OBVIOUS
  <2> HIDE DEF bad
  <2> QED BY <2>1, SmallestSet
<1>2. f[{}] = 0
  BY SumsUnfold
<1>3. T # {}
  BY <1>2
<1>4. PICK x \in T : f[T] = c[x] + f[T \ {x}]
  BY <1>3, SumsUnfold
<1>5. f[T \ {x}] \in Nat /\ c[x] \in Nat
  BY <1>1, <1>4
<1> QED BY <1>4, <1>5

\* Any element may be the first.
LEMMA SumsRemove ==
  ASSUME NEW S, IsFiniteSet(S), NEW c, \A s \in S : c[s] \in Nat, NEW f, Sums(c, S, f)
  PROVE  \A T \in SUBSET S : \A x \in T : f[T] = c[x] + f[T \ {x}]
<1> DEFINE bad == {T \in SUBSET S : \E x \in T : f[T] # c[x] + f[T \ {x}]}
<1> SUFFICES ASSUME bad # {} PROVE FALSE
  OBVIOUS
<1>1. PICK T \in bad : \A x \in T : T \ {x} \notin bad
  <2>1. bad \in SUBSET (SUBSET S)
    OBVIOUS
  <2> HIDE DEF bad
  <2> QED BY <2>1, SmallestSet
<1>2. PICK x \in T : f[T] # c[x] + f[T \ {x}]
  OBVIOUS
<1>3. PICK y \in T : f[T] = c[y] + f[T \ {y}]
  BY <1>2, SumsUnfold
<1>4. x # y
  BY <1>2, <1>3
<1>5. f[T \ {y}] = c[x] + f[(T \ {y}) \ {x}]
  BY <1>1, <1>4
<1>6. f[T \ {x}] = c[y] + f[(T \ {x}) \ {y}]
  BY <1>1, <1>4
<1>7. (T \ {y}) \ {x} = (T \ {x}) \ {y}
  OBVIOUS
<1>8. f[(T \ {x}) \ {y}] \in Nat /\ c[x] \in Nat /\ c[y] \in Nat
  BY SumsType
<1>9. /\ f[T] = c[y] + (c[x] + f[(T \ {x}) \ {y}])
      /\ c[x] + f[T \ {x}] = c[x] + (c[y] + f[(T \ {x}) \ {y}])
  BY <1>3, <1>5, <1>6, <1>7
<1>10. \A i, j, k \in Nat : i + (j + k) = j + (i + k)
  OBVIOUS
<1> HIDE DEF bad
<1> QED BY <1>2, <1>8, <1>9, <1>10

\* What has no cost can be left out.
LEMMA TotalWithoutZeros ==
  ASSUME NEW S, IsFiniteSet(S), NEW c, \A s \in S : c[s] \in Nat, NEW M \in SUBSET S,
         \A s \in S \ M : c[s] = 0
  PROVE  Total(c, M) = Total(c, S)
<1>1. PICK f : Sums(c, S, f) /\ Total(c, S) = f[S]
  BY TotalIsSum
<1>2. IsFiniteSet(M)
  BY FS_Subset
<1>3. PICK g : Sums(c, M, g) /\ Total(c, M) = g[M]
  BY <1>2, TotalIsSum
<1> DEFINE bad == {T \in SUBSET S : f[T] # g[T \cap M]}
<1>4. bad = {}
  <2> SUFFICES ASSUME bad # {} PROVE FALSE
    OBVIOUS
  <2>1. PICK T \in bad : \A x \in T : T \ {x} \notin bad
    <3>1. bad \in SUBSET (SUBSET S)
      OBVIOUS
    <3> HIDE DEF bad
    <3> QED BY <3>1, SmallestSet
  <2>2. f[{}] = 0 /\ g[{}] = 0
    BY <1>1, <1>3, SumsUnfold
  <2>3. T # {}
    BY <2>2
  <2>4. PICK x \in T : f[T] = c[x] + f[T \ {x}]
    BY <1>1, <2>3, SumsUnfold
  <2>5. f[T \ {x}] = g[(T \ {x}) \cap M]
    BY <2>1, <2>4
  <2>6. CASE x \in M
    <3>1. g[T \cap M] = c[x] + g[(T \cap M) \ {x}]
      BY <1>2, <1>3, <2>6, SumsRemove
    <3>2. (T \cap M) \ {x} = (T \ {x}) \cap M
      BY <2>6
    <3>3. f[T] = g[T \cap M]
      BY <2>4, <2>5, <3>1, <3>2
    <3> QED BY <2>1, <3>3
  <2>7. CASE x \notin M
    <3>1. (T \ {x}) \cap M = T \cap M /\ c[x] = 0
      BY <2>7
    <3>2. f[T \ {x}] \in Nat
      BY <1>1, SumsType
    <3>3. f[T] = f[T \ {x}]
      BY <2>4, <3>1, <3>2
    <3>4. f[T] = g[T \cap M]
      BY <2>5, <3>1, <3>3
    <3> QED BY <2>1, <3>4
  <2> QED BY <2>6, <2>7
<1>5. f[S] = g[S \cap M] /\ S \cap M = M
  BY <1>4
<1> QED BY <1>1, <1>3, <1>5

(***************************************************************************)
(* The summary                                                             *)
(***************************************************************************)

\* A shard costs nothing before its loop starts, and only one that never called
\* the model leaves no metrics.
CostSettled ==
  \A s \in Shards :
    /\ phase[s] \in {"queued", "holding"} => cost[s] = 0
    /\ phase[s] \in Written => metered[s] \/ cost[s] = 0

SummaryInv == CostSettled /\ SummaryIsHonest

\* What a shard's step leaves behind, its cost and its metrics.
LEMMA ShardStepCosts ==
  ASSUME IInv, CostSettled, NEW s \in Shards, ShardStep(s)
  PROVE  CostSettled'
<1>1. /\ phase \in [Shards -> Phases] /\ cost \in [Shards -> Nat]
      /\ metered \in [Shards -> BOOLEAN]
  BY DEF IInv, TypeOK
<1>2. CASE Acquire(s) \/ Start(s) \/ Skip(s) \/ Stop(s) \/ Leave(s)
  <2>1. UNCHANGED <<cost, metered>>
    BY <1>2 DEF Acquire, Start, Skip, Stop, Leave
  <2>2. /\ \A t \in Shards : t # s => phase'[t] = phase[t]
        /\ phase'[s] \in {"queued", "holding"} => phase[s] = "queued"
        /\ phase'[s] \in Written => phase[s] \in {"holding"} \cup Written
    BY <1>1, <1>2 DEF Acquire, Start, Skip, Stop, Leave, Move, Written
  <2> QED BY <2>1, <2>2 DEF CostSettled
<1>3. CASE ModelCall(s) \/ Edit(s) \/ CLIEdit(s) \/ CLICommit(s)
  <2>1. phase[s] = "running" /\ UNCHANGED <<phase, metered>>
    BY <1>3 DEF ModelCall, Edit, CLIEdit, CLICommit
  <2>2. \A t \in Shards : t # s => cost'[t] = cost[t]
    BY <1>1, <1>3 DEF ModelCall, Edit, CLIEdit, CLICommit
  <2> QED BY <2>1, <2>2 DEF CostSettled, Written
<1>4. CASE BuildFails(s) \/ Answer(s) \/ CLIAnswer(s) \/ RunFails(s) \/ BudgetFails(s)
  <2>1. /\ \A t \in Shards : t # s => /\ phase'[t] = phase[t]
                                      /\ metered'[t] = metered[t]
        /\ phase'[s] = "reported"
    BY <1>1, <1>4 DEF BuildFails, Answered, Answer, CLIAnswer, RunFails, BudgetFails, Write, Move
  <2>2. \A t \in Shards : t # s => cost'[t] = cost[t]
    BY <1>1, <1>4 DEF BuildFails, Answer, CLIAnswer, RunFails, BudgetFails
  <2>3. metered'[s] \/ cost'[s] = 0
    BY <1>1, <1>4 DEF BuildFails, Answered, Answer, CLIAnswer, RunFails, BudgetFails, Write
  <2> QED BY <2>1, <2>2, <2>3 DEF CostSettled, Written
<1> QED BY <1>2, <1>3, <1>4 DEF ShardStep

\* The merge counts every shard once and loses no cost.
LEMMA CollectIsHonest ==
  ASSUME IInv, CostSettled, Collect
  PROVE  SummaryIsHonest'
<1>1. UNCHANGED <<cost, error, applied, metered>> /\ \A s \in Shards : phase[s] = "done"
  BY DEF Collect
<1> DEFINE M == {s \in Shards : metered[s]}
           E == {s \in Shards \ FailedShards : applied[s]}
           C == {s \in Shards \ FailedShards : ~applied[s]}
<1>2. /\ report'.total = Total(cost, M)
      /\ report'.failed = Cardinality(FailedShards)
      /\ report'.edited = Cardinality(E) /\ report'.clean = Cardinality(C)
  BY DEF Collect, Report
<1>3. report'.total = Total(cost, Shards)
  <2>1. \A s \in Shards : cost[s] \in Nat
    BY DEF IInv, TypeOK
  <2>2. M \in SUBSET Shards /\ \A s \in Shards \ M : cost[s] = 0
    BY <1>1 DEF CostSettled, Written
  <2> QED BY <1>2, <2>1, <2>2, ShardsFinite, TotalWithoutZeros
<1>4. Cardinality(FailedShards) > 0 <=> \E s \in Shards : error[s] # "none"
  <2>1. FailedShards \in SUBSET Shards
    BY DEF FailedShards, Failing
  <2>2. Cardinality(FailedShards) = 0 <=> FailedShards = {}
    BY <2>1, ShardsFinite, FS_EmptySet
  <2> QED BY <2>1, <2>2, ShardsFinite DEF FailedShards, Failing
<1>5. Cardinality(FailedShards) + Cardinality(E) + Cardinality(C) = ShardCount
  <2>1. /\ FailedShards \in SUBSET Shards /\ E \in SUBSET Shards /\ C \in SUBSET Shards
        /\ FailedShards \cap E = {} /\ (FailedShards \cup E) \cap C = {}
        /\ (FailedShards \cup E) \cup C = Shards
    BY DEF FailedShards, Failing
  <2> HIDE DEF E, C
  <2>2. /\ IsFiniteSet(FailedShards) /\ Cardinality(FailedShards) \in Nat
        /\ IsFiniteSet(E) /\ Cardinality(E) \in Nat
        /\ IsFiniteSet(C) /\ Cardinality(C) \in Nat
    BY <2>1, ShardsFinite
  <2>3. /\ IsFiniteSet(FailedShards \cup E)
        /\ Cardinality(FailedShards \cup E) = Cardinality(FailedShards) + Cardinality(E) - Cardinality({})
    BY <2>1, <2>2, FS_Union
  <2>4. Cardinality(Shards) = Cardinality(FailedShards \cup E) + Cardinality(C) - Cardinality({})
    BY <2>1, <2>2, <2>3, FS_Union
  <2>5. Cardinality(Shards) = ShardCount
    BY ShardAssumption, FS_Interval DEF Shards
  <2> QED BY <2>2, <2>3, <2>4, <2>5, FS_EmptySet
<1> QED BY <1>1, <1>2, <1>3, <1>4, <1>5 DEF SummaryIsHonest

\* After the merge nothing moves.
LEMMA SummaryStep == IInv /\ SummaryInv /\ [Next]_vars => SummaryInv'
<1> SUFFICES ASSUME IInv, SummaryInv, [Next]_vars PROVE SummaryInv'
  OBVIOUS
<1>1. CASE UNCHANGED vars
  BY <1>1 DEF vars, SummaryInv, CostSettled, SummaryIsHonest
<1>2. ASSUME NEW s \in Shards, ShardStep(s) PROVE SummaryInv'
  <2>1. UNCHANGED report /\ ~report.returned
    <3>1. phase[s] # "done" /\ UNCHANGED report
      BY <1>2 DEF ShardStep, Acquire, Start, Skip, ModelCall, Edit, CLIEdit, CLICommit,
                  BuildFails, Answer, CLIAnswer, RunFails, BudgetFails, Stop, Leave
    <3> QED BY <3>1 DEF IInv, ResultsByPhase
  <2> QED BY <1>2, <2>1, ShardStepCosts DEF SummaryInv, SummaryIsHonest
<1>3. CASE Collect
  <2>1. CostSettled'
    BY <1>3 DEF Collect, SummaryInv, CostSettled
  <2> QED BY <1>3, <2>1, CollectIsHonest DEF SummaryInv
<1>4. CASE Interrupt
  <2>1. UNCHANGED <<phase, cost, metered, error, report>> /\ ~report.returned
    BY <1>4 DEF Interrupt
  <2> QED BY <2>1 DEF SummaryInv, CostSettled, SummaryIsHonest
<1> QED BY <1>1, <1>2, <1>3, <1>4 DEF Next

\* The merged metrics hold the cost of every shard, however it ended, the run
\* fails exactly when a shard did not do its work, and the summary counts every
\* shard once (runSharded, summarize).
THEOREM SummarySound == Spec => []SummaryIsHonest
<1>1. Init => SummaryInv
  BY DEF Init, SummaryInv, CostSettled, SummaryIsHonest, Written, NoReport
<1>2. IInv /\ IInv' /\ SummaryInv /\ [Next]_vars => SummaryInv'
  BY SummaryStep
<1>3. SummaryInv => SummaryIsHonest
  BY DEF SummaryInv
<1> QED BY <1>1, <1>2, <1>3, Invariance, PTL DEF Spec

(* What the run reports of its shards is so: a shard that passes and is     *)
(* reported edited recorded the edit itself, or, with a CLI, ran while the  *)
(* tree was changed or in a run that was cancelled; a claim passes under    *)
(* --require-actionable only then; and the summary adds up (runOneShard,    *)
(* validateShard, runSharded, summarize).                                   *)
THEOREM OutcomesSound == Spec => []OutcomesAreHonest
<1>1. IInv => PassingShardsAreHonest
  BY DEF IInv, PassingShardsAreHonest, ResultsByPhase, Written, Honest
<1>2. PassingShardsAreHonest /\ SummaryIsHonest => OutcomesAreHonest
  BY DEF OutcomesAreHonest
<1> QED BY <1>1, <1>2, Invariance, SummarySound, PTL

-----------------------------------------------------------------------------
(***************************************************************************)
(* How the work-list is cut: ShardSplit, for any files and directories,    *)
(* any matches of any number of patterns and any size of a batch.          *)
(***************************************************************************)
CONSTANTS Files, MaxMatches, MaxBatch
VARIABLES next, out, groups

Sp == INSTANCE ShardSplit

\* The files of the first places of a sequence.
Upto(s, n) == {s[i] : i \in {i \in DOMAIN s : i < n}}

Wanted == ToSet(matches) \ Unwanted

\* The work-list holds what was wanted so far, once.
GlobInv ==
  /\ matches \in Seq(Files) /\ shardBy \in {"file", "package"} /\ size \in Nat \ {0}
  /\ pc \in {"glob", shardBy, "done"} /\ next \in Nat \ {0}
  /\ out \in Seq(Files) /\ IsInjective(out)
  /\ pc = "glob" => ToSet(out) = Upto(matches, next) \ Unwanted
  /\ pc # "glob" => ToSet(out) = Wanted

\* The shards hold the files before the next batch, once; only the last batch is short.
BatchInv ==
  /\ shards \in Seq(Seq(Files)) /\ FilesAreApart
  /\ UNION {ToSet(shards[i]) : i \in DOMAIN shards} = Upto(out, next)
  /\ \A i \in DOMAIN shards :
       /\ Len(shards[i]) \in 1..size
       /\ i < Len(shards) \/ next <= Len(out) => Len(shards[i]) = size

\* A group holds the files of its directory that were visited, once.
GroupInv ==
  /\ groups \in [Sp!Dirs -> Seq(Files)]
  /\ \A d \in Sp!Dirs : /\ ToSet(groups[d]) = {f \in Upto(out, next) : Dir[f] = d}
                        /\ IsInjective(groups[d])

SplitInv ==
  /\ GlobInv
  /\ pc = "glob" => shards = <<>> /\ groups = [d \in Sp!Dirs |-> <<>>]
  /\ pc = "file" => BatchInv
  /\ pc = "package" => GroupInv
  /\ ShardsPartitionFiles

USE DEF Sp!vars, Sp!input

LEMMA SplitInit == ASSUME Sp!ShardSplitAssumption, Sp!Init PROVE SplitInv
<1>1. matches \in Seq(Files)
  <2>1. PICK m \in 0..MaxMatches : matches \in [1..m -> Files]
    BY DEF Sp!Init, Sp!BoundedSeq, Sp!SeqOf
  <2> QED BY <2>1
<1>2. /\ shardBy \in {"file", "package"} /\ size \in Nat \ {0} /\ pc = "glob" /\ next = 1
      /\ out = <<>> /\ shards = <<>> /\ groups = [d \in Sp!Dirs |-> <<>>]
  BY DEF Sp!Init, Sp!ShardSplitAssumption
<1>3. ToSet(out) = {} /\ Upto(matches, next) = {} /\ IsInjective(out)
  BY <1>1, <1>2 DEF ToSet, Upto, IsInjective
<1> QED BY <1>1, <1>2, <1>3 DEF SplitInv, GlobInv, ShardsPartitionFiles

LEMMA Appended ==
  ASSUME NEW S, NEW s \in Seq(S), NEW x \in S
  PROVE  /\ Append(s, x) \in Seq(S)
         /\ ToSet(Append(s, x)) = ToSet(s) \cup {x}
         /\ IsInjective(s) /\ x \notin ToSet(s) => IsInjective(Append(s, x))
<1>1. /\ DOMAIN s = 1..Len(s) /\ Len(s) \in Nat /\ Append(s, x) \in Seq(S)
      /\ DOMAIN Append(s, x) = 1..(Len(s) + 1)
      /\ \A i \in 1..Len(s) : Append(s, x)[i] = s[i]
      /\ Append(s, x)[Len(s) + 1] = x
  OBVIOUS
<1>2. /\ \A i \in DOMAIN s : i \in DOMAIN Append(s, x) /\ Append(s, x)[i] = s[i]
      /\ \A i \in DOMAIN Append(s, x) : i \in DOMAIN s \/ i = Len(s) + 1
      /\ Len(s) + 1 \in DOMAIN Append(s, x)
  BY <1>1
<1>3. ToSet(Append(s, x)) = ToSet(s) \cup {x}
  BY <1>1, <1>2 DEF ToSet
<1>4. IsInjective(s) /\ x \notin ToSet(s) => IsInjective(Append(s, x))
  <2> SUFFICES ASSUME IsInjective(s), x \notin ToSet(s), NEW i \in DOMAIN Append(s, x),
                      NEW j \in DOMAIN Append(s, x), Append(s, x)[i] = Append(s, x)[j]
               PROVE  i = j
    BY DEF IsInjective
  <2>1. \A k \in DOMAIN s : s[k] # x
    BY DEF ToSet
  <2> QED BY <1>1, <1>2, <2>1 DEF IsInjective
<1> QED BY <1>1, <1>3, <1>4

LEMMA Stepped ==
  ASSUME NEW S, NEW s \in Seq(S), NEW n \in Nat \ {0}
  PROVE  /\ n \in DOMAIN s => Upto(s, n + 1) = Upto(s, n) \cup {s[n]}
         /\ n > Len(s) => Upto(s, n) = ToSet(s)
BY DEF Upto, ToSet

LEMMA VisitSplits == ASSUME SplitInv, Sp!Visit PROVE SplitInv'
<1>1. /\ pc = "glob" /\ next <= Len(matches) /\ next' = next + 1
      /\ out' = IF matches[next] \in Unwanted \cup ToSet(out) THEN out ELSE Append(out, matches[next])
      /\ UNCHANGED <<matches, shardBy, size, pc, groups, shards>>
  BY DEF Sp!Visit, Sp!ToSet, ToSet
<1>2. GlobInv /\ shards = <<>> /\ groups = [d \in Sp!Dirs |-> <<>>]
  BY <1>1 DEF SplitInv
<1>3. next \in DOMAIN matches /\ next \in Nat \ {0} /\ matches[next] \in Files
  BY <1>1, <1>2 DEF GlobInv
<1>4. Upto(matches, next + 1) = Upto(matches, next) \cup {matches[next]}
  BY <1>2, <1>3, Stepped DEF GlobInv
<1>5. /\ out' \in Seq(Files) /\ IsInjective(out')
      /\ ToSet(out') = Upto(matches, next + 1) \ Unwanted
  <2>1. CASE matches[next] \in Unwanted \cup ToSet(out)
    BY <1>1, <1>2, <1>4, <2>1 DEF GlobInv
  <2>2. CASE matches[next] \notin Unwanted \cup ToSet(out)
    <3>1. out' = Append(out, matches[next])
      BY <1>1, <2>2
    <3>2. /\ Append(out, matches[next]) \in Seq(Files)
          /\ ToSet(Append(out, matches[next])) = ToSet(out) \cup {matches[next]}
          /\ IsInjective(Append(out, matches[next]))
      BY <1>1, <1>2, <1>3, <2>2, Appended DEF GlobInv
    <3>3. ToSet(out) = Upto(matches, next) \ Unwanted
      BY <1>1, <1>2 DEF GlobInv
    <3> QED BY <1>4, <2>2, <3>1, <3>2, <3>3
  <2> QED BY <2>1, <2>2
<1>6. next' \in Nat \ {0}
  BY <1>1, <1>3
<1>7. GlobInv'
  <2>1. Upto(matches', next') = Upto(matches, next + 1) /\ ToSet(out)' = ToSet(out')
    BY <1>1 DEF ToSet
  <2>2. IsInjective(out)'
    BY <1>5 DEF IsInjective
  <2> QED BY <1>1, <1>2, <1>5, <1>6, <2>1, <2>2 DEF GlobInv
<1>8. pc' = "glob" /\ shards' = <<>> /\ groups' = [d \in Sp!Dirs |-> <<>>]
  BY <1>1, <1>2
<1> QED BY <1>7, <1>8 DEF SplitInv, ShardsPartitionFiles

\* Sorting moves what is in the list, and repeats nothing.
LEMMA Sorting ==
  ASSUME NEW s \in Seq(Files), IsInjective(s), NEW t \in Sp!Sorted(s)
  PROVE  t \in Seq(Files) /\ IsInjective(t) /\ ToSet(t) = ToSet(s)
<1>1. PICK p \in Sp!Bijection(DOMAIN s, DOMAIN s) : t = [i \in DOMAIN s |-> s[p[i]]]
  BY DEF Sp!Sorted
<1>2. /\ p \in [DOMAIN s -> DOMAIN s]
      /\ \A i, j \in DOMAIN s : p[i] = p[j] => i = j
      /\ \A j \in DOMAIN s : \E i \in DOMAIN s : p[i] = j
  BY <1>1 DEF Sp!Bijection, Sp!Injection, Sp!Surjection, Sp!IsInjective
<1>3. t \in Seq(Files)
  <2>1. t \in [1..Len(s) -> Files] /\ Len(s) \in Nat
    BY <1>1, <1>2
  <2> QED BY <2>1
<1>4. IsInjective(t)
  BY <1>1, <1>2 DEF IsInjective
<1>5. ToSet(t) = ToSet(s)
  BY <1>1, <1>2 DEF ToSet
<1> QED BY <1>3, <1>4, <1>5

LEMMA EndGlobSplits == ASSUME SplitInv, Sp!EndGlob PROVE SplitInv'
<1>1. /\ pc = "glob" /\ next > Len(matches) /\ next' = 1 /\ pc' = shardBy
      /\ out' \in Sp!Sorted(out)
      /\ UNCHANGED <<matches, shardBy, size, groups, shards>>
  BY DEF Sp!EndGlob
<1>2. GlobInv /\ shards = <<>> /\ groups = [d \in Sp!Dirs |-> <<>>]
  BY <1>1 DEF SplitInv
<1>3. out' \in Seq(Files) /\ IsInjective(out') /\ ToSet(out') = ToSet(out)
  BY <1>1, <1>2, Sorting DEF GlobInv
<1>4. ToSet(out) = Wanted
  BY <1>1, <1>2, Stepped DEF GlobInv, Wanted
<1>5. Wanted' = Wanted /\ ToSet(out)' = ToSet(out') /\ IsInjective(out)'
  BY <1>1, <1>3 DEF Wanted, ToSet, IsInjective
<1>6. shardBy' \in {"file", "package"} /\ pc' = shardBy' /\ pc' # "glob" /\ pc' # "done"
  BY <1>1, <1>2 DEF GlobInv
<1>7. GlobInv'
  BY <1>1, <1>2, <1>3, <1>4, <1>5, <1>6 DEF GlobInv
<1>8. Upto(out', next') = {}
  BY <1>1, <1>3 DEF Upto
<1>9. BatchInv'
  <2>1. shards' = <<>>
    BY <1>1, <1>2
  <2> QED BY <1>8, <2>1 DEF BatchInv, FilesAreApart
<1>10. GroupInv'
  <2>1. groups' = [d \in Sp!Dirs |-> <<>>] /\ Sp!Dirs' = Sp!Dirs
    BY <1>1, <1>2 DEF Sp!Dirs
  <2> QED BY <1>8, <2>1 DEF GroupInv, ToSet, IsInjective
<1> QED BY <1>6, <1>7, <1>9, <1>10 DEF SplitInv, ShardsPartitionFiles

\* A slice of a sequence.
LEMMA Slice ==
  \A S : \A s \in Seq(S) : \A m \in Nat \ {0} : \A n \in m..Len(s) :
    /\ SubSeq(s, m, n) \in Seq(S) /\ Len(SubSeq(s, m, n)) = n - m + 1
    /\ IsInjective(s) => /\ IsInjective(SubSeq(s, m, n))
                         /\ ToSet(SubSeq(s, m, n)) \cap Upto(s, m) = {}
    /\ Upto(s, n + 1) = Upto(s, m) \cup ToSet(SubSeq(s, m, n))
<1> TAKE S
<1> TAKE s \in Seq(S)
<1> TAKE m \in Nat \ {0}
<1> TAKE n \in m..Len(s)
<1> DEFINE b == SubSeq(s, m, n)
<1>1. /\ b \in Seq(S) /\ Len(b) = n - m + 1 /\ DOMAIN b = 1..(n - m + 1)
      /\ \A k \in 1..(n - m + 1) : b[k] = s[m + k - 1]
  BY SMT
<1>2. DOMAIN s = 1..Len(s) /\ Len(s) \in Nat
  OBVIOUS
<1> HIDE DEF b
<1>3. ToSet(b) = {s[k] : k \in m..n}
  <2>1. \A k \in m..n : k - m + 1 \in 1..(n - m + 1) /\ m + (k - m + 1) - 1 = k
    OBVIOUS
  <2>2. \A k \in 1..(n - m + 1) : m + k - 1 \in m..n
    OBVIOUS
  <2>3. \A k \in m..n : \E i \in DOMAIN b : b[i] = s[k]
    BY <1>1, <2>1
  <2>4. \A i \in DOMAIN b : \E k \in m..n : b[i] = s[k]
    BY <1>1, <2>2
  <2>5. ToSet(b) = {b[i] : i \in DOMAIN b}
    BY DEF ToSet
  <2>6. \A x : x \in ToSet(b) <=> x \in {s[k] : k \in m..n}
    <3> TAKE x
    <3>1. x \in ToSet(b) <=> \E i \in DOMAIN b : b[i] = x
      BY <2>5
    <3>2. x \in {s[k] : k \in m..n} <=> \E k \in m..n : s[k] = x
      OBVIOUS
    <3> QED BY <2>3, <2>4, <3>1, <3>2
  <2> QED BY <2>6
<1>4. m..n \subseteq DOMAIN s /\ \A i \in DOMAIN s : i < n + 1 <=> (i < m \/ i \in m..n)
  BY <1>2
<1>5. Upto(s, n + 1) = Upto(s, m) \cup ToSet(b)
  BY <1>3, <1>4 DEF Upto
<1>6. IsInjective(s) => ToSet(b) \cap Upto(s, m) = {}
  BY <1>2, <1>3, <1>4 DEF Upto, IsInjective
<1>7. IsInjective(s) => IsInjective(b)
  <2> SUFFICES ASSUME IsInjective(s), NEW k \in DOMAIN b, NEW l \in DOMAIN b, b[k] = b[l]
               PROVE  k = l
    BY DEF IsInjective
  <2>1. k \in 1..(n - m + 1) /\ l \in 1..(n - m + 1)
    BY <1>1
  <2>2. s[m + k - 1] = s[m + l - 1]
    BY <1>1, <2>1
  <2>3. m + k - 1 \in 1..Len(s) /\ m + l - 1 \in 1..Len(s)
    BY <2>1
  <2>4. m + k - 1 = m + l - 1
    BY <1>2, <2>2, <2>3 DEF IsInjective
  <2> QED BY <2>1, <2>4
<1> QED BY <1>1, <1>5, <1>6, <1>7 DEF b

\* Where a batch ends.
LEMMA EndOfBatch ==
  ASSUME NEW n \in Nat \ {0}, NEW z \in Nat \ {0}, NEW l \in Nat, n <= l
  PROVE  LET e == IF n + z - 1 > l THEN l ELSE n + z - 1
         IN  /\ e \in Nat /\ n <= e /\ e <= l
             /\ e - n + 1 \in 1..z
             /\ n + z <= l => e - n + 1 = z
             /\ \A k \in 1..l : k < n + z <=> k < e + 1
OBVIOUS

LEMMA BatchSplits == ASSUME SplitInv, Sp!ShardSplitAssumption, Sp!Batch PROVE SplitInv'
<1> DEFINE b == SubSeq(out, next, Sp!BatchEnd)
<1>1. /\ pc = "file" /\ next <= Len(out) /\ next' = next + size
      /\ shards' = Append(shards, b)
      /\ UNCHANGED <<matches, shardBy, size, pc, out, groups>>
  BY DEF Sp!Batch
<1>2. GlobInv /\ BatchInv
  BY <1>1 DEF SplitInv
<1>3. /\ out \in Seq(Files) /\ IsInjective(out) /\ shards \in Seq(Seq(Files))
      /\ next \in Nat \ {0} /\ size \in Nat \ {0} /\ Len(out) \in Nat /\ DOMAIN out = 1..Len(out)
  BY <1>2 DEF GlobInv, BatchInv
<1>4. PICK e :
        /\ e = Sp!BatchEnd /\ e \in Nat /\ next <= e /\ e <= Len(out)
        /\ e - next + 1 \in 1..size
        /\ next + size <= Len(out) => e - next + 1 = size
        /\ \A k \in 1..Len(out) : k < next + size <=> k < e + 1
  <2> DEFINE e == IF next + size - 1 > Len(out) THEN Len(out) ELSE next + size - 1
  <2>1. /\ e \in Nat /\ next <= e /\ e <= Len(out)
        /\ e - next + 1 \in 1..size
        /\ next + size <= Len(out) => e - next + 1 = size
        /\ \A k \in 1..Len(out) : k < next + size <=> k < e + 1
    BY <1>1, <1>3, EndOfBatch
  <2>2. e = Sp!BatchEnd
    BY DEF Sp!BatchEnd
  <2> QED BY <2>1, <2>2, Zenon
<1>5. /\ b \in Seq(Files) /\ Len(b) = e - next + 1 /\ IsInjective(b)
      /\ ToSet(b) \cap Upto(out, next) = {}
      /\ Upto(out, e + 1) = Upto(out, next) \cup ToSet(b)
  <2>1. b = SubSeq(out, next, e)
    BY <1>4
  <2>2. out \in Seq(Files) /\ next \in Nat \ {0} /\ e \in next..Len(out)
    BY <1>3, <1>4
  <2>3. \A n \in next..Len(out) :
          /\ SubSeq(out, next, n) \in Seq(Files) /\ Len(SubSeq(out, next, n)) = n - next + 1
          /\ IsInjective(out) => /\ IsInjective(SubSeq(out, next, n))
                                 /\ ToSet(SubSeq(out, next, n)) \cap Upto(out, next) = {}
          /\ Upto(out, n + 1) = Upto(out, next) \cup ToSet(SubSeq(out, next, n))
    BY <2>2, Slice, Zenon
  <2> HIDE DEF b
  <2> QED BY <1>3, <2>1, <2>2, <2>3
<1>6. Upto(out, next + size) = Upto(out, e + 1)
  <2>1. \A k \in DOMAIN out : k < next + size <=> k < e + 1
    BY <1>3, <1>4
  <2> QED BY <2>1 DEF Upto
<1>7. \A k, l \in DOMAIN b : b[k] = b[l] => k = l
  BY <1>5 DEF IsInjective
<1>8. Len(b) \in 1..size /\ (next + size <= Len(out) => Len(b) = size)
  BY <1>3, <1>4, <1>5
<1> HIDE DEF b
<1>10. /\ DOMAIN shards = 1..Len(shards) /\ Len(shards) \in Nat
       /\ DOMAIN shards' = 1..(Len(shards) + 1) /\ shards' \in Seq(Seq(Files))
       /\ \A i \in DOMAIN shards : shards'[i] = shards[i]
       /\ shards'[Len(shards) + 1] = b /\ Len(shards') = Len(shards) + 1
  BY <1>1, <1>3, <1>5
<1>11. /\ DOMAIN shards' = DOMAIN shards \cup {Len(shards) + 1}
       /\ Len(shards) + 1 \notin DOMAIN shards
  BY <1>10
<1>12. (UNION {ToSet(shards[i]) : i \in DOMAIN shards})' = Upto(out, next + size)
  <2>1. {ToSet(shards'[i]) : i \in DOMAIN shards'} =
          {ToSet(shards[i]) : i \in DOMAIN shards} \cup {ToSet(b)}
    BY <1>10, <1>11
  <2>2. UNION {ToSet(shards'[i]) : i \in DOMAIN shards'} =
          (UNION {ToSet(shards[i]) : i \in DOMAIN shards}) \cup ToSet(b)
    BY <2>1
  <2>3. UNION {ToSet(shards'[i]) : i \in DOMAIN shards'} = Upto(out, next + size)
    BY <1>2, <1>5, <1>6, <2>2 DEF BatchInv
  <2> QED BY <2>3 DEF ToSet
<1>13. FilesAreApart'
  <2>1. \A i \in DOMAIN shards : \A k \in DOMAIN shards[i] : shards[i][k] \in Upto(out, next)
    BY <1>2 DEF BatchInv, ToSet
  <2>2. \A k \in DOMAIN b : b[k] \notin Upto(out, next)
    BY <1>5 DEF ToSet
  <2> SUFFICES ASSUME NEW i \in DOMAIN shards', NEW j \in DOMAIN shards',
                      NEW k \in DOMAIN shards'[i], NEW l \in DOMAIN shards'[j],
                      shards'[i][k] = shards'[j][l]
               PROVE  i = j /\ k = l
    BY DEF FilesAreApart
  <2>3. CASE i \in DOMAIN shards /\ j \in DOMAIN shards
    BY <1>2, <1>10, <2>3 DEF BatchInv, FilesAreApart
  <2>4. CASE i = Len(shards) + 1 /\ j = Len(shards) + 1
    BY <1>7, <1>10, <2>4
  <2>5. CASE i \in DOMAIN shards /\ j = Len(shards) + 1
    BY <1>10, <2>1, <2>2, <2>5
  <2>6. CASE i = Len(shards) + 1 /\ j \in DOMAIN shards
    BY <1>10, <2>1, <2>2, <2>6
  <2> QED BY <1>11, <2>3, <2>4, <2>5, <2>6
<1>14. \A i \in DOMAIN shards' :
         /\ Len(shards'[i]) \in 1..size
         /\ i < Len(shards') \/ next' <= Len(out) => Len(shards'[i]) = size
  <2>1. \A i \in DOMAIN shards : Len(shards[i]) = size
    BY <1>1, <1>2 DEF BatchInv
  <2> SUFFICES ASSUME NEW i \in DOMAIN shards'
               PROVE  /\ Len(shards'[i]) \in 1..size
                      /\ i < Len(shards') \/ next' <= Len(out) => Len(shards'[i]) = size
    OBVIOUS
  <2>2. CASE i \in DOMAIN shards
    BY <1>3, <1>10, <2>1, <2>2
  <2>3. CASE i = Len(shards) + 1
    <3>1. shards'[i] = b /\ i = Len(shards')
      BY <1>10, <2>3
    <3>2. ~(i < Len(shards'))
      BY <1>10, <3>1
    <3> QED BY <1>1, <1>8, <3>1, <3>2
  <2> QED BY <1>11, <2>2, <2>3
<1>15. BatchInv'
  BY <1>1, <1>10, <1>12, <1>13, <1>14 DEF BatchInv, Upto
<1>16. GlobInv'
  BY <1>1, <1>2, <1>3 DEF GlobInv, Wanted, Upto, ToSet
<1>17. pc' = "file"
  BY <1>1
<1> QED BY <1>15, <1>16, <1>17 DEF SplitInv, ShardsPartitionFiles

LEMMA EndBatchSplits == ASSUME SplitInv, Sp!EndBatch PROVE SplitInv'
<1>1. /\ pc = "file" /\ next > Len(out) /\ pc' = "done"
      /\ UNCHANGED <<matches, shardBy, size, next, out, groups, shards>>
  BY DEF Sp!EndBatch
<1>2. GlobInv /\ BatchInv /\ shardBy = "file"
  BY <1>1 DEF SplitInv, GlobInv
<1>3. GlobInv'
  BY <1>1, <1>2 DEF GlobInv, Wanted, Upto, ToSet
<1>4. Upto(out, next) = ToSet(out) /\ ToSet(out) = Wanted
  BY <1>1, <1>2, Stepped DEF GlobInv
<1>5. FilesAreCovered /\ FilesAreApart /\ BatchesAreFull /\ PackagesAreWhole
  BY <1>2, <1>4 DEF FilesAreCovered, BatchInv, Wanted, BatchesAreFull, PackagesAreWhole
<1>6. (FilesAreCovered /\ FilesAreApart /\ BatchesAreFull /\ PackagesAreWhole)'
  BY <1>1, <1>5 DEF FilesAreCovered, FilesAreApart, BatchesAreFull, PackagesAreWhole, ToSet
<1> QED BY <1>1, <1>3, <1>6 DEF SplitInv, ShardsPartitionFiles

LEMMA GroupSplits == ASSUME SplitInv, Sp!Group PROVE SplitInv'
<1> DEFINE x == out[next]  d == Dir[x]
<1>1. /\ pc = "package" /\ next <= Len(out) /\ next' = next + 1
      /\ groups' = [groups EXCEPT ![d] = Append(@, x)]
      /\ UNCHANGED <<matches, shardBy, size, pc, out, shards>>
  BY DEF Sp!Group
<1>2. GlobInv /\ GroupInv
  BY <1>1 DEF SplitInv
<1>3. /\ out \in Seq(Files) /\ IsInjective(out) /\ next \in Nat \ {0}
      /\ next \in DOMAIN out /\ x \in Files /\ d \in Sp!Dirs
  BY <1>1, <1>2 DEF GlobInv, Sp!Dirs
<1>4. Upto(out, next + 1) = Upto(out, next) \cup {x}
  BY <1>3, Stepped
<1>5. x \notin Upto(out, next)
  BY <1>3 DEF Upto, IsInjective
<1>6. /\ DOMAIN groups = Sp!Dirs /\ groups[d] \in Seq(Files)
      /\ ToSet(groups[d]) = {f \in Upto(out, next) : Dir[f] = d} /\ IsInjective(groups[d])
  BY <1>2, <1>3 DEF GroupInv
<1>7. x \notin ToSet(groups[d])
  BY <1>5, <1>6
<1>8. /\ Append(groups[d], x) \in Seq(Files) /\ IsInjective(Append(groups[d], x))
      /\ ToSet(Append(groups[d], x)) = ToSet(groups[d]) \cup {x}
  <2> HIDE DEF x, d
  <2> QED BY <1>3, <1>6, <1>7, Appended
<1>9. /\ groups'[d] = Append(groups[d], x)
      /\ \A c \in Sp!Dirs : c # d => groups'[c] = groups[c]
      /\ groups' \in [Sp!Dirs -> Seq(Files)]
  BY <1>1, <1>2, <1>3, <1>6, <1>8 DEF GroupInv
<1>10. ASSUME NEW c \in Sp!Dirs
       PROVE  /\ ToSet(groups'[c]) = {f \in Upto(out, next + 1) : Dir[f] = c}
              /\ IsInjective(groups'[c])
  <2>1. CASE c = d
    <3>1. ToSet(groups'[c]) = {f \in Upto(out, next) : Dir[f] = d} \cup {x}
      BY <1>6, <1>8, <1>9, <2>1
    <3> QED BY <1>4, <1>8, <1>9, <2>1, <3>1
  <2>2. CASE c # d
    <3>1. groups'[c] = groups[c]
      BY <1>9, <2>2
    <3>2. {f \in Upto(out, next + 1) : Dir[f] = c} = {f \in Upto(out, next) : Dir[f] = c}
      BY <1>4, <2>2
    <3> QED BY <1>2, <3>1, <3>2 DEF GroupInv
  <2> QED BY <2>1, <2>2
<1>11. GroupInv'
  <2>1. Upto(out, next)' = Upto(out, next + 1)
    BY <1>1 DEF Upto
  <2>2. \A c \in Sp!Dirs : /\ ToSet(groups[c])' = ToSet(groups'[c])
                           /\ IsInjective(groups[c])' <=> IsInjective(groups'[c])
    BY DEF ToSet, IsInjective
  <2> HIDE DEF x, d
  <2> QED BY <1>9, <1>10, <2>1, <2>2 DEF GroupInv, Sp!Dirs
<1>12. GlobInv'
  BY <1>1, <1>2, <1>3 DEF GlobInv, Wanted, Upto, ToSet
<1>13. pc' = "package"
  BY <1>1
<1> QED BY <1>11, <1>12, <1>13 DEF SplitInv, ShardsPartitionFiles

LEMMA EndGroupSplits == ASSUME SplitInv, Sp!ShardSplitAssumption, Sp!EndGroup PROVE SplitInv'
<1> DEFINE dirs == {d \in Sp!Dirs : groups[d] # <<>>}
<1>1. /\ pc = "package" /\ next > Len(out) /\ pc' = "done"
      /\ UNCHANGED <<matches, shardBy, size, next, out, groups>>
  BY Zenon DEF Sp!EndGroup
<1>2. PICK seen \in Sp!Bijection(1..Sp!Cardinality(dirs), dirs) :
        shards' = [i \in DOMAIN seen |-> groups[seen[i]]]
  BY Zenon DEF Sp!EndGroup
<1>3. /\ DOMAIN seen = 1..Sp!Cardinality(dirs) /\ DOMAIN shards' = DOMAIN seen
      /\ \A i \in DOMAIN seen : seen[i] \in dirs
      /\ \A i, j \in DOMAIN seen : seen[i] = seen[j] => i = j
      /\ \A d \in dirs : \E i \in DOMAIN seen : seen[i] = d
  BY <1>2 DEF Sp!Bijection, Sp!Injection, Sp!Surjection, Sp!IsInjective
<1>4. GlobInv /\ GroupInv /\ shardBy = "package"
  BY <1>1 DEF SplitInv, GlobInv
<1>5. Upto(out, next) = Wanted /\ Wanted \subseteq Files
  <2>1. /\ matches \in Seq(Files) /\ out \in Seq(Files) /\ next \in Nat \ {0}
        /\ ToSet(out) = Wanted
    BY <1>1, <1>4 DEF GlobInv
  <2>2. Upto(out, next) = ToSet(out)
    BY <1>1, <2>1, Stepped
  <2>3. ToSet(matches) \subseteq Files
    BY <2>1 DEF ToSet
  <2> QED BY <2>1, <2>2, <2>3 DEF Wanted
<1> DEFINE Of(d) == {f \in Wanted : Dir[f] = d}
<1>6. \A i \in DOMAIN seen :
        /\ shards'[i] = groups[seen[i]] /\ ToSet(shards'[i]) = Of(seen[i])
        /\ \A k, l \in DOMAIN shards'[i] : shards'[i][k] = shards'[i][l] => k = l
  <2>1. \A d \in dirs : ToSet(groups[d]) = Of(d) /\ IsInjective(groups[d])
    BY <1>4, <1>5 DEF GroupInv
  <2> HIDE DEF dirs, Of
  <2>2. \A i \in DOMAIN seen : shards'[i] = groups[seen[i]]
    BY <1>2
  <2>3. \A i \in DOMAIN seen : IsInjective(shards'[i]) /\ ToSet(shards'[i]) = Of(seen[i])
    BY <1>3, <2>1, <2>2
  <2> QED BY <2>2, <2>3 DEF IsInjective
<1>7. \A f \in Wanted : Dir[f] \in dirs
  <2> SUFFICES ASSUME NEW f \in Wanted PROVE Dir[f] \in dirs
    OBVIOUS
  <2>1. Dir[f] \in Sp!Dirs
    BY <1>5 DEF Sp!Dirs
  <2>2. f \in ToSet(groups[Dir[f]])
    BY <1>4, <1>5, <2>1 DEF GroupInv
  <2>3. groups[Dir[f]] # <<>>
    BY <2>2 DEF ToSet
  <2> QED BY <2>1, <2>3
<1> HIDE DEF dirs
<1>8. FilesAreCovered'
  <2>1. \A f \in Wanted : \E i \in DOMAIN shards' : f \in ToSet(shards'[i])
    BY <1>3, <1>6, <1>7
  <2>2. \A i \in DOMAIN shards' : ToSet(shards'[i]) \subseteq Wanted
    BY <1>3, <1>6
  <2>3. UNION {ToSet(shards'[i]) : i \in DOMAIN shards'} = Wanted
    <3> HIDE DEF Of
    <3> QED BY <2>1, <2>2
  <2>4. Wanted = ToSet(matches') \ Unwanted
    BY <1>1 DEF Wanted
  <2> QED BY <2>3, <2>4 DEF FilesAreCovered, ToSet
<1>9. FilesAreApart'
  <2> SUFFICES ASSUME NEW i \in DOMAIN shards', NEW j \in DOMAIN shards',
                      NEW k \in DOMAIN shards'[i], NEW l \in DOMAIN shards'[j],
                      shards'[i][k] = shards'[j][l]
               PROVE  i = j /\ k = l
    BY DEF FilesAreApart
  <2>1. shards'[i][k] \in Of(seen[i]) /\ shards'[j][l] \in Of(seen[j])
    <3>1. shards'[i][k] \in ToSet(shards'[i]) /\ shards'[j][l] \in ToSet(shards'[j])
      BY DEF ToSet
    <3> HIDE DEF Of
    <3> QED BY <1>3, <1>6, <3>1
  <2>2. seen[i] = seen[j]
    BY <2>1
  <2>3. i = j
    BY <1>3, <2>2
  <2> HIDE DEF Of
  <2> QED BY <1>3, <1>6, <2>3
<1>10. PackagesAreWhole'
  <2> SUFFICES ASSUME NEW i \in DOMAIN shards', NEW j \in DOMAIN shards',
                      NEW f \in ToSet(shards'[i]), NEW g \in ToSet(shards'[j])
               PROVE  i = j <=> Dir[f] = Dir[g]
    BY DEF PackagesAreWhole, ToSet
  <2>1. Dir[f] = seen[i] /\ Dir[g] = seen[j]
    BY <1>3, <1>6
  <2> QED BY <1>3, <2>1
<1>11. BatchesAreFull'
  BY <1>1, <1>4 DEF BatchesAreFull
<1>12. GlobInv'
  BY <1>1, <1>4 DEF GlobInv, Wanted, Upto, ToSet
<1> QED BY <1>1, <1>8, <1>9, <1>10, <1>11, <1>12 DEF SplitInv, ShardsPartitionFiles

LEMMA SplitNext ==
  Sp!ShardSplitAssumption /\ SplitInv /\ [Sp!Next]_(Sp!vars) => SplitInv'
<1> SUFFICES ASSUME Sp!ShardSplitAssumption, SplitInv, [Sp!Next]_(Sp!vars) PROVE SplitInv'
  OBVIOUS
<1>1. CASE Sp!Visit
  BY <1>1, VisitSplits
<1>2. CASE Sp!EndGlob
  BY <1>2, EndGlobSplits
<1>3. CASE Sp!Batch
  BY <1>3, BatchSplits
<1>4. CASE Sp!EndBatch
  BY <1>4, EndBatchSplits
<1>5. CASE Sp!Group
  BY <1>5, GroupSplits
<1>6. CASE Sp!EndGroup
  BY <1>6, EndGroupSplits
<1>7. CASE UNCHANGED Sp!vars
  <2>1. UNCHANGED <<matches, shardBy, size, pc, next, out, groups, shards>>
    BY <1>7
  <2>2. GlobInv' <=> GlobInv
    BY <2>1 DEF GlobInv, Wanted, Upto, ToSet, IsInjective
  <2>3. BatchInv' <=> BatchInv
    BY <2>1 DEF BatchInv, FilesAreApart, Upto, ToSet
  <2>4. GroupInv' <=> GroupInv
    BY <2>1 DEF GroupInv, Upto, ToSet, IsInjective, Sp!Dirs
  <2>5. ShardsPartitionFiles' <=> ShardsPartitionFiles
    BY <2>1 DEF ShardsPartitionFiles, FilesAreCovered, FilesAreApart, PackagesAreWhole,
                BatchesAreFull, ToSet
  <2> QED BY <2>1, <2>2, <2>3, <2>4, <2>5 DEF SplitInv, Sp!Dirs
<1> QED BY <1>1, <1>2, <1>3, <1>4, <1>5, <1>6, <1>7 DEF Sp!Next

(* Whatever the patterns match, in whatever order and however often, the    *)
(* shards of a run hold every wanted file once, by package no directory is  *)
(* split, and by file no batch but the last is short (globShardFiles,       *)
(* shardFiles, groupByPackage and batchFiles of runner/shard.go).           *)
THEOREM ShardsSound ==
  ASSUME Sp!ShardSplitAssumption PROVE Sp!Spec => []ShardsPartitionFiles
<1>1. Sp!Init => SplitInv
  BY SplitInit
<1>2. SplitInv /\ [Sp!Next]_(Sp!vars) => SplitInv'
  BY SplitNext
<1>3. SplitInv => ShardsPartitionFiles
  BY DEF SplitInv
<1> QED BY <1>1, <1>2, <1>3, PTL DEF Sp!Spec

=============================================================================
