------------------------- MODULE RoutineFiresProofs -------------------------
(***************************************************************************)
(* Theorems about RoutineFires for every finite set of routines, every     *)
(* schedule, every limit and any number of fires, run-now commands,        *)
(* reloads, instants and starts of the daemon; and about Dashboard, for    *)
(* any number of sessions, launches and lines.                             *)
(***************************************************************************)
EXTENDS RoutineFires, DashboardPromise, FiniteSetTheorems, WellFoundedInduction, TLAPS

USE DEF vars, daemon, history

(***************************************************************************)
(* What the files and the fires keep in step, where fires of a routine do  *)
(* not overlap.  AloneInv makes "overlapped" mean what it says; the rest   *)
(* is what a fire knows in each of its steps.                              *)
(***************************************************************************)

\* What a fire may hold, in any step.
FireRecord ==
  [ref : Routines, by : {"schedule", "catchup", "manual"}, job : Nat, step : Steps,
   start : Nat, ok : BOOLEAN, missed : Nat, served : Nat]

Slots == Scheduled \cap InProgress

FiresOK ==
  /\ DOMAIN fires \subseteq Ids
  /\ \A f \in DOMAIN fires : fires[f] \in FireRecord /\ fires[f].start \in 0..now
  /\ Cardinality(Slots) <= MaxConcurrent

RestOK ==
  /\ now \in 0..MaxTime
  /\ phase \in {"down", "loaded", "up"}
  /\ starts \in 0..MaxStarts /\ manual \in 0..MaxManual
  /\ due \subseteq Routines
  /\ job \in [Routines -> Nat] /\ jobs \in Nat
  /\ state \in [Routines -> [status : {"", "running", "ok", "failed"}, last : 0..now]]
  /\ killed \subseteq Routines /\ overlapped \subseteq Routines
  /\ latest \in [Routines -> 0..now] /\ owed \in [Routines -> 0..now]

TInv == FiresOK /\ RestOK

\* A routine that has not overlapped has at most one fire past its start.
AloneInv ==
  \A f, g \in DOMAIN fires :
    /\ {fires[f].step, fires[g].step} \subseteq InRunFire
    /\ fires[f].ref = fires[g].ref /\ fires[f].ref \notin overlapped
    => f = g

\* A fire that has saved its start finds it in the file; one that has not yet
\* has read a clock no earlier than what is there.
SavedInv ==
  \A f \in DOMAIN fires :
    fires[f].step \in Saved /\ fires[f].ref \notin overlapped =>
      state[fires[f].ref] = State("running", fires[f].start) /\ fires[f].ref \notin killed

BegunInv ==
  \A f \in DOMAIN fires :
    fires[f].step = "begun" /\ fires[f].ref \notin overlapped =>
      latest[fires[f].ref] <= fires[f].start

KilledInv == \A r \in killed \ overlapped : state[r].status = "running"

\* "running" in a file is the work of a fire that lives, or of one that was killed.
RunInv == \A r \in Routines : state[r].status = "running" => Live(r) # {} \/ r \in killed

FilesInv == AloneInv /\ SavedInv /\ BegunInv /\ KilledInv /\ RunInv /\ LastRunIsLatest

(***************************************************************************)
(* Schedules and ids                                                       *)
(***************************************************************************)

LEMMA Quotient ==
  ASSUME NEW n \in Nat, NEW p \in Nat \ {0}
  PROVE  /\ n \div p \in Nat
         /\ (n \div p) * p \in 0..n
         /\ n < (n \div p + 1) * p
BY SMT

LEMMA MultiplesBelow ==
  ASSUME NEW a \in Nat, NEW b \in Nat, NEW p \in Nat \ {0}, a * p < (b + 1) * p
  PROVE  a * p <= b * p
<1>1. CASE a <= b
  BY <1>1
<1>2. CASE a >= b + 1
  <2>1. a * p >= (b + 1) * p
    BY <1>2
  <2> QED BY <2>1
<1> QED BY <1>1, <1>2

\* The instant a catch-up is for: it has passed, and it is after the last run.
LEMMA LatestMissedMeaning ==
  ASSUME now \in Nat, NEW r \in Routines
  PROVE  /\ LatestMissed(r) \in 0..now
         /\ \A t \in Nat : NextFire(r, t) <= now => t < LatestMissed(r)
<1> DEFINE p == Period[r]
<1>1. p \in Nat \ {0}
  BY RoutineFiresAssumption
<1> DEFINE d == now \div p
<1>2. d \in Nat /\ d * p \in 0..now /\ now < (d + 1) * p
  BY <1>1, Quotient
<1>3. ASSUME NEW t \in Nat, NextFire(r, t) <= now
      PROVE  t < d * p
  <2> DEFINE q == t \div p
  <2>1. q \in Nat /\ t < (q + 1) * p
    BY <1>1, Quotient
  <2>2. (q + 1) * p <= now
    BY <1>3 DEF NextFire
  <2> HIDE DEF q, d, p
  <2> DEFINE a == q + 1
  <2>3. a \in Nat /\ a * p < (d + 1) * p /\ t < a * p
    <3>1. a * p \in Nat /\ (d + 1) * p \in Nat
      BY <1>1, <1>2, <2>1
    <3> QED BY <1>1, <1>2, <2>1, <2>2, <3>1
  <2> HIDE DEF a
  <2>4. a * p <= d * p
    BY <1>1, <1>2, <2>3, MultiplesBelow
  <2>5. a * p \in Nat /\ d * p \in Nat
    BY <1>1, <1>2, <2>3
  <2> QED BY <2>3, <2>4, <2>5
<1> QED BY <1>2, <1>3 DEF LatestMissed

LEMMA MaxOfTwo ==
  ASSUME NEW a \in Nat, NEW b \in Nat
  PROVE  Max({a, b}) \in {a, b} /\ Max({a, b}) >= a /\ Max({a, b}) >= b
<1>1. \E x \in {a, b} : \A y \in {a, b} : x >= y
  OBVIOUS
<1> QED BY <1>1 DEF Max

\* A set of routines for which there are free ids can be given them.
LEMMA IdsForType ==
  ASSUME TInv, NEW rs \in SUBSET Routines, HasFreeIds(Cardinality(rs))
  PROVE  IdsFor(rs) \in [rs -> Ids \ DOMAIN fires]
<1> DEFINE free == Ids \ DOMAIN fires
           n    == Cardinality(rs)
           m    == Cardinality(free)
<1>1. IsFiniteSet(rs) /\ IsFiniteSet(free)
  <2>1. IsFiniteSet(Ids)
    BY RoutineFiresAssumption, FS_Interval DEF Ids
  <2>2. free \in SUBSET Ids
    OBVIOUS
  <2> QED BY <2>1, <2>2, FS_Subset, RoutineFiresAssumption
<1>2. n \in Nat /\ m \in Nat /\ n <= m
  BY <1>1, FS_CardinalityType DEF HasFreeIds
<1>3. PICK b \in Bijection(1..n, rs) : TRUE
  BY <1>1, FS_CardinalityType DEF ExistsBijection
<1>4. PICK c \in Bijection(1..m, free) : TRUE
  BY <1>1, FS_CardinalityType DEF ExistsBijection
<1> HIDE DEF free, n, m
<1>5. /\ b \in [1..n -> rs]
      /\ \A r \in rs : \E i \in 1..n : b[i] = r
  BY <1>3 DEF Bijection, Surjection
<1>6. /\ c \in [1..m -> free]
      /\ \A i, j \in 1..m : c[i] = c[j] => i = j
  BY <1>4 DEF Bijection, Injection, IsInjective
<1> DEFINE at(r) == CHOOSE i \in 1..n : b[i] = r
           id == [r \in rs |-> c[at(r)]]
<1>7. \A r \in rs : at(r) \in 1..n /\ b[at(r)] = r
  BY <1>5
<1> HIDE DEF at
<1>8. \A r \in rs : at(r) \in 1..m
  BY <1>2, <1>7
<1>9. id \in [rs -> free] /\ \A r, s \in rs : r # s => id[r] # id[s]
  BY <1>6, <1>7, <1>8
<1> QED BY <1>9 DEF IdsFor, free

LEMMA LessIsWellFounded ==
  IsWellFoundedOn({ss \in Nat \X Nat : ss[1] < ss[2]}, Nat)
BY ONLY NatLessThanWellFounded, Zenon DEF OpToRel

LEMMA Smallest ==
  ASSUME NEW S \in SUBSET Nat, S # {}
  PROVE  \E x \in S : \A y \in S : x <= y
<1> DEFINE less == {ss \in Nat \X Nat : ss[1] < ss[2]}
<1>1. PICK x \in S : \A y \in S : <<y, x>> \notin less
  <2> HIDE DEF less
  <2> QED BY LessIsWellFounded, WFMin DEF less
<1>2. \A y \in S : y < x => <<y, x>> \in less
  OBVIOUS
<1> HIDE DEF less
<1>3. \A y \in S : ~ (y < x) /\ y \in Nat
  BY <1>1, <1>2
<1> QED BY <1>3

LEMMA FreeIdType ==
  ASSUME TInv, HasFreeIds(1)
  PROVE  FreeId \in Ids \ DOMAIN fires
<1> DEFINE free == Ids \ DOMAIN fires
<1>1. IsFiniteSet(free)
  <2>1. IsFiniteSet(Ids)
    BY RoutineFiresAssumption, FS_Interval DEF Ids
  <2> QED BY <2>1, FS_Subset
<1>2. free # {}
  BY <1>1, FS_EmptySet, FS_CardinalityType DEF HasFreeIds
<1>3. \E x \in free : \A y \in free : x <= y
  <2>1. free \subseteq Nat
    BY RoutineFiresAssumption DEF Ids
  <2> QED BY <1>2, <2>1, Smallest
<1> QED BY <1>3 DEF FreeId, Min

(***************************************************************************)
(* Types                                                                   *)
(***************************************************************************)

LEMMA TypeParts == TInv => TypeOK
BY DEF TInv, TypeOK, FiresOK, RestOK, FireRecord, Slots

LEMMA NowType ==
  ASSUME RestOK
  PROVE  now \in Nat /\ \A t \in 0..now : t \in Nat
<1>1. MaxTime \in Nat /\ now \in 0..MaxTime
  BY RoutineFiresAssumption DEF RestOK
<1> QED BY <1>1

LEMMA FireType ==
  ASSUME RestOK, NEW r \in Routines, NEW by \in {"schedule", "catchup", "manual"},
         NEW j \in Nat, NEW step \in Steps, NEW missed \in Nat
  PROVE  /\ Fire(r, by, j, step, missed) \in FireRecord
         /\ Fire(r, by, j, step, missed).start \in 0..now
<1>1. latest[r] \in 0..now
  BY DEF RestOK
<1>2. latest[r] \in Nat /\ 0 \in 0..now
  BY <1>1, NowType
<1> QED BY <1>2 DEF Fire, FireRecord

LEMMA SlotsAreFinite ==
  ASSUME FiresOK
  PROVE  IsFiniteSet(Slots) /\ Cardinality(Slots) \in Nat
<1>1. IsFiniteSet(Ids)
  BY RoutineFiresAssumption, FS_Interval DEF Ids
<1>2. Slots \in SUBSET Ids
  BY DEF Slots, Scheduled, FiresOK
<1> QED BY <1>1, <1>2, FS_Subset, FS_CardinalityType

\* A step after which no further slot is taken.
LEMMA SlotsKept ==
  ASSUME FiresOK, Slots' \subseteq Slots
  PROVE  Cardinality(Slots') <= MaxConcurrent
<1>1. Cardinality(Slots') <= Cardinality(Slots) /\ IsFiniteSet(Slots')
  BY SlotsAreFinite, FS_Subset
<1>2. Cardinality(Slots') \in Nat
  BY <1>1, FS_CardinalityType
<1> QED BY <1>1, <1>2, SlotsAreFinite, RoutineFiresAssumption DEF FiresOK

\* A step that changes one fire's record, or takes fires away, keeps the slots.
LEMMA FiresUnchanged ==
  ASSUME FiresOK, now \in Nat, now' \in Nat, now' >= now, UNCHANGED fires
  PROVE  FiresOK'
<1>1. Slots' = Slots
  BY DEF Slots, Scheduled, InProgress
<1> QED BY <1>1 DEF FiresOK

LEMMA FiresRemoved ==
  ASSUME FiresOK, NEW fs, fires' = Without(fs), UNCHANGED now
  PROVE  FiresOK'
<1>1. \A f \in DOMAIN fires' : f \in DOMAIN fires /\ fires'[f] = fires[f]
  BY DEF Without
<1>2. Slots' \subseteq Slots
  BY <1>1 DEF Slots, Scheduled, InProgress
<1> QED BY <1>1, <1>2, SlotsKept DEF FiresOK

LEMMA FireAdded ==
  ASSUME FiresOK, UNCHANGED now, NEW f \in Ids \ DOMAIN fires, NEW x \in FireRecord,
         x.start \in 0..now, fires' = With(f, x),
         x.by = "schedule" => x.step = "queued"
  PROVE  FiresOK'
<1>1. DOMAIN fires' = DOMAIN fires \cup {f} /\ fires'[f] = x
  BY DEF With
<1>2. \A g \in DOMAIN fires : fires'[g] = fires[g]
  BY DEF With
<1>3. Slots' \subseteq Slots
  BY <1>1, <1>2 DEF Slots, Scheduled, InProgress
<1> QED BY <1>1, <1>2, <1>3, SlotsKept DEF FiresOK

\* A fire's next step.
LEMMA FireMoved ==
  ASSUME FiresOK, UNCHANGED now, NEW f \in DOMAIN fires, NEW x \in FireRecord,
         x.start \in 0..now, fires' = [fires EXCEPT ![f] = x],
         x.by = fires[f].by, fires[f].step # "queued"
  PROVE  FiresOK'
<1>1. DOMAIN fires' = DOMAIN fires /\ fires'[f] = x
  OBVIOUS
<1>2. \A g \in DOMAIN fires \ {f} : fires'[g] = fires[g]
  OBVIOUS
<1>3. Slots' \subseteq Slots
  BY <1>1, <1>2 DEF Slots, Scheduled, InProgress
<1> QED BY <1>1, <1>2, <1>3, SlotsKept DEF FiresOK

LEMMA TypeStep ==
  ASSUME TInv, [Next]_vars
  PROVE  TInv'
<1> USE DEF TInv
<1>0. FiresOK /\ RestOK /\ now \in Nat
  BY NowType
<1>a. /\ starts \in 0..MaxStarts /\ manual \in 0..MaxManual /\ now \in 0..MaxTime
      /\ job \in [Routines -> Nat] /\ jobs \in Nat
      /\ latest \in [Routines -> 0..now] /\ owed \in [Routines -> 0..now]
  BY DEF RestOK
<1>b. {MaxStarts, MaxManual, MaxTime} \subseteq Nat
  BY RoutineFiresAssumption
<1>1. CASE Tick
  <2>1. now' \in Nat /\ now' = now + 1
    BY <1>0, <1>1 DEF Tick
  <2>2. FiresOK'
    BY <1>0, <1>1, <2>1, FiresUnchanged DEF Tick
  <2>3. state' \in [Routines -> [status : {"", "running", "ok", "failed"}, last : 0..now']]
    <3>1. ASSUME NEW r \in Routines
          PROVE  state[r] \in [status : {"", "running", "ok", "failed"}, last : 0..now']
      <4>1. state[r] \in [status : {"", "running", "ok", "failed"}, last : 0..now]
        BY <1>0 DEF RestOK
      <4>2. \A t \in 0..now : t \in 0..now'
        BY <1>0, <2>1
      <4> QED BY <4>1, <4>2
    <3> QED BY <1>0, <1>1, <3>1 DEF Tick, RestOK
  <2>4. now' \in 0..MaxTime /\ latest' \in [Routines -> 0..now'] /\ owed' \in [Routines -> 0..now']
    <3>1. now < MaxTime /\ latest' = latest
      BY <1>1 DEF Tick
    <3>2. now' \in 0..MaxTime /\ latest' \in [Routines -> 0..now']
      BY <1>0, <1>a, <1>b, <2>1, <3>1
    <3>3. \A r \in Routines : owed[r] \in 0..now' /\ now + 1 \in 0..now'
      BY <1>0, <1>a, <2>1
    <3>4. owed' \in [Routines -> 0..now']
      BY <1>1, <3>3 DEF Tick
    <3> QED BY <3>2, <3>4
  <2>5. due' \subseteq Routines
    BY <1>1 DEF Tick
  <2>6. RestOK'
    BY <1>0, <1>1, <2>3, <2>4, <2>5 DEF Tick, RestOK
  <2> QED BY <2>2, <2>6
<1>2. CASE Load
  <2> DEFINE missed == {r \in Routines : Missed(r)}
             id == IdsFor(missed)
             ids == {id[r] : r \in missed}
             new(f) == Fire(CHOOSE r \in missed : id[r] = f, "catchup", 0, "starting",
                            LatestMissed(CHOOSE r \in missed : id[r] = f))
  <2>1. id \in [missed -> Ids \ DOMAIN fires]
    BY <1>2, IdsForType DEF Load
  <2>2. /\ fires' = [f \in DOMAIN fires \cup ids |-> IF f \in DOMAIN fires THEN fires[f] ELSE new(f)]
        /\ UNCHANGED <<now, due, manual, state, killed, latest, owed, overlapped>>
    BY <1>2 DEF Load
  <2> HIDE DEF id
  <2>3. ASSUME NEW f \in ids
        PROVE  /\ f \in Ids \ DOMAIN fires
               /\ new(f) \in FireRecord /\ new(f).start \in 0..now
               /\ new(f).by = "catchup"
    <3>1. PICK r \in missed : id[r] = f
      OBVIOUS
    <3> DEFINE q == CHOOSE s \in missed : id[s] = f
    <3>2. q \in missed
      BY <3>1
    <3>3. new(f) = Fire(q, "catchup", 0, "starting", LatestMissed(q))
      OBVIOUS
    <3> HIDE DEF q, new
    <3>4. LatestMissed(q) \in Nat
      BY <1>0, <3>2, LatestMissedMeaning
    <3> QED BY <1>0, <2>1, <3>1, <3>2, <3>3, <3>4, FireType DEF Fire, Steps
  <2> HIDE DEF new, ids
  <2>4. DOMAIN fires' = DOMAIN fires \cup ids
    BY <2>2
  <2>5. \A f \in DOMAIN fires' : fires'[f] = IF f \in DOMAIN fires THEN fires[f] ELSE new(f)
    BY <2>2
  <2>6. Slots' \subseteq Slots
    BY <2>3, <2>4, <2>5 DEF Slots, Scheduled, InProgress
  <2>7. FiresOK'
    BY <1>0, <2>2, <2>3, <2>4, <2>5, <2>6, SlotsKept DEF FiresOK
  <2>8. RestOK'
    <3>1. starts' \in 0..MaxStarts
      BY <1>2, <1>a, <1>b DEF Load
    <3>2. jobs' \in Nat /\ job' \in [Routines -> Nat] /\ phase' = "loaded"
      BY <1>2, <1>a DEF Load
    <3> QED BY <1>0, <2>2, <3>1, <3>2 DEF RestOK
  <2> QED BY <2>7, <2>8
<1>3. CASE StartScheduler
  <2>1. FiresOK'
    BY <1>0, <1>3, FiresUnchanged DEF StartScheduler
  <2>2. RestOK'
    BY <1>0, <1>3 DEF StartScheduler, RestOK
  <2> QED BY <2>1, <2>2
<1>4. CASE Exit
  <2>1. FiresOK'
    BY <1>0, <1>4, FiresRemoved DEF Exit
  <2>2. killed' \subseteq Routines
    BY <1>0, <1>4 DEF Exit, RestOK, FiresOK, FireRecord
  <2>3. owed' \in [Routines -> 0..now]
    <3>1. \A r \in Routines : LatestMissed(r) \in 0..now /\ owed[r] \in 0..now
      BY <1>0, LatestMissedMeaning DEF RestOK
    <3> QED BY <1>4, <3>1 DEF Exit
  <2>4. job' \in [Routines -> Nat]
    BY <1>4 DEF Exit
  <2>5. RestOK'
    BY <1>0, <1>4, <2>2, <2>3, <2>4 DEF Exit, RestOK
  <2> QED BY <2>1, <2>5
<1>5. ASSUME NEW r \in Routines, ReplaceJob(r)
      PROVE  TInv'
  <2>1. FiresOK'
    BY <1>0, <1>5, FiresUnchanged DEF ReplaceJob
  <2>2. RestOK'
    <3>1. jobs' \in Nat /\ job' \in [Routines -> Nat]
      BY <1>5, <1>a DEF ReplaceJob
    <3> QED BY <1>0, <1>5, <3>1 DEF ReplaceJob, RestOK
  <2> QED BY <2>1, <2>2
<1>6. ASSUME NEW r \in Routines, Trigger(r)
      PROVE  TInv'
  <2>1. FiresOK'
    <3>1. CASE UNCHANGED fires
      BY <1>0, <1>6, <3>1, FiresUnchanged DEF Trigger
    <3>2. CASE HasFreeIds(1) /\ fires' = With(FreeId, Fire(r, "schedule", job[r], "queued", 0))
      <4> DEFINE x == Fire(r, "schedule", job[r], "queued", 0)
      <4>1. x \in FireRecord /\ x.start \in 0..now
        BY <1>0, FireType DEF RestOK, Steps
      <4>2. x.by = "schedule" /\ x.step = "queued"
        BY DEF Fire
      <4> HIDE DEF x
      <4>3. fires' = With(FreeId, x) /\ FreeId \in Ids \ DOMAIN fires /\ UNCHANGED now
        BY <1>6, <3>2, FreeIdType DEF Trigger, x
      <4> QED BY <1>0, <4>1, <4>2, <4>3, FireAdded
    <3> QED BY <1>6, <3>1, <3>2 DEF Trigger
  <2>2. RestOK'
    BY <1>0, <1>6 DEF Trigger, RestOK
  <2> QED BY <2>1, <2>2
<1>7. ASSUME NEW r \in Routines, RunNow(r)
      PROVE  TInv'
  <2>1. FiresOK'
    <3> DEFINE x == Fire(r, "manual", 0, "starting", 0)
    <3>1. x \in FireRecord /\ x.start \in 0..now
      BY <1>0, FireType DEF Steps
    <3>2. x.by = "manual"
      BY DEF Fire
    <3> HIDE DEF x
    <3>3. fires' = With(FreeId, x) /\ FreeId \in Ids \ DOMAIN fires /\ UNCHANGED now
      BY <1>7, FreeIdType DEF RunNow, x
    <3> QED BY <1>0, <3>1, <3>2, <3>3, FireAdded
  <2>2. manual' \in 0..MaxManual
    BY <1>7, <1>a, <1>b DEF RunNow
  <2>3. RestOK'
    BY <1>0, <1>7, <2>2 DEF RunNow, RestOK
  <2> QED BY <2>1, <2>3
<1>8. ASSUME NEW f \in Ids, LeaveQueue(f)
      PROVE  TInv'
  <2>0. f \in DOMAIN fires /\ fires[f] \in FireRecord
    BY <1>0, <1>8 DEF LeaveQueue, Scheduled, FiresOK
  <2>1. DOMAIN fires' = DOMAIN fires /\ fires' = [fires EXCEPT ![f].step = "starting"]
    BY <1>8 DEF LeaveQueue
  <2>2. \A g \in DOMAIN fires \ {f} : fires'[g] = fires[g]
    BY <2>1
  <2>3. fires'[f] \in FireRecord /\ fires'[f].start = fires[f].start
    BY <2>0, <2>1 DEF FireRecord, Steps
  <2>4. Slots' \subseteq Slots \cup {f}
    BY <2>1, <2>2 DEF Slots, Scheduled, InProgress
  <2>5. Cardinality(Slots') <= MaxConcurrent
    <3>1. Cardinality(Slots) < MaxConcurrent /\ Cardinality(Slots) \in Nat /\ IsFiniteSet(Slots)
      BY <1>0, <1>8, SlotsAreFinite DEF LeaveQueue, Slots
    <3>2. /\ IsFiniteSet(Slots \cup {f})
          /\ Cardinality(Slots \cup {f}) = Cardinality(Slots) \/ Cardinality(Slots \cup {f}) = Cardinality(Slots) + 1
      BY <3>1, FS_AddElement
    <3>3. Cardinality(Slots') <= Cardinality(Slots \cup {f}) /\ Cardinality(Slots') \in Nat
      BY <2>4, <3>2, FS_Subset, FS_CardinalityType
    <3> QED BY <3>1, <3>2, <3>3, RoutineFiresAssumption
  <2>6. FiresOK'
    BY <1>0, <1>8, <2>0, <2>1, <2>2, <2>3, <2>5 DEF FiresOK, LeaveQueue
  <2>7. RestOK'
    BY <1>0, <1>8 DEF LeaveQueue, RestOK
  <2> QED BY <2>6, <2>7
<1>9. ASSUME NEW f \in Ids, DropQueued(f)
      PROVE  TInv'
  <2>1. FiresOK'
    BY <1>0, <1>9, FiresRemoved DEF DropQueued
  <2>2. RestOK'
    BY <1>0, <1>9 DEF DropQueued, RestOK
  <2> QED BY <2>1, <2>2
<1>10. ASSUME NEW f \in Ids, ReadClock(f)
       PROVE  TInv'
  <2> DEFINE x == [fires[f] EXCEPT !.step = "begun", !.start = now]
  <2>1. f \in DOMAIN fires /\ fires[f] \in FireRecord /\ fires[f].step = "starting"
    BY <1>0, <1>10 DEF ReadClock, FiresOK
  <2>2. x \in FireRecord /\ x.start = now /\ x.by = fires[f].by
    BY <1>0, <2>1 DEF FireRecord, Steps
  <2>3. fires' = [fires EXCEPT ![f] = x] /\ UNCHANGED now
    BY <1>10 DEF ReadClock
  <2> HIDE DEF x
  <2>4. now \in 0..now /\ fires[f].step # "queued"
    BY <1>0, <2>1
  <2>5. FiresOK'
    BY <1>0, <2>1, <2>2, <2>3, <2>4, FireMoved
  <2>6. overlapped' \subseteq Routines
    BY <1>0, <1>10, <2>1 DEF ReadClock, RestOK, FireRecord
  <2>7. RestOK'
    BY <1>0, <1>10, <2>6 DEF ReadClock, RestOK
  <2> QED BY <2>5, <2>7
<1>11. ASSUME NEW f \in Ids, SaveRunning(f)
       PROVE  TInv'
  <2> DEFINE x == [fires[f] EXCEPT !.step = "running"]
             r == fires[f].ref
             t == fires[f].start
  <2>1. /\ f \in DOMAIN fires /\ fires[f] \in FireRecord /\ fires[f].step = "begun"
        /\ r \in Routines /\ t \in 0..now
    BY <1>0, <1>11 DEF SaveRunning, FiresOK, FireRecord
  <2>2. x \in FireRecord /\ x.start = fires[f].start /\ x.by = fires[f].by
    BY <2>1 DEF FireRecord, Steps
  <2>3. fires' = [fires EXCEPT ![f] = x] /\ UNCHANGED now
    BY <1>11 DEF SaveRunning
  <2> HIDE DEF x
  <2>4. FiresOK'
    BY <1>0, <2>1, <2>2, <2>3, FireMoved
  <2>5. /\ state' = [state EXCEPT ![r] = State("running", t)]
        /\ killed' = killed \ {r}
        /\ latest' = [latest EXCEPT ![r] = Max({latest[r], t})]
        /\ owed' = [owed EXCEPT ![r] = IF t >= owed[r] THEN 0 ELSE owed[r]]
        /\ UNCHANGED <<now, phase, starts, due, job, jobs, manual, overlapped>>
    BY <1>0, <1>11, <2>1 DEF SaveRunning, RestOK
  <2> HIDE DEF r, t
  <2>6. Max({latest[r], t}) \in 0..now
    <3>1. latest[r] \in 0..now
      BY <1>0, <2>1 DEF RestOK
    <3> QED BY <1>0, <2>1, <3>1, MaxOfTwo, NowType
  <2>7. latest' \in [Routines -> 0..now] /\ owed' \in [Routines -> 0..now]
    <3>1. r \in Routines /\ 0 \in 0..now
      BY <1>0, <2>1 DEF r
    <3> QED BY <1>a, <2>5, <2>6, <3>1
  <2>8. state' \in [Routines -> [status : {"", "running", "ok", "failed"}, last : 0..now]]
    BY <1>0, <2>1, <2>5 DEF RestOK, State
  <2>9. RestOK'
    BY <1>0, <2>5, <2>7, <2>8 DEF RestOK
  <2> QED BY <2>4, <2>9
<1>12. ASSUME NEW f \in Ids, AgentReturns(f)
       PROVE  TInv'
  <2>1. PICK ok \in BOOLEAN : fires' = [fires EXCEPT ![f].step = "ended", ![f].ok = ok]
    BY <1>12 DEF AgentReturns
  <2> DEFINE x == [fires[f] EXCEPT !.step = "ended", !.ok = ok]
  <2>2. f \in DOMAIN fires /\ fires[f] \in FireRecord /\ fires[f].step = "running" /\ fires[f].start \in 0..now
    BY <1>0, <1>12 DEF AgentReturns, FiresOK
  <2>3. x \in FireRecord /\ x.start = fires[f].start /\ x.by = fires[f].by
    BY <2>2 DEF FireRecord, Steps
  <2>4. fires' = [fires EXCEPT ![f] = x] /\ UNCHANGED now
    BY <1>12, <2>1 DEF AgentReturns
  <2> HIDE DEF x
  <2>5. FiresOK'
    BY <1>0, <2>2, <2>3, <2>4, FireMoved
  <2>6. RestOK'
    BY <1>0, <1>12 DEF AgentReturns, RestOK
  <2> QED BY <2>5, <2>6
<1>13. ASSUME NEW f \in Ids, SaveFinal(f)
       PROVE  TInv'
  <2>1. FiresOK'
    BY <1>0, <1>13, FiresRemoved DEF SaveFinal
  <2>2. f \in DOMAIN fires /\ fires[f].ref \in Routines /\ fires[f].start \in 0..now
    BY <1>0, <1>13 DEF SaveFinal, FiresOK, FireRecord
  <2>3. state' \in [Routines -> [status : {"", "running", "ok", "failed"}, last : 0..now]]
    BY <1>0, <1>13, <2>2 DEF SaveFinal, RestOK, State
  <2>4. RestOK'
    BY <1>0, <1>13, <2>3 DEF SaveFinal, RestOK
  <2> QED BY <2>1, <2>4
<1>14. ASSUME NEW f \in Ids, ManualDies(f)
       PROVE  TInv'
  <2>1. FiresOK'
    BY <1>0, <1>14, FiresRemoved DEF ManualDies
  <2>2. killed' \subseteq Routines
    BY <1>0, <1>14 DEF ManualDies, RestOK, FiresOK, FireRecord
  <2>3. RestOK'
    BY <1>0, <1>14, <2>2 DEF ManualDies, RestOK
  <2> QED BY <2>1, <2>3
<1>15. CASE UNCHANGED vars
  <2>1. FiresOK'
    BY <1>0, <1>15, FiresUnchanged
  <2>2. RestOK'
    BY <1>0, <1>15 DEF RestOK
  <2> QED BY <2>1, <2>2
<1> QED
  BY <1>1, <1>2, <1>3, <1>4, <1>5, <1>6, <1>7, <1>8, <1>9, <1>10, <1>11, <1>12, <1>13,
     <1>14, <1>15 DEF Next, FireStep

LEMMA TypeInit == Init => TInv
<1> SUFFICES ASSUME Init PROVE FiresOK /\ RestOK
  BY DEF TInv
<1>0. fires = <<>>
  BY DEF Init
<1>1. DOMAIN fires = {}
  BY <1>0
<1>2. Slots = {}
  BY <1>1 DEF Slots, Scheduled
<1>3. FiresOK
  BY <1>1, <1>2, FS_EmptySet, RoutineFiresAssumption DEF FiresOK
<1>4. {MaxStarts, MaxManual, MaxTime} \subseteq Nat /\ 0 \in 0..0
  BY RoutineFiresAssumption
<1>5. state \in [Routines -> [status : {"", "running", "ok", "failed"}, last : 0..0]]
  BY <1>4 DEF Init, State
<1>6. now = 0 /\ now \in 0..MaxTime /\ starts \in 0..MaxStarts /\ manual \in 0..MaxManual
  <2>1. now = 0 /\ starts = 0 /\ manual = 0
    BY DEF Init
  <2> QED BY <1>4, <2>1
<1>7. job \in [Routines -> Nat] /\ jobs \in Nat
  BY DEF Init
<1>8. latest \in [Routines -> 0..0] /\ owed \in [Routines -> 0..0]
  <2>1. latest = [r \in Routines |-> 0] /\ owed = [r \in Routines |-> 0]
    BY DEF Init
  <2> QED BY <1>4, <2>1
<1>9. RestOK
  BY <1>5, <1>6, <1>7, <1>8 DEF Init, RestOK
<1> QED BY <1>3, <1>9

\* Every reachable state has its types: a fire past its start has read a clock
\* that has passed, a state file holds no later time, and the scheduled fires in
\* progress are at most MaxConcurrent (gocron's limit, scheduler.go).
THEOREM TypeCorrect == Spec => []TypeOK
<1>1. Init => TInv
  BY TypeInit
<1>2. TInv /\ [Next]_vars => TInv'
  BY TypeStep
<1>3. TInv => TypeOK
  BY TypeParts
<1> QED BY <1>1, <1>2, <1>3, PTL DEF Spec

(***************************************************************************)
(* State files and the fires behind them                                   *)
(***************************************************************************)

\* The fires past their start are the same before and after the step, and so is
\* everything the files say.
LEMMA FilesKept ==
  ASSUME TInv, FilesInv, UNCHANGED <<state, killed, latest, overlapped>>,
         \A f \in DOMAIN fires' : fires'[f].step \in InRunFire =>
           f \in DOMAIN fires /\ fires'[f] = fires[f],
         \A f \in DOMAIN fires : fires[f].step \in Saved =>
           f \in DOMAIN fires' /\ fires'[f] = fires[f]
  PROVE  FilesInv'
<1>1. \A s \in Saved : s \in InRunFire
  BY DEF Saved, InRunFire
<1>2. "begun" \in InRunFire
  BY DEF InRunFire
<1>3. AloneInv'
  BY DEF AloneInv, FilesInv
<1>4. SavedInv'
  BY <1>1 DEF SavedInv, FilesInv
<1>5. BegunInv'
  BY <1>2 DEF BegunInv, FilesInv
<1>6. KilledInv' /\ LastRunIsLatest'
  BY DEF KilledInv, LastRunIsLatest, FilesInv
<1>7. RunInv'
  BY DEF RunInv, FilesInv, Live, FiresOf
<1> QED BY <1>3, <1>4, <1>5, <1>6, <1>7 DEF FilesInv

\* A step that may add fires that have not started.
LEMMA FireAddedKeepsFiles ==
  ASSUME TInv, FilesInv, UNCHANGED <<state, killed, latest, overlapped>>,
         DOMAIN fires \subseteq DOMAIN fires',
         \A f \in DOMAIN fires : fires'[f] = fires[f],
         \A f \in DOMAIN fires' \ DOMAIN fires : fires'[f].step \in {"queued", "starting"}
  PROVE  FilesInv'
BY FilesKept DEF InRunFire

\* Fires vanish with their process; the routines of those that had saved their
\* start are in "killed" afterwards.
LEMMA KillKeepsFiles ==
  ASSUME TInv, FilesInv, NEW dead \in SUBSET DOMAIN fires, fires' = Without(dead),
         UNCHANGED <<state, latest, overlapped>>,
         killed' = killed \cup {fires[f].ref : f \in {f \in dead : fires[f].step \in Saved}}
  PROVE  FilesInv'
<1>1. /\ DOMAIN fires' = DOMAIN fires \ dead
      /\ \A f \in DOMAIN fires' : fires'[f] = fires[f]
  BY DEF Without
<1>2. \A s \in Saved : s \in InRunFire
  BY DEF Saved, InRunFire
<1>3. AloneInv'
  BY <1>1 DEF AloneInv, FilesInv
<1>4. SavedInv'
  <2> SUFFICES ASSUME NEW f \in DOMAIN fires', fires'[f].step \in Saved,
                      fires'[f].ref \notin overlapped
               PROVE  /\ state[fires[f].ref] = State("running", fires[f].start)
                      /\ fires[f].ref \notin killed'
    BY <1>1 DEF SavedInv
  <2>1. f \in DOMAIN fires \ dead /\ fires[f].step \in Saved /\ fires[f].ref \notin overlapped
    BY <1>1
  <2>2. \A g \in dead : fires[g].step \in Saved => fires[g].ref # fires[f].ref
    BY <1>2, <2>1 DEF AloneInv, FilesInv
  <2> QED BY <2>1, <2>2 DEF SavedInv, FilesInv
<1>5. BegunInv'
  BY <1>1 DEF BegunInv, FilesInv
<1>6. KilledInv'
  <2> SUFFICES ASSUME NEW r \in killed' \ overlapped
               PROVE  state[r].status = "running"
    BY DEF KilledInv
  <2>1. CASE r \in killed
    BY <2>1 DEF KilledInv, FilesInv
  <2>2. CASE \E f \in dead : fires[f].step \in Saved /\ fires[f].ref = r
    <3>1. PICK f \in dead : fires[f].step \in Saved /\ fires[f].ref = r
      BY <2>2
    <3>2. state[r] = State("running", fires[f].start)
      BY <3>1 DEF SavedInv, FilesInv
    <3> QED BY <3>2 DEF State
  <2> QED BY <2>1, <2>2
<1>7. RunInv'
  <2> SUFFICES ASSUME NEW r \in Routines, state[r].status = "running"
               PROVE  Live(r)' # {} \/ r \in killed'
    BY DEF RunInv
  <2>1. CASE r \in killed
    BY <2>1
  <2>2. ASSUME NEW f \in Live(r)
        PROVE  Live(r)' # {} \/ r \in killed'
    <3>1. f \in DOMAIN fires /\ fires[f].ref = r /\ fires[f].step \in Saved
      BY <2>2 DEF Live, FiresOf
    <3>2. CASE f \in dead
      BY <3>1, <3>2
    <3>3. CASE f \notin dead
      <4>1. f \in Live(r)'
        BY <1>1, <3>1, <3>3 DEF Live, FiresOf
      <4> QED BY <4>1
    <3> QED BY <3>2, <3>3
  <2> QED BY <2>1, <2>2 DEF RunInv, FilesInv
<1>8. LastRunIsLatest'
  BY DEF LastRunIsLatest, FilesInv
<1> QED BY <1>3, <1>4, <1>5, <1>6, <1>7, <1>8 DEF FilesInv

LEMMA ReadClockKeepsFiles ==
  ASSUME TInv, FilesInv, NEW f \in Ids, ReadClock(f)
  PROVE  FilesInv'
<1> DEFINE r == fires[f].ref
<1>1. /\ f \in DOMAIN fires /\ fires[f] \in FireRecord /\ fires[f].step = "starting"
      /\ r \in Routines
  BY DEF ReadClock, TInv, FiresOK, FireRecord
<1>2. /\ DOMAIN fires' = DOMAIN fires
      /\ fires'[f].ref = r /\ fires'[f].step = "begun" /\ fires'[f].start = now
      /\ \A g \in DOMAIN fires \ {f} : fires'[g] = fires[g]
  BY <1>1 DEF ReadClock, FireRecord
<1>3. /\ UNCHANGED <<state, killed, latest>>
      /\ overlapped \subseteq overlapped' /\ overlapped' \subseteq overlapped \cup {r}
      /\ r \notin overlapped' =>
           \A g \in DOMAIN fires : fires[g].ref = r => fires[g].step \notin InRunFire
  BY DEF ReadClock, FiresOf
<1>4. "begun" \notin Saved /\ "starting" \notin Saved
  BY DEF Saved
<1> HIDE DEF r
<1>5. AloneInv'
  BY <1>1, <1>2, <1>3 DEF AloneInv, FilesInv
<1>6. SavedInv'
  BY <1>1, <1>2, <1>3, <1>4 DEF SavedInv, FilesInv
<1>7. BegunInv'
  <2>1. latest[r] <= now
    <3>1. latest[r] \in 0..now
      BY <1>1 DEF TInv, RestOK
    <3> QED BY <3>1
  <2> QED BY <1>1, <1>2, <1>3, <2>1 DEF BegunInv, FilesInv
<1>8. KilledInv' /\ LastRunIsLatest'
  BY <1>3 DEF KilledInv, LastRunIsLatest, FilesInv
<1>9. RunInv'
  <2>1. \A q \in Routines : Live(q)' = Live(q)
    BY <1>1, <1>2, <1>4 DEF Live, FiresOf
  <2> QED BY <1>3, <2>1 DEF RunInv, FilesInv
<1> QED BY <1>5, <1>6, <1>7, <1>8, <1>9 DEF FilesInv

LEMMA SaveRunningKeepsFiles ==
  ASSUME TInv, FilesInv, NEW f \in Ids, SaveRunning(f)
  PROVE  FilesInv'
<1> DEFINE r == fires[f].ref
           t == fires[f].start
<1>1. /\ f \in DOMAIN fires /\ fires[f] \in FireRecord /\ fires[f].step = "begun"
      /\ r \in Routines /\ t \in Nat
  BY DEF SaveRunning, TInv, FiresOK, FireRecord
<1>2. /\ DOMAIN fires' = DOMAIN fires
      /\ fires'[f].ref = r /\ fires'[f].step = "running" /\ fires'[f].start = t
      /\ \A g \in DOMAIN fires \ {f} : fires'[g] = fires[g]
  BY <1>1 DEF SaveRunning, FireRecord
<1>3. /\ state' = [state EXCEPT ![r] = State("running", t)]
      /\ killed' = killed \ {r} /\ overlapped' = overlapped
      /\ latest' = [latest EXCEPT ![r] = Max({latest[r], t})]
  <2>1. latest \in [Routines -> 0..now]
    BY DEF TInv, RestOK
  <2> QED BY <1>1, <2>1 DEF SaveRunning
<1>4. /\ state'[r] = State("running", t) /\ latest'[r] = Max({latest[r], t})
      /\ \A q \in Routines \ {r} : state'[q] = state[q] /\ latest'[q] = latest[q]
  BY <1>1, <1>3 DEF TInv, RestOK
<1>5. \A g \in DOMAIN fires : fires[g].ref \in Routines
  BY DEF TInv, FiresOK, FireRecord
<1>6. "begun" \in InRunFire /\ "running" \in Saved /\ \A s \in Saved : s \in InRunFire
  BY DEF Saved, InRunFire
<1>7. r \notin overlapped =>
        /\ t >= latest[r]
        /\ \A g \in DOMAIN fires \ {f} : fires[g].ref = r => fires[g].step \notin InRunFire
  BY <1>1, <1>6 DEF BegunInv, AloneInv, FilesInv
<1>8. r \notin overlapped => latest'[r] = t
  <2>1. latest[r] \in Nat
    <3>1. latest[r] \in 0..now
      BY <1>1 DEF TInv, RestOK
    <3> QED BY <3>1
  <2> QED BY <1>1, <1>4, <1>7, <2>1, MaxOfTwo
<1> HIDE DEF r, t
<1>9. AloneInv'
  BY <1>1, <1>2, <1>3, <1>6, <1>7 DEF AloneInv, FilesInv, InRunFire
<1>10. SavedInv'
  <2> SUFFICES ASSUME NEW g \in DOMAIN fires, fires'[g].step \in Saved,
                      fires'[g].ref \notin overlapped
               PROVE  /\ state'[fires'[g].ref] = State("running", fires'[g].start)
                      /\ fires'[g].ref \notin killed'
    BY <1>2, <1>3 DEF SavedInv
  <2>1. CASE g = f
    BY <1>2, <1>3, <1>4, <2>1
  <2>2. CASE g # f
    <3>1. fires'[g] = fires[g] /\ fires[g].ref \in Routines
      BY <1>2, <1>5, <2>2
    <3>2. fires[g].ref # r
      BY <1>6, <1>7, <2>2, <3>1
    <3> QED BY <1>3, <1>4, <3>1, <3>2 DEF SavedInv, FilesInv
  <2> QED BY <2>1, <2>2
<1>11. BegunInv'
  <2> SUFFICES ASSUME NEW g \in DOMAIN fires, fires'[g].step = "begun",
                      fires'[g].ref \notin overlapped
               PROVE  latest'[fires'[g].ref] <= fires'[g].start
    BY <1>2, <1>3 DEF BegunInv
  <2>1. g # f /\ fires'[g] = fires[g] /\ fires[g].ref \in Routines
    BY <1>2, <1>5
  <2>2. fires[g].ref # r
    BY <1>6, <1>7, <2>1
  <2> QED BY <1>4, <2>1, <2>2 DEF BegunInv, FilesInv
<1>12. KilledInv'
  <2>1. killed \subseteq Routines
    BY DEF TInv, RestOK
  <2> QED BY <1>3, <1>4, <2>1 DEF KilledInv, FilesInv
<1>13. RunInv'
  <2> SUFFICES ASSUME NEW q \in Routines, state'[q].status = "running"
               PROVE  Live(q)' # {} \/ q \in killed'
    BY DEF RunInv
  <2>1. CASE q = r
    <3>1. f \in Live(q)'
      BY <1>1, <1>2, <1>6, <2>1 DEF Live, FiresOf
    <3> QED BY <3>1
  <2>2. CASE q # r
    <3>1. Live(q) \subseteq Live(q)'
      BY <1>1, <1>2, <2>2 DEF Live, FiresOf, r
    <3> QED BY <1>3, <1>4, <2>2, <3>1 DEF RunInv, FilesInv
  <2> QED BY <2>1, <2>2
<1>14. LastRunIsLatest'
  <2>1. State("running", t).last = t
    BY DEF State
  <2> QED BY <1>3, <1>4, <1>8, <2>1 DEF LastRunIsLatest, FilesInv
<1> QED BY <1>9, <1>10, <1>11, <1>12, <1>13, <1>14 DEF FilesInv

LEMMA AgentReturnsKeepsFiles ==
  ASSUME TInv, FilesInv, NEW f \in Ids, AgentReturns(f)
  PROVE  FilesInv'
<1>1. f \in DOMAIN fires /\ fires[f] \in FireRecord /\ fires[f].step = "running"
  BY DEF AgentReturns, TInv, FiresOK
<1>2. PICK ok \in BOOLEAN : fires' = [fires EXCEPT ![f].step = "ended", ![f].ok = ok]
  BY DEF AgentReturns
<1>3. /\ DOMAIN fires' = DOMAIN fires
      /\ fires'[f].ref = fires[f].ref /\ fires'[f].step = "ended"
      /\ fires'[f].start = fires[f].start
      /\ \A g \in DOMAIN fires \ {f} : fires'[g] = fires[g]
  BY <1>1, <1>2 DEF FireRecord
<1>4. UNCHANGED <<state, killed, latest, overlapped>>
  BY DEF AgentReturns
<1>5. {"running", "ended"} \subseteq Saved \cap InRunFire /\ "begun" \notin Saved
  BY DEF Saved, InRunFire
<1>6. \A g \in DOMAIN fires :
        /\ fires'[g].ref = fires[g].ref /\ fires'[g].start = fires[g].start
        /\ fires'[g].step \in InRunFire <=> fires[g].step \in InRunFire
        /\ fires'[g].step \in Saved <=> fires[g].step \in Saved
        /\ fires'[g].step = "begun" <=> fires[g].step = "begun"
  BY <1>1, <1>3, <1>5
<1>7. AloneInv'
  BY <1>3, <1>4, <1>6 DEF AloneInv, FilesInv
<1>8. SavedInv'
  BY <1>3, <1>4, <1>6 DEF SavedInv, FilesInv
<1>9. BegunInv'
  BY <1>3, <1>4, <1>6 DEF BegunInv, FilesInv
<1>10. KilledInv' /\ LastRunIsLatest'
  BY <1>4 DEF KilledInv, LastRunIsLatest, FilesInv
<1>11. RunInv'
  <2>1. \A r \in Routines : Live(r)' = Live(r)
    BY <1>3, <1>6 DEF Live, FiresOf
  <2> QED BY <1>4, <2>1 DEF RunInv, FilesInv
<1> QED BY <1>7, <1>8, <1>9, <1>10, <1>11 DEF FilesInv

LEMMA SaveFinalKeepsFiles ==
  ASSUME TInv, FilesInv, NEW f \in Ids, SaveFinal(f)
  PROVE  FilesInv'
<1> DEFINE r == fires[f].ref
           t == fires[f].start
           s == IF fires[f].ok THEN "ok" ELSE "failed"
<1>1. f \in DOMAIN fires /\ fires[f].step = "ended" /\ r \in Routines
  BY DEF SaveFinal, TInv, FiresOK, FireRecord
<1>2. /\ DOMAIN fires' = DOMAIN fires \ {f}
      /\ \A g \in DOMAIN fires' : fires'[g] = fires[g]
  BY DEF SaveFinal, Without
<1>3. /\ state'[r] = State(s, t)
      /\ \A q \in Routines \ {r} : state'[q] = state[q]
      /\ UNCHANGED <<killed, latest, overlapped>>
  BY <1>1 DEF SaveFinal, TInv, RestOK
<1>4. s # "running" /\ State(s, t).status = s /\ State(s, t).last = t
  BY DEF State
<1>5. "ended" \in Saved /\ "ended" \in InRunFire /\ \A x \in Saved : x \in InRunFire
  BY DEF Saved, InRunFire
<1>6. r \notin overlapped =>
        /\ state[r] = State("running", t) /\ r \notin killed
        /\ \A g \in DOMAIN fires \ {f} : fires[g].ref = r => fires[g].step \notin InRunFire
  BY <1>1, <1>5 DEF SavedInv, AloneInv, FilesInv
<1>7. \A g \in DOMAIN fires : fires[g].ref \in Routines
  BY DEF TInv, FiresOK, FireRecord
<1> HIDE DEF r, s, t
<1>8. AloneInv'
  BY <1>2, <1>3 DEF AloneInv, FilesInv
<1>9. SavedInv'
  <2> SUFFICES ASSUME NEW g \in DOMAIN fires \ {f}, fires[g].step \in Saved,
                      fires[g].ref \notin overlapped
               PROVE  /\ state'[fires[g].ref] = State("running", fires[g].start)
                      /\ fires[g].ref \notin killed
    BY <1>2, <1>3 DEF SavedInv
  <2>1. fires[g].ref # r /\ fires[g].ref \in Routines
    BY <1>5, <1>6, <1>7
  <2> QED BY <1>3, <2>1 DEF SavedInv, FilesInv
<1>10. BegunInv'
  BY <1>2, <1>3 DEF BegunInv, FilesInv
<1>11. KilledInv'
  <2>1. killed \subseteq Routines
    BY DEF TInv, RestOK
  <2> QED BY <1>3, <1>6, <2>1 DEF KilledInv, FilesInv
<1>12. RunInv'
  <2>1. \A q \in Routines \ {r} : Live(q) \subseteq Live(q)'
    BY <1>1, <1>2 DEF Live, FiresOf, r
  <2> QED BY <1>3, <1>4, <2>1 DEF RunInv, FilesInv
<1>13. LastRunIsLatest'
  <2>1. r \notin overlapped => state[r].last = t
    BY <1>6 DEF State
  <2> QED BY <1>1, <1>3, <1>4, <2>1 DEF LastRunIsLatest, FilesInv
<1> QED BY <1>8, <1>9, <1>10, <1>11, <1>12, <1>13 DEF FilesInv

LEMMA FilesStep ==
  ASSUME TInv, FilesInv, [Next]_vars
  PROVE  FilesInv'
<1>1. CASE Tick
  BY <1>1, FilesKept DEF Tick
<1>2. CASE Load
  <2> DEFINE missed == {r \in Routines : Missed(r)}
             id == IdsFor(missed)
             ids == {id[r] : r \in missed}
             new(f) == Fire(CHOOSE r \in missed : id[r] = f, "catchup", 0, "starting",
                            LatestMissed(CHOOSE r \in missed : id[r] = f))
  <2>1. /\ fires' = [f \in DOMAIN fires \cup ids |-> IF f \in DOMAIN fires THEN fires[f] ELSE new(f)]
        /\ UNCHANGED <<state, killed, latest, overlapped>>
    BY <1>2 DEF Load
  <2>2. \A f : new(f).step = "starting"
    BY DEF Fire
  <2> HIDE DEF new, ids
  <2> QED BY <2>1, <2>2, FireAddedKeepsFiles
<1>3. CASE StartScheduler
  BY <1>3, FilesKept DEF StartScheduler
<1>4. CASE Exit
  <2> DEFINE dead == {f \in DOMAIN fires : fires[f].by # "manual"}
  <2>1. /\ fires' = Without(dead)
        /\ killed' = killed \cup {fires[f].ref : f \in {f \in dead : fires[f].step \in Saved}}
        /\ UNCHANGED <<state, latest, overlapped>>
    BY <1>4 DEF Exit
  <2>2. dead \in SUBSET DOMAIN fires
    OBVIOUS
  <2> HIDE DEF dead
  <2> QED BY <2>1, <2>2, KillKeepsFiles
<1>5. ASSUME NEW r \in Routines, ReplaceJob(r)
      PROVE  FilesInv'
  BY <1>5, FilesKept DEF ReplaceJob
<1>6. ASSUME NEW r \in Routines, Trigger(r)
      PROVE  FilesInv'
  <2>1. CASE UNCHANGED fires
    BY <1>6, <2>1, FilesKept DEF Trigger
  <2>2. CASE HasFreeIds(1) /\ fires' = With(FreeId, Fire(r, "schedule", job[r], "queued", 0))
    <3>1. FreeId \notin DOMAIN fires
      BY <2>2, FreeIdType
    <3>2. UNCHANGED <<state, killed, latest, overlapped>>
      BY <1>6 DEF Trigger
    <3> QED BY <2>2, <3>1, <3>2, FireAddedKeepsFiles DEF With, Fire
  <2> QED BY <1>6, <2>1, <2>2 DEF Trigger
<1>7. ASSUME NEW r \in Routines, RunNow(r)
      PROVE  FilesInv'
  <2>1. FreeId \notin DOMAIN fires /\ fires' = With(FreeId, Fire(r, "manual", 0, "starting", 0))
    BY <1>7, FreeIdType DEF RunNow
  <2>2. UNCHANGED <<state, killed, latest, overlapped>>
    BY <1>7 DEF RunNow
  <2> QED BY <2>1, <2>2, FireAddedKeepsFiles DEF With, Fire
<1>8. ASSUME NEW f \in Ids, LeaveQueue(f)
      PROVE  FilesInv'
  <2>1. f \in DOMAIN fires /\ fires[f] \in FireRecord /\ fires[f].step = "queued"
    BY <1>8 DEF LeaveQueue, Scheduled, TInv, FiresOK
  <2>2. /\ DOMAIN fires' = DOMAIN fires /\ fires'[f].step = "starting"
        /\ \A g \in DOMAIN fires \ {f} : fires'[g] = fires[g]
    BY <1>8, <2>1 DEF LeaveQueue, FireRecord
  <2>3. UNCHANGED <<state, killed, latest, overlapped>>
    BY <1>8 DEF LeaveQueue
  <2> QED BY <2>1, <2>2, <2>3, FilesKept DEF InRunFire, Saved
<1>9. ASSUME NEW f \in Ids, DropQueued(f)
      PROVE  FilesInv'
  <2>1. fires[f].step = "queued" /\ fires' = Without({f})
    BY <1>9 DEF DropQueued
  <2>2. UNCHANGED <<state, killed, latest, overlapped>>
    BY <1>9 DEF DropQueued
  <2> QED BY <2>1, <2>2, FilesKept DEF Without, Saved
<1>10. ASSUME NEW f \in Ids, ManualDies(f)
       PROVE  FilesInv'
  <2>1. {f} \in SUBSET DOMAIN fires /\ fires' = Without({f}) /\ UNCHANGED <<state, latest, overlapped>>
    BY <1>10 DEF ManualDies
  <2>2. killed' = killed \cup {fires[g].ref : g \in {g \in {f} : fires[g].step \in Saved}}
    BY <1>10 DEF ManualDies
  <2> QED BY <2>1, <2>2, KillKeepsFiles
<1>11. CASE UNCHANGED vars
  BY <1>11, FilesKept
<1> QED
  BY <1>1, <1>2, <1>3, <1>4, <1>5, <1>6, <1>7, <1>8, <1>9, <1>10, <1>11,
     ReadClockKeepsFiles, SaveRunningKeepsFiles, AgentReturnsKeepsFiles,
     SaveFinalKeepsFiles DEF Next, FireStep

LEMMA FilesInit == Init => FilesInv
<1> SUFFICES ASSUME Init PROVE FilesInv
  OBVIOUS
<1>0. fires = <<>>
  BY DEF Init
<1>1. DOMAIN fires = {}
  BY <1>0
<1>2. \A r \in Routines : state[r].status = "" /\ state[r].last = 0 /\ latest[r] = 0
  BY DEF Init, State
<1>3. killed = {}
  BY DEF Init
<1>4. KilledInv /\ RunInv /\ LastRunIsLatest
  BY <1>2, <1>3 DEF KilledInv, RunInv, LastRunIsLatest
<1> QED BY <1>1, <1>4 DEF FilesInv, AloneInv, SavedInv, BegunInv

LEMMA FilesInvHolds == Spec => [](TInv /\ FilesInv)
<1>1. Init => TInv /\ FilesInv
  BY TypeInit, FilesInit
<1>2. TInv /\ FilesInv /\ [Next]_vars => (TInv /\ FilesInv)'
  BY TypeStep, FilesStep
<1> QED BY <1>1, <1>2, PTL DEF Spec

\* A state file says "running" only while a fire of the routine runs or after
\* its process was killed, and always then unless fires overlap: whatever order
\* the daemon's fires, run-now, crashes and restarts come in (runFire and Save,
\* scheduler.go, state.go).
THEOREM RunningSound == Spec => []RunningIsTrue
<1>1. TInv /\ FilesInv => RunningIsTrue
  <2> SUFFICES ASSUME FilesInv, NEW r \in Routines
               PROVE  /\ state[r].status = "running" => Live(r) # {} \/ r \in killed
                      /\ Live(r) # {} \/ r \in killed =>
                           state[r].status = "running" \/ r \in overlapped
    BY DEF RunningIsTrue
  <2>1. \A f \in Live(r) : state[r].status = "running" \/ r \in overlapped
    <3> SUFFICES ASSUME NEW f \in Live(r), r \notin overlapped
                 PROVE  state[r].status = "running"
      OBVIOUS
    <3>1. state[r] = State("running", fires[f].start)
      BY DEF Live, FiresOf, SavedInv, FilesInv
    <3> QED BY <3>1 DEF State
  <2> QED BY <2>1 DEF FilesInv, RunInv, KilledInv
<1> QED BY <1>1, FilesInvHolds, PTL

\* The last run in a state file is the latest start any fire has saved there,
\* for a routine whose fires have not overlapped: it never goes back.
THEOREM LastRunSound == Spec => []LastRunIsLatest
<1>1. FilesInv => LastRunIsLatest
  BY DEF FilesInv
<1> QED BY <1>1, FilesInvHolds, PTL

(***************************************************************************)
(* Catch-ups                                                               *)
(***************************************************************************)

\* Catch-ups are only made by Load; no step changes what one is for.
LEMMA CatchUpsKept ==
  ASSUME CatchUpIsDue, overlapped \subseteq overlapped',
         \A f \in DOMAIN fires' :
           \/ fires'[f].by # "catchup"
           \/ /\ f \in DOMAIN fires /\ fires'[f].by = fires[f].by
              /\ fires'[f].ref = fires[f].ref /\ fires'[f].served = fires[f].served
              /\ fires'[f].missed = fires[f].missed
  PROVE  CatchUpIsDue'
BY DEF CatchUpIsDue

LEMMA FireStepKeepsCatchUps ==
  ASSUME TInv, CatchUpIsDue, NEW f \in Ids, FireStep(f)
  PROVE  CatchUpIsDue'
<1>0. \A g \in DOMAIN fires : fires[g] \in FireRecord
  BY DEF TInv, FiresOK
<1>1. overlapped \subseteq overlapped'
  BY DEF FireStep, LeaveQueue, DropQueued, ReadClock, SaveRunning, AgentReturns, SaveFinal,
         ManualDies
<1>2. CASE DropQueued(f) \/ SaveFinal(f) \/ ManualDies(f)
  <2>1. fires' = Without({f})
    BY <1>2 DEF DropQueued, SaveFinal, ManualDies
  <2> QED BY <1>1, <2>1, CatchUpsKept DEF Without
<1>3. CASE LeaveQueue(f)
  <2>1. fires' = [fires EXCEPT ![f].step = "starting"]
    BY <1>3 DEF LeaveQueue
  <2> QED BY <1>0, <1>1, <2>1, CatchUpsKept DEF FireRecord
<1>4. CASE ReadClock(f)
  <2>1. fires' = [fires EXCEPT ![f].step = "begun", ![f].start = now]
    BY <1>4 DEF ReadClock
  <2> QED BY <1>0, <1>1, <2>1, CatchUpsKept DEF FireRecord
<1>5. CASE SaveRunning(f)
  <2>1. fires' = [fires EXCEPT ![f].step = "running"]
    BY <1>5 DEF SaveRunning
  <2> QED BY <1>0, <1>1, <2>1, CatchUpsKept DEF FireRecord
<1>6. CASE AgentReturns(f)
  <2>1. PICK ok \in BOOLEAN : fires' = [fires EXCEPT ![f].step = "ended", ![f].ok = ok]
    BY <1>6 DEF AgentReturns
  <2> QED BY <1>0, <1>1, <2>1, CatchUpsKept DEF FireRecord
<1> QED BY <1>2, <1>3, <1>4, <1>5, <1>6 DEF FireStep

LEMMA CatchUpStep ==
  ASSUME TInv, FilesInv, CatchUpIsDue, [Next]_vars
  PROVE  CatchUpIsDue'
<1>1. CASE Load
  <2> DEFINE missed == {r \in Routines : Missed(r)}
             id == IdsFor(missed)
             ids == {id[r] : r \in missed}
             new(f) == Fire(CHOOSE r \in missed : id[r] = f, "catchup", 0, "starting",
                            LatestMissed(CHOOSE r \in missed : id[r] = f))
  <2>1. /\ fires' = [f \in DOMAIN fires \cup ids |-> IF f \in DOMAIN fires THEN fires[f] ELSE new(f)]
        /\ UNCHANGED overlapped
    BY <1>1 DEF Load
  <2>2. ASSUME NEW f \in ids, new(f).ref \notin overlapped
        PROVE  new(f).served < new(f).missed
    <3> DEFINE q == CHOOSE r \in missed : id[r] = f
    <3>1. q \in missed
      OBVIOUS
    <3>2. new(f) = Fire(q, "catchup", 0, "starting", LatestMissed(q))
      OBVIOUS
    <3> HIDE DEF new, q
    <3>3. new(f).ref = q /\ new(f).served = latest[q] /\ new(f).missed = LatestMissed(q)
      BY <3>2 DEF Fire
    <3>4. q \in Routines /\ NextFire(q, state[q].last) <= now
      BY <3>1 DEF Missed
    <3>5. state[q].last = latest[q]
      BY <2>2, <3>3, <3>4 DEF FilesInv, LastRunIsLatest
    <3>6. now \in Nat /\ latest[q] \in Nat
      <4>1. latest[q] \in 0..now
        BY <3>4 DEF TInv, RestOK
      <4> QED BY <4>1, NowType DEF TInv
    <3> QED BY <3>3, <3>4, <3>5, <3>6, LatestMissedMeaning
  <2> HIDE DEF new, ids
  <2> QED BY <2>1, <2>2 DEF CatchUpIsDue
<1>2. CASE Exit
  <2>1. fires' = Without({f \in DOMAIN fires : fires[f].by # "manual"}) /\ UNCHANGED overlapped
    BY <1>2 DEF Exit
  <2> QED BY <2>1, CatchUpsKept DEF Without
<1>3. ASSUME NEW r \in Routines, Trigger(r) \/ RunNow(r)
      PROVE  CatchUpIsDue'
  <2>1. \/ UNCHANGED fires
        \/ fires' = With(FreeId, Fire(r, "schedule", job[r], "queued", 0))
        \/ fires' = With(FreeId, Fire(r, "manual", 0, "starting", 0))
    BY <1>3 DEF Trigger, RunNow
  <2>2. UNCHANGED overlapped
    BY <1>3 DEF Trigger, RunNow
  <2> QED BY <2>1, <2>2, CatchUpsKept DEF With, Fire
<1>4. CASE Tick \/ StartScheduler \/ UNCHANGED vars \/ \E r \in Routines : ReplaceJob(r)
  <2>1. UNCHANGED <<fires, overlapped>>
    BY <1>4 DEF Tick, StartScheduler, ReplaceJob
  <2> QED BY <2>1, CatchUpsKept
<1> QED
  BY <1>1, <1>2, <1>3, <1>4, FireStepKeepsCatchUps DEF Next

\* A restart does not serve again what a fire has begun to serve: what a
\* catch-up is for lies after every start recorded when it was queued
\* (FindMissedFires, catchup.go), unless fires of the routine overlap.
THEOREM CatchUpSound == Spec => []CatchUpIsDue
<1>1. Init => CatchUpIsDue
  <2>1. ASSUME Init PROVE DOMAIN fires = {}
    <3>1. fires = <<>>
      BY <2>1 DEF Init
    <3> QED BY <3>1
  <2> QED BY <2>1 DEF CatchUpIsDue
<1>2. TInv /\ FilesInv /\ CatchUpIsDue /\ [Next]_vars => CatchUpIsDue'
  BY CatchUpStep
<1> QED BY <1>1, <1>2, FilesInvHolds, PTL DEF Spec

----------------------------------------------------------------------------
(***************************************************************************)
(* The dashboard, the other program that lives beside the runs: one        *)
(* instance of Dashboard, for any number of sessions, launches and lines,  *)
(* and for files of which a reader may or may not see half of a line.      *)
(***************************************************************************)

CONSTANTS
  MaxWork, MaxPerGroup, Ends, Torn, CoarseTime

VARIABLES
  runner, status, quiet, rows, known, unread, seen, selected, forced, toast

Dash == INSTANCE Dashboard

USE DEF Dash!disk, Dash!tail, Dash!list

Line == {"event", "bad", "torn"}

\* The events among the first p lines.
UpTo(ls, p) == {i \in 1..p : ls[i] = "event"}

LEMMA UpToIsFinite ==
  ASSUME NEW ls, NEW p \in Nat
  PROVE  IsFiniteSet(UpTo(ls, p)) /\ Cardinality(UpTo(ls, p)) \in Nat
<1>1. IsFiniteSet(1..p)
  BY FS_Interval
<1>2. UpTo(ls, p) \in SUBSET (1..p)
  BY DEF UpTo
<1> QED BY <1>1, <1>2, FS_Subset, FS_CardinalityType

LEMMA PrefixEvents ==
  ASSUME NEW ls \in Seq(Line), NEW p \in 0..Len(ls)
  PROVE  Events(SubSeq(ls, 1, p)) = Cardinality(UpTo(ls, p))
<1>1. /\ DOMAIN SubSeq(ls, 1, p) = 1..p
      /\ \A i \in 1..p : SubSeq(ls, 1, p)[i] = ls[i]
  OBVIOUS
<1>2. {i \in DOMAIN SubSeq(ls, 1, p) : SubSeq(ls, 1, p)[i] = "event"} = UpTo(ls, p)
  BY <1>1 DEF UpTo
<1> QED BY <1>2 DEF Events

\* What a tailer reads after its offset is what the prefix lacks.
LEMMA RestEvents ==
  ASSUME NEW ls \in Seq(Line), NEW p \in 0..Len(ls)
  PROVE  /\ Events(SubSeq(ls, p + 1, Len(ls))) \in Nat
         /\ Cardinality(UpTo(ls, p)) + Events(SubSeq(ls, p + 1, Len(ls)))
              = Cardinality(UpTo(ls, Len(ls)))
<1> DEFINE rest == SubSeq(ls, p + 1, Len(ls))
           From == {i \in (p + 1)..Len(ls) : ls[i] = "event"}
           Shift == [i \in From |-> i - p]
           Image == {i \in DOMAIN rest : rest[i] = "event"}
<1>1. /\ DOMAIN rest = 1..(Len(ls) - p)
      /\ \A i \in 1..(Len(ls) - p) : rest[i] = ls[i + p]
  OBVIOUS
<1>2. IsFiniteSet(From)
  <2>1. IsFiniteSet((p + 1)..Len(ls))
    BY FS_Interval
  <2> QED BY <2>1, FS_Subset
<1>3. Shift \in Bijection(From, Image)
  <2>1. \A i \in From : i - p \in Image
    BY <1>1
  <2>2. \A i, j \in From : i - p = j - p => i = j
    OBVIOUS
  <2>3. \A k \in Image : k + p \in From /\ (k + p) - p = k
    BY <1>1
  <2>4. Shift \in [From -> Image]
    BY <2>1
  <2>5. Shift \in Injection(From, Image)
    BY <2>2, <2>4 DEF Injection, IsInjective
  <2>6. \A k \in Image : \E i \in From : Shift[i] = k
    BY <2>3
  <2>7. Shift \in Surjection(From, Image)
    BY <2>4, <2>6 DEF Surjection
  <2> QED BY <2>5, <2>7 DEF Bijection
<1>4. Cardinality(From) = Events(rest) /\ Cardinality(From) \in Nat
  <2>1. ExistsBijection(From, Image)
    BY <1>3 DEF ExistsBijection
  <2>2. Cardinality(Image) = Cardinality(From)
    BY <1>2, <2>1, FS_Bijection
  <2> QED BY <1>2, <2>2, FS_CardinalityType DEF Events
<1>5. UpTo(ls, Len(ls)) = UpTo(ls, p) \cup From /\ UpTo(ls, p) \cap From = {}
  BY DEF UpTo
<1>6. Cardinality(UpTo(ls, p) \cup From) = Cardinality(UpTo(ls, p)) + Cardinality(From)
  <2>1. Cardinality({}) = 0
    BY FS_EmptySet
  <2>2. IsFiniteSet(UpTo(ls, p)) /\ Cardinality(UpTo(ls, p)) \in Nat
    BY UpToIsFinite
  <2>3. Cardinality(UpTo(ls, p) \cup From)
          = Cardinality(UpTo(ls, p)) + Cardinality(From) - Cardinality(UpTo(ls, p) \cap From)
    BY <1>2, <2>2, FS_Union
  <2>4. Cardinality(UpTo(ls, p) \cap From) = 0
    BY <1>5, <2>1
  <2> HIDE DEF From
  <2> QED BY <1>4, <2>2, <2>3, <2>4
<1> QED BY <1>4, <1>5, <1>6

\* A line that is added leaves what was read.
LEMMA LineAdded ==
  ASSUME NEW ls \in Seq(Line), NEW p \in 0..Len(ls), NEW x \in Line
  PROVE  /\ Append(ls, x) \in Seq(Line) /\ p \in 0..Len(Append(ls, x))
         /\ UpTo(Append(ls, x), p) = UpTo(ls, p)
<1>1. /\ Append(ls, x) \in Seq(Line) /\ Len(Append(ls, x)) = Len(ls) + 1
      /\ \A i \in 1..Len(ls) : Append(ls, x)[i] = ls[i]
  OBVIOUS
<1>2. UpTo(Append(ls, x), p) = UpTo(ls, p)
  BY <1>1 DEF UpTo
<1> QED BY <1>1, <1>2

\* A torn last line that becomes another: an event only adds to what was read.
LEMMA LineRewritten ==
  ASSUME NEW ls \in Seq(Line), NEW p \in 0..Len(ls), NEW x \in Line,
         ls # <<>>, ls[Len(ls)] = "torn"
  PROVE  LET ls2 == SubSeq(ls, 1, Len(ls) - 1) \o <<x>>
         IN  /\ ls2 \in Seq(Line) /\ p \in 0..Len(ls2)
             /\ Cardinality(UpTo(ls, p)) <= Cardinality(UpTo(ls2, p))
             /\ x # "event" => UpTo(ls2, p) = UpTo(ls, p)
<1> DEFINE ls2 == SubSeq(ls, 1, Len(ls) - 1) \o <<x>>
<1>1. Len(ls) \in Nat \ {0} /\ Len(ls) - 1 \in Nat
  OBVIOUS
<1>2. /\ SubSeq(ls, 1, Len(ls) - 1) \in Seq(Line)
      /\ Len(SubSeq(ls, 1, Len(ls) - 1)) = Len(ls) - 1
      /\ \A i \in 1..(Len(ls) - 1) : SubSeq(ls, 1, Len(ls) - 1)[i] = ls[i]
  <2>1. \A n \in 1..Len(ls) : ls[n] \in Line
    OBVIOUS
  <2>2. \A i \in 1..(Len(ls) - 1) : ls[i] \in Line
    BY <1>1, <2>1
  <2>3. SubSeq(ls, 1, Len(ls) - 1) = [i \in 1..(Len(ls) - 1) |-> ls[i]]
    BY <1>1
  <2>4. SubSeq(ls, 1, Len(ls) - 1) \in Seq(Line)
    BY <1>1, <2>2, <2>3
  <2>5. Len(SubSeq(ls, 1, Len(ls) - 1)) = Len(ls) - 1
    <3> DEFINE n == Len(ls) - 1
    <3>1. n \in Nat /\ n <= Len(ls)
      BY <1>1
    <3> HIDE DEF n
    <3>2. Len(SubSeq(ls, 1, n)) = n
      BY <3>1
    <3> QED BY <3>2 DEF n
  <2>6. \A i \in 1..(Len(ls) - 1) : SubSeq(ls, 1, Len(ls) - 1)[i] = ls[i]
    BY <2>3
  <2> QED BY <2>4, <2>5, <2>6
<1>3. /\ ls2 \in Seq(Line) /\ Len(ls2) = Len(ls)
      /\ \A i \in 1..(Len(ls) - 1) : ls2[i] = ls[i]
      /\ ls2[Len(ls)] = x
  BY <1>1, <1>2
<1> HIDE DEF ls2
<1>4. UpTo(ls, p) \subseteq UpTo(ls2, p)
  BY <1>1, <1>3 DEF UpTo
<1>5. x # "event" => UpTo(ls2, p) = UpTo(ls, p)
  BY <1>1, <1>3 DEF UpTo
<1>6. Cardinality(UpTo(ls, p)) <= Cardinality(UpTo(ls2, p))
  BY <1>4, UpToIsFinite, FS_Subset
<1> USE DEF ls2
<1> QED BY <1>3, <1>5, <1>6

TailType ==
  /\ lines \in [Dirs -> Seq(Line)] /\ pos \in [Dirs -> Nat] /\ applied \in [Dirs -> Nat]
  /\ \A d \in Dirs : pos[d] \in 0..Len(lines[d])

\* No event is counted twice, torn or not; none is lost where none is seen torn.
TailInv ==
  /\ TailType
  /\ \A d \in Dirs :
       /\ applied[d] <= Cardinality(UpTo(lines[d], pos[d]))
       /\ ~Torn => applied[d] = Cardinality(UpTo(lines[d], pos[d]))

\* The instance counts as this module does.
LEMMA DashCounts ==
  /\ Dash!Dirs = Dirs /\ Dash!NoRun = NoRun
  /\ \A S : Dash!Cardinality(S) = Cardinality(S)
  /\ \A ls : Dash!Events(ls) = Events(ls)
<1>1. \A S : Dash!Cardinality(S) = Cardinality(S)
  BY DEF Dash!Cardinality, Cardinality
<1> QED BY <1>1 DEF Dash!Dirs, Dirs, Dash!NoRun, NoRun, Dash!Events, Events

LEMMA TailInitially == Dash!Init => TailInv
<1> SUFFICES ASSUME Dash!Init PROVE TailInv
  OBVIOUS
<1>1. /\ lines = [d \in Dirs |-> <<>>] /\ pos = [d \in Dirs |-> 0]
      /\ applied = [d \in Dirs |-> 0]
  BY DEF Dash!Init, Dash!Dirs, Dirs
<1>2. UpTo(<<>>, 0) = {} /\ Cardinality({}) = 0
  BY FS_EmptySet DEF UpTo
<1>3. ASSUME NEW d \in Dirs
      PROVE  /\ lines[d] = <<>> /\ pos[d] = 0 /\ applied[d] = 0
             /\ Cardinality(UpTo(lines[d], pos[d])) = 0 /\ pos[d] \in 0..Len(lines[d])
  <2>1. lines[d] = <<>> /\ pos[d] = 0 /\ applied[d] = 0
    BY <1>1
  <2> QED BY <1>2, <2>1
<1>4. TailType
  BY <1>1, <1>3 DEF TailType
<1> QED BY <1>3, <1>4 DEF TailInv

\* A refresh counts what is new and passes it.
LEMMA RefreshKeepsTail ==
  ASSUME TailInv, NEW ds, Dash!Refresh(ds), UNCHANGED lines
  PROVE  TailInv'
<1>1. /\ pos' = [d \in Dirs |-> IF d \in ds THEN Len(lines[d]) ELSE pos[d]]
      /\ applied' = [d \in Dirs |-> IF d \in ds
                        THEN applied[d] + Events(SubSeq(lines[d], pos[d] + 1, Len(lines[d])))
                        ELSE applied[d]]
  BY DashCounts DEF Dash!Refresh, Dash!EventsRead
<1>2. ASSUME NEW d \in Dirs
      PROVE  /\ pos'[d] \in 0..Len(lines'[d]) /\ applied'[d] \in Nat
             /\ applied'[d] <= Cardinality(UpTo(lines'[d], pos'[d]))
             /\ ~Torn => applied'[d] = Cardinality(UpTo(lines'[d], pos'[d]))
  <2>1. /\ lines'[d] = lines[d] /\ lines[d] \in Seq(Line) /\ Len(lines[d]) \in Nat
        /\ pos[d] \in 0..Len(lines[d]) /\ applied[d] \in Nat
    BY DEF TailInv, TailType
  <2>2. CASE d \notin ds
    BY <1>1, <2>1, <2>2 DEF TailInv, TailType
  <2>3. CASE d \in ds
    <3> DEFINE n == Events(SubSeq(lines[d], pos[d] + 1, Len(lines[d])))
               c == Cardinality(UpTo(lines[d], pos[d]))
    <3>1. n \in Nat /\ c + n = Cardinality(UpTo(lines[d], Len(lines[d])))
      BY <2>1, RestEvents
    <3>2. c \in Nat
      BY <2>1, UpToIsFinite
    <3>3. applied[d] <= c /\ (~Torn => applied[d] = c)
      BY DEF TailInv
    <3>4. applied'[d] = applied[d] + n /\ pos'[d] = Len(lines[d])
      BY <1>1, <2>3
    <3> HIDE DEF n, c
    <3>5. applied'[d] <= c + n /\ (~Torn => applied'[d] = c + n)
      BY <2>1, <3>1, <3>2, <3>3, <3>4
    <3> QED BY <2>1, <3>1, <3>2, <3>4, <3>5
  <2> QED BY <2>2, <2>3
<1>3. /\ lines' \in [Dirs -> Seq(Line)] /\ pos' \in [Dirs -> Nat] /\ applied' \in [Dirs -> Nat]
  <2>1. lines' \in [Dirs -> Seq(Line)]
    BY DEF TailInv, TailType
  <2>2. \A d \in Dirs : Len(lines'[d]) \in Nat
    BY <2>1
  <2> QED BY <1>1, <1>2, <2>1, <2>2
<1> QED BY <1>2, <1>3 DEF TailInv, TailType

LEMMA WrittenKeepsTail ==
  ASSUME TailInv, UNCHANGED <<pos, applied>>, NEW d \in Dirs, NEW x \in Line,
         lines' = [lines EXCEPT ![d] = lines'[d]],
         \/ lines'[d] = lines[d]
         \/ lines'[d] = Append(lines[d], x)
         \/ /\ lines[d] # <<>> /\ lines[d][Len(lines[d])] = "torn"
            /\ lines'[d] = SubSeq(lines[d], 1, Len(lines[d]) - 1) \o <<x>>
            /\ Torn \/ x # "event"
  PROVE  TailInv'
<1>0. /\ lines[d] \in Seq(Line) /\ pos[d] \in 0..Len(lines[d]) /\ Len(lines[d]) \in Nat
      /\ applied[d] \in Nat /\ lines \in [Dirs -> Seq(Line)]
  BY DEF TailInv, TailType
<1>1. /\ lines'[d] \in Seq(Line) /\ pos[d] \in 0..Len(lines'[d])
      /\ Cardinality(UpTo(lines[d], pos[d])) <= Cardinality(UpTo(lines'[d], pos[d]))
      /\ ~Torn => Cardinality(UpTo(lines[d], pos[d])) = Cardinality(UpTo(lines'[d], pos[d]))
  <2>1. CASE lines'[d] = lines[d]
    BY <1>0, <2>1, UpToIsFinite
  <2>2. CASE lines'[d] = Append(lines[d], x)
    <3>1. /\ Append(lines[d], x) \in Seq(Line) /\ pos[d] \in 0..Len(Append(lines[d], x))
          /\ UpTo(Append(lines[d], x), pos[d]) = UpTo(lines[d], pos[d])
      BY <1>0, LineAdded
    <3> QED BY <1>0, <2>2, <3>1, UpToIsFinite
  <2>3. CASE /\ lines[d] # <<>> /\ lines[d][Len(lines[d])] = "torn"
             /\ lines'[d] = SubSeq(lines[d], 1, Len(lines[d]) - 1) \o <<x>>
             /\ Torn \/ x # "event"
    <3> DEFINE ls2 == SubSeq(lines[d], 1, Len(lines[d]) - 1) \o <<x>>
    <3>1. /\ ls2 \in Seq(Line) /\ pos[d] \in 0..Len(ls2)
          /\ Cardinality(UpTo(lines[d], pos[d])) <= Cardinality(UpTo(ls2, pos[d]))
          /\ x # "event" => UpTo(ls2, pos[d]) = UpTo(lines[d], pos[d])
      BY <1>0, <2>3, LineRewritten
    <3>2. lines'[d] = ls2
      BY <2>3
    <3> HIDE DEF ls2
    <3> QED BY <2>3, <3>1, <3>2
  <2> QED BY <2>1, <2>2, <2>3
<1>2. /\ lines' \in [Dirs -> Seq(Line)]
      /\ \A e \in Dirs : e # d => lines'[e] = lines[e]
  BY <1>0, <1>1
<1>3. Cardinality(UpTo(lines[d], pos[d])) \in Nat /\ Cardinality(UpTo(lines'[d], pos[d])) \in Nat
  BY <1>0, UpToIsFinite
<1>4. /\ applied[d] <= Cardinality(UpTo(lines'[d], pos[d]))
      /\ ~Torn => applied[d] = Cardinality(UpTo(lines'[d], pos[d]))
  <2>1. /\ applied[d] <= Cardinality(UpTo(lines[d], pos[d]))
        /\ ~Torn => applied[d] = Cardinality(UpTo(lines[d], pos[d]))
    BY DEF TailInv
  <2> QED BY <1>0, <1>1, <1>3, <2>1
<1>5. \A e \in Dirs :
        /\ pos'[e] \in 0..Len(lines'[e])
        /\ applied'[e] <= Cardinality(UpTo(lines'[e], pos'[e]))
        /\ ~Torn => applied'[e] = Cardinality(UpTo(lines'[e], pos'[e]))
  BY <1>1, <1>2, <1>4 DEF TailInv, TailType
<1> QED BY <1>2, <1>5 DEF TailInv, TailType

LEMMA TailStep == ASSUME TailInv, [Dash!Next]_Dash!vars PROVE TailInv'
<1>1. ASSUME NEW scan \in BOOLEAN, Dash!Frame(scan)
      PROVE  TailInv'
  <2>1. UNCHANGED lines /\ \E ds : Dash!Refresh(ds)
    BY <1>1 DEF Dash!Frame
  <2> QED BY <2>1, RefreshKeepsTail
<1>2. ASSUME NEW d \in Dirs, Dash!AppendEvent(d) \/ Dash!Resume(d)
      PROVE  TailInv'
  <2>1. /\ UNCHANGED <<pos, applied>> /\ lines' = [lines EXCEPT ![d] = lines'[d]]
        /\ \/ Torn /\ lines[d] # <<>> /\ Dash!Last(lines[d]) = "torn" /\ lines'[d] = Dash!Completed(lines[d])
           \/ lines'[d] = Dash!Written(lines[d])
    <3>1. CASE Dash!AppendEvent(d)
      BY <3>1 DEF Dash!AppendEvent, TailInv, TailType
    <3>2. CASE Dash!Resume(d)
      BY <3>2 DEF Dash!Resume, TailInv, TailType
    <3> QED BY <1>2, <3>1, <3>2
  <2>2. \/ lines'[d] = Append(lines[d], "event")
        \/ /\ lines[d] # <<>> /\ lines[d][Len(lines[d])] = "torn"
           /\ \/ lines'[d] = SubSeq(lines[d], 1, Len(lines[d]) - 1) \o <<"bad">>
              \/ Torn /\ lines'[d] = SubSeq(lines[d], 1, Len(lines[d]) - 1) \o <<"event">>
    BY <2>1 DEF Dash!Written, Dash!Completed, Dash!Last, Dash!Front
  <2>3. "bad" \in Line /\ "event" \in Line /\ "bad" # "event"
    BY DEF Line
  <2> QED BY <2>1, <2>2, <2>3, WrittenKeepsTail
<1>3. ASSUME NEW d \in Dirs, NEW survives \in BOOLEAN, Dash!WriteHalf(d, survives)
      PROVE  TailInv'
  <2>1. /\ UNCHANGED <<pos, applied>> /\ lines' = [lines EXCEPT ![d] = lines'[d]]
        /\ lines'[d] = lines[d] \/ lines'[d] = Append(lines[d], "torn")
    BY <1>3 DEF Dash!WriteHalf, TailInv, TailType
  <2>2. "torn" \in Line
    BY DEF Line
  <2> QED BY <2>1, <2>2, WrittenKeepsTail
<1>4. CASE UNCHANGED <<lines, pos, applied>>
  BY <1>4 DEF TailInv, TailType
<1>5. CASE Dash!Frames
  BY <1>1, <1>5 DEF Dash!Frames
<1>6. CASE Dash!Keys \/ Dash!Child \/ Dash!TimePasses \/ UNCHANGED Dash!vars
  BY <1>4, <1>6 DEF Dash!Keys, Dash!Child, Dash!TimePasses, Dash!vars, Dash!Cycle, Dash!Launch,
                    Dash!Cancel, Dash!Reap
<1>7. CASE Dash!OtherRuns
  <2>1. PICK d \in Dirs : Dash!Run(d)
    BY <1>7 DEF Dash!OtherRuns, Dash!Dirs, Dirs
  <2>2. CASE \/ Dash!MakeDir(d) \/ Dash!FirstMeta(d) \/ Dash!UpdateMetrics(d) \/ Dash!Crash(d)
             \/ \E s \in Ends : Dash!Finish(d, s)
    BY <1>4, <2>2 DEF Dash!MakeDir, Dash!FirstMeta, Dash!UpdateMetrics, Dash!Crash, Dash!Finish
  <2> QED BY <1>2, <1>3, <2>1, <2>2 DEF Dash!Run
<1> QED BY <1>5, <1>6, <1>7 DEF Dash!Next

\* A tailer has counted each event it has passed, where no reader sees half of a
\* line (watch/tailer.go refreshEvents). Where one does, TornLinesAreDeferred
\* fails, and the next theorem is what is left.
THEOREM TailSound == ASSUME ~Torn PROVE Dash!Spec => []TailIsExact
<1>1. TailInv => TailIsExact
  BY PrefixEvents DEF TailInv, TailType, TailIsExact
<1> QED BY <1>1, TailInitially, TailStep, PTL DEF Dash!Spec

\* Nothing is counted twice, whatever a reader sees and whatever a crash left.
EventsCountOnce == \A d \in Dirs : applied[d] <= Events(SubSeq(lines[d], 1, pos[d]))

THEOREM EventsSound == Dash!Spec => []EventsCountOnce
<1>1. TailInv => EventsCountOnce
  BY PrefixEvents DEF TailInv, TailType, EventsCountOnce
<1> QED BY <1>1, TailInitially, TailStep, PTL DEF Dash!Spec

(***************************************************************************)
(* Launches and the sessions they are taken for.                           *)
(***************************************************************************)

LEMMA DirsAreFinite ==
  ASSUME Dash!DashboardAssumption, NEW S \in SUBSET Dirs
  PROVE  IsFiniteSet(S) /\ Cardinality(S) \in Nat
<1>1. IsFiniteSet(Dirs)
  <2>1. Sessions \in Nat
    BY DEF Dash!DashboardAssumption
  <2> QED BY <2>1, FS_Interval DEF Dirs
<1> QED BY <1>1, FS_Subset, FS_CardinalityType

\* How many of S are no older than d.
Rank(S, d) == Cardinality({e \in S : e >= d})

\* Newest first, the members of a set have the places from one to their number.
LEMMA RanksArePlaces ==
  ASSUME Dash!DashboardAssumption, NEW S \in SUBSET Dirs
  PROVE  /\ \A d \in S : Rank(S, d) \in 1..Cardinality(S)
         /\ \A d, e \in S : Rank(S, d) = Rank(S, e) => d = e
         /\ \A k \in 1..Cardinality(S) : \E d \in S : Rank(S, d) = k
<1>0. IsFiniteSet(S) /\ Cardinality(S) \in Nat /\ S \subseteq Int
  BY DirsAreFinite DEF Dirs
<1>1. ASSUME NEW d \in S PROVE Rank(S, d) \in 1..Cardinality(S)
  <2> DEFINE A == {e \in S : e >= d}
  <2>1. A \in SUBSET S /\ d \in A
    BY <1>0
  <2>2. IsFiniteSet(A) /\ Cardinality(A) <= Cardinality(S) /\ Cardinality(A) \in Nat
    BY <1>0, <2>1, FS_Subset, FS_CardinalityType
  <2>3. Cardinality(A) # 0
    BY <2>1, <2>2, FS_EmptySet
  <2> QED BY <1>0, <2>2, <2>3 DEF Rank
<1>2. ASSUME NEW d \in S, NEW e \in S, d < e
      PROVE  Rank(S, e) < Rank(S, d)
  <2> DEFINE A == {x \in S : x >= d}
             B == {x \in S : x >= e}
  <2>0. /\ \A x \in S : x >= e => x >= d
        /\ d >= d /\ ~(d >= e)
    BY <1>0, <1>2
  <2>1. A \in SUBSET S /\ B \in SUBSET A /\ d \in A /\ d \notin B
    BY <2>0
  <2>2. IsFiniteSet(A) /\ Cardinality(A) \in Nat
    BY <1>0, <2>1, FS_Subset, FS_CardinalityType
  <2>3. Cardinality(B) <= Cardinality(A) /\ Cardinality(B) # Cardinality(A) /\ Cardinality(B) \in Nat
    BY <2>1, <2>2, FS_Subset, FS_CardinalityType
  <2> QED BY <2>2, <2>3 DEF Rank
<1>3. \A d, e \in S : Rank(S, d) = Rank(S, e) => d = e
  <2> SUFFICES ASSUME NEW d \in S, NEW e \in S, Rank(S, d) = Rank(S, e), d # e
               PROVE  FALSE
    OBVIOUS
  <2>1. d < e \/ e < d
    BY <1>0
  <2>2. Rank(S, d) \in Int /\ Rank(S, e) \in Int
    BY <1>0, <1>1
  <2> QED BY <1>2, <2>1, <2>2
<1>4. \A k \in 1..Cardinality(S) : \E d \in S : Rank(S, d) = k
  <2> DEFINE f == [d \in S |-> Rank(S, d)]
             R == {Rank(S, d) : d \in S}
  <2>1. f \in [S -> R] /\ \A d, e \in S : f[d] = f[e] => d = e
    BY <1>3
  <2>2. f \in Injection(S, R)
    BY <2>1 DEF Injection, IsInjective
  <2>3. \A k \in R : \E d \in S : f[d] = k
    OBVIOUS
  <2>4. f \in Surjection(S, R)
    BY <2>1, <2>3 DEF Surjection
  <2>5. ExistsBijection(S, R)
    BY <2>2, <2>4 DEF Bijection, ExistsBijection
  <2>6. Cardinality(R) = Cardinality(S)
    BY <1>0, <2>5, FS_Bijection
  <2>7. R \in SUBSET (1..Cardinality(S))
    BY <1>1
  <2>8. IsFiniteSet(1..Cardinality(S)) /\ Cardinality(1..Cardinality(S)) = Cardinality(S)
    BY <1>0, FS_Interval
  <2>9. R = 1..Cardinality(S)
    BY <2>6, <2>7, <2>8, FS_Subset
  <2> QED BY <2>9
<1> QED BY <1>1, <1>3, <1>4

Given == {d \in Dirs : pairs[d] # NoRun}

LaunchType ==
  /\ children \in Seq({"running", "exited", "failed"})
  /\ pending \in Seq(1..Len(children))
  /\ pairs \in [Dirs -> 0..Len(children)]
  /\ known \in SUBSET Dirs

\* Only a directory that was found has a launch, and no launch waits twice.
LaunchInv ==
  /\ LaunchType
  /\ Given \subseteq known
  /\ \A i, j \in DOMAIN pending : pending[i] = pending[j] => i = j
  /\ LaunchesPairOnce

LEMMA LaunchInitially == ASSUME Dash!DashboardAssumption PROVE Dash!Init => LaunchInv
<1> SUFFICES ASSUME Dash!Init PROVE LaunchInv
  OBVIOUS
<1>1. /\ pending = <<>> /\ children = <<>> /\ known \in SUBSET Dirs
      /\ pairs = [d \in Dirs |-> 0]
  <2>1. PICK old \in 0..1 : /\ pending = <<>> /\ children = <<>> /\ known = 1..old
                            /\ pairs = [d \in Dirs |-> 0]
    BY DashCounts DEF Dash!Init, NoRun
  <2>2. 1 \in Dirs
    BY DEF Dash!DashboardAssumption, Dirs
  <2>3. 1..old \subseteq {1}
    BY <2>1
  <2> QED BY <2>1, <2>2, <2>3
<1>2. Given = {}
  BY <1>1 DEF Given, NoRun
<1>3. Cardinality(Given) = 0 /\ Len(pending) = 0 /\ Len(children) = 0 /\ DOMAIN pending = {}
  BY <1>1, <1>2, FS_EmptySet
<1>4. LaunchType
  BY <1>1 DEF LaunchType
<1>5. LaunchesPairOnce
  BY <1>2, <1>3 DEF LaunchesPairOnce, Given
<1> QED BY <1>2, <1>3, <1>4, <1>5 DEF LaunchInv

LEMMA LaunchAdded ==
  ASSUME Dash!DashboardAssumption, LaunchInv, Dash!Launch
  PROVE  LaunchInv'
<1> DEFINE n == Len(children)  m == Len(pending)
<1>1. /\ children' = Append(children, "running") /\ pending' = Append(pending, n + 1)
      /\ UNCHANGED <<pairs, known>>
  BY DEF Dash!Launch, Dash!Start
<1>2. /\ n \in Nat /\ m \in Nat /\ Len(children') = n + 1 /\ Len(pending') = m + 1
      /\ DOMAIN pending = 1..m /\ DOMAIN pending' = 1..(m + 1)
      /\ \A i \in 1..m : pending'[i] = pending[i] /\ pending[i] \in 1..n
      /\ pending'[m + 1] = n + 1
  BY <1>1 DEF LaunchInv, LaunchType
<1> HIDE DEF n, m
<1>3. LaunchType'
  <2>1. children' \in Seq({"running", "exited", "failed"})
    BY <1>1 DEF LaunchInv, LaunchType
  <2>2. \A i \in 1..(m + 1) : pending'[i] \in 1..(n + 1)
    BY <1>2
  <2>3. pending' \in Seq(1..(n + 1))
    <3>1. pending' \in Seq(Int)
      BY <1>1, <1>2 DEF LaunchInv, LaunchType
    <3> QED BY <1>2, <2>2, <3>1
  <2>4. pairs' \in [Dirs -> 0..(n + 1)]
    <3>1. pairs \in [Dirs -> 0..n]
      BY DEF LaunchInv, LaunchType, n
    <3>2. 0..n \subseteq 0..(n + 1)
      BY <1>2
    <3> QED BY <1>1, <3>1, <3>2
  <2> QED BY <1>1, <1>2, <2>1, <2>3, <2>4 DEF LaunchInv, LaunchType
<1>4. Given' = Given /\ Given' \subseteq known'
  BY <1>1 DEF LaunchInv, Given
<1>5. \A i, j \in DOMAIN pending' : pending'[i] = pending'[j] => i = j
  <2>1. \A i, j \in 1..m : pending[i] = pending[j] => i = j
    BY <1>2 DEF LaunchInv
  <2>2. \A i \in 1..m : pending'[i] # n + 1
    BY <1>2
  <2>3. \A i \in 1..(m + 1) : i \in 1..m \/ i = m + 1
    BY <1>2
  <2> QED BY <1>2, <2>1, <2>2, <2>3
<1>6. LaunchesPairOnce'
  <2>1. \A d \in Given : pairs[d] \in 1..n
    BY <1>2 DEF LaunchInv, LaunchType, Given, NoRun, n
  <2>2. /\ \A d, e \in Given : pairs[d] = pairs[e] => d = e
        /\ {pairs[d] : d \in Given} \cap ToSet(pending) = {}
        /\ Cardinality(Given) + m = n
    BY DEF LaunchInv, LaunchesPairOnce, Given, n, m
  <2>3. ToSet(pending') \subseteq ToSet(pending) \cup {n + 1}
    <3>1. \A i \in 1..(m + 1) : pending'[i] \in {pending[k] : k \in 1..m} \cup {n + 1}
      <4>1. \A i \in 1..(m + 1) : i \in 1..m \/ i = m + 1
        BY <1>2
      <4> QED BY <1>2, <4>1
    <3> QED BY <1>2, <3>1 DEF ToSet
  <2>4. {pairs'[d] : d \in Given'} \cap ToSet(pending') = {}
    <3>1. \A d \in Given : pairs[d] # n + 1
      BY <1>2, <2>1
    <3> QED BY <1>1, <1>4, <2>2, <2>3, <3>1
  <2>5. Cardinality(Given') + Len(pending') = Len(children')
    <3>1. m + 1 = Len(pending') /\ n + 1 = Len(children')
      BY <1>2
    <3>2. Cardinality(Given) \in Nat
      BY DirsAreFinite DEF Given
    <3> QED BY <1>2, <1>4, <2>2, <3>1, <3>2
  <2> QED BY <1>1, <1>4, <2>2, <2>4, <2>5 DEF LaunchesPairOnce, Given
<1> QED BY <1>3, <1>4, <1>5, <1>6 DEF LaunchInv

\* A scan gives the waiting launches, oldest first, to the new directories.
LEMMA RediscoverKeepsLaunches ==
  ASSUME Dash!DashboardAssumption, LaunchInv, Dash!Rediscover, UNCHANGED children
  PROVE  LaunchInv'
<1> DEFINE N == Dash!NewDirs
           n == Cardinality(N)
           m == Len(pending)
           Took == {d \in N : Rank(N, d) <= m}
<1>1. N \in SUBSET Dirs /\ N \cap known = {} /\ n \in Nat /\ m \in Nat /\ IsFiniteSet(N)
  <2>1. N \in SUBSET Dirs /\ N \cap known = {}
    BY DashCounts DEF Dash!NewDirs, Dash!OnDisk
  <2>2. m \in Nat
    BY DEF LaunchInv, LaunchType
  <2> QED BY <2>1, <2>2, DirsAreFinite
<1>2. /\ pairs' = [d \in Dirs |-> IF d \in Took THEN pending[Rank(N, d)] ELSE pairs[d]]
      /\ pending' = SubSeq(pending, n + 1, m)
      /\ known' = known \cup N
  <2>1. \A d : Dash!Place(d) = Rank(N, d)
    BY DashCounts DEF Dash!Place, Rank
  <2>2. Dash!Cardinality(Dash!NewDirs) = n
    BY DashCounts
  <2> HIDE DEF N, n
  <2>3. pending' = SubSeq(pending, n + 1, m)
    BY <2>2 DEF Dash!Rediscover, Dash!StillPending
  <2>4. pairs' = [d \in Dirs |-> IF d \in N /\ Rank(N, d) <= m THEN pending[Rank(N, d)] ELSE pairs[d]]
    BY <2>1, DashCounts DEF Dash!Rediscover, N
  <2>5. known' = known \cup N
    BY DEF Dash!Rediscover, N
  <2> QED BY <2>3, <2>4, <2>5
<1>3. /\ \A d \in N : Rank(N, d) \in 1..n
      /\ \A d, e \in N : Rank(N, d) = Rank(N, e) => d = e
      /\ \A k \in 1..n : \E d \in N : Rank(N, d) = k
  BY <1>1, RanksArePlaces
<1>4. /\ DOMAIN pending = 1..m /\ \A i \in 1..m : pending[i] \in 1..Len(children)
      /\ Len(children) \in Nat /\ pending \in Seq(1..Len(children))
      /\ \A i, j \in 1..m : pending[i] = pending[j] => i = j
  BY DEF LaunchInv, LaunchType
<1> HIDE DEF N, n, m
<1>5. \A d \in Took : Rank(N, d) \in 1..m /\ Rank(N, d) \in 1..n /\ d \in N /\ d \in Dirs
  BY <1>1, <1>3
<1>6. \A d \in Dirs : pairs'[d] = IF d \in Took THEN pending[Rank(N, d)] ELSE pairs[d]
  BY <1>2
<1>7. /\ pending' \in Seq(1..Len(children))
      /\ Len(pending') = IF n < m THEN m - n ELSE 0
      /\ DOMAIN pending' = 1..Len(pending')
      /\ \A i \in DOMAIN pending' : pending'[i] = pending[i + n] /\ i + n \in 1..m /\ i \in Nat \ {0}
  <2>1. m = Len(pending) /\ n + 1 \in Nat \ {0}
    BY <1>1 DEF m
  <2>2. /\ Len(SubSeq(pending, n + 1, m)) = IF n < m THEN m - n ELSE 0
        /\ DOMAIN SubSeq(pending, n + 1, m) = 1..Len(SubSeq(pending, n + 1, m))
    <3> DEFINE a == n + 1
    <3>1. a \in Nat \ {0}
      BY <2>1
    <3> HIDE DEF a
    <3>2. /\ Len(SubSeq(pending, a, m)) = IF a <= m THEN m - a + 1 ELSE 0
          /\ DOMAIN SubSeq(pending, a, m) = 1..Len(SubSeq(pending, a, m))
      BY <1>1, <1>4, <2>1, <3>1
    <3> QED BY <1>1, <3>2 DEF a
  <2>3. ASSUME NEW i \in 1..(m - n)
        PROVE  SubSeq(pending, n + 1, m)[i] = pending[i + n] /\ i + n \in 1..m
    BY <1>1, <1>4, <2>1
  <2>4. \A i \in DOMAIN pending' : pending'[i] = pending[i + n] /\ i + n \in 1..m /\ i \in Nat \ {0}
    BY <1>1, <1>2, <2>2, <2>3
  <2>5. \A i \in DOMAIN pending' : pending'[i] \in 1..Len(children)
    BY <1>4, <2>4
  <2>6. pending' \in Seq(1..Len(children))
    BY <1>1, <1>2, <1>4, <2>1
  <2> QED BY <1>2, <2>2, <2>4, <2>6
<1>8. LaunchType'
  <2>1. \A d \in Dirs : pairs'[d] \in 0..Len(children)
    <3>1. \A d \in Took : pairs'[d] \in 0..Len(children)
      BY <1>4, <1>5, <1>6
    <3>2. \A d \in Dirs : pairs[d] \in 0..Len(children)
      BY DEF LaunchInv, LaunchType
    <3> QED BY <1>6, <3>1, <3>2
  <2>2. pairs' \in [Dirs -> 0..Len(children)]
    BY <1>2, <2>1
  <2>3. known' \in SUBSET Dirs /\ children' = children /\ children \in Seq({"running", "exited", "failed"})
    BY <1>1, <1>2 DEF LaunchInv, LaunchType
  <2> QED BY <1>7, <2>2, <2>3 DEF LaunchType
<1>9. Given' = Given \cup Took /\ Given \cap Took = {} /\ Given' \subseteq known'
  <2>1. \A d \in Took : pairs'[d] # NoRun
    BY <1>4, <1>5, <1>6 DEF NoRun
  <2>2. \A d \in Dirs \ Took : pairs'[d] = pairs[d]
    BY <1>6
  <2>3. Given \subseteq known /\ Took \subseteq N /\ Took \subseteq Dirs
    BY <1>5 DEF LaunchInv
  <2>4. Given' = Given \cup Took
    BY <2>1, <2>2, <2>3 DEF Given
  <2> QED BY <1>1, <1>2, <2>3, <2>4
<1>10. \A i, j \in DOMAIN pending' : pending'[i] = pending'[j] => i = j
  <2> SUFFICES ASSUME NEW i \in DOMAIN pending', NEW j \in DOMAIN pending', pending'[i] = pending'[j]
               PROVE  i = j
    OBVIOUS
  <2>1. i + n = j + n
    BY <1>4, <1>7
  <2> QED BY <1>1, <1>7, <2>1
<1>11. LaunchesPairOnce'
  <2>0. /\ \A d, e \in Given : pairs[d] = pairs[e] => d = e
        /\ \A d \in Given : pairs[d] \notin ToSet(pending)
        /\ Cardinality(Given) + m = Len(children)
    BY DEF LaunchInv, LaunchesPairOnce, Given, m
  <2>1. \A i \in 1..m : pending[i] \in ToSet(pending)
    BY <1>4 DEF ToSet
  <2>2. \A d \in Given : pairs'[d] = pairs[d] /\ pairs'[d] \notin ToSet(pending)
    BY <1>6, <1>9, <2>0 DEF Given
  <2>3. \A d \in Took : pairs'[d] = pending[Rank(N, d)] /\ pairs'[d] \in ToSet(pending)
    BY <1>5, <1>6, <2>1
  <2>4. \A d, e \in Took : pairs'[d] = pairs'[e] => d = e
    <3> SUFFICES ASSUME NEW d \in Took, NEW e \in Took, pairs'[d] = pairs'[e]
                 PROVE  d = e
      OBVIOUS
    <3>1. Rank(N, d) = Rank(N, e)
      BY <1>4, <1>5, <2>3
    <3> QED BY <1>3, <1>5, <3>1
  <2>5. \A d, e \in Given' : pairs'[d] = pairs'[e] => d = e
    BY <1>9, <2>0, <2>2, <2>3, <2>4
  <2>6. ToSet(pending') \subseteq ToSet(pending)
    BY <1>7, <2>1 DEF ToSet
  <2>7. \A d \in Took : pairs'[d] \notin ToSet(pending')
    <3> SUFFICES ASSUME NEW d \in Took, NEW i \in DOMAIN pending', pairs'[d] = pending'[i]
                 PROVE  FALSE
      BY DEF ToSet
    <3>1. Rank(N, d) = i + n
      BY <1>4, <1>5, <1>7, <2>3
    <3> QED BY <1>1, <1>5, <1>7, <3>1
  <2>8. {pairs'[d] : d \in Given'} \cap ToSet(pending') = {}
    BY <1>9, <2>2, <2>6, <2>7
  <2>9. Cardinality(Took) = IF n < m THEN n ELSE m
    <3> DEFINE k == IF n < m THEN n ELSE m
               f == [d \in Took |-> Rank(N, d)]
    <3>1. k \in Nat /\ k <= n /\ k <= m
      BY <1>1
    <3>2. \A d \in Took : Rank(N, d) \in 1..k
      BY <1>1, <1>5
    <3>3. \A i \in 1..k : \E d \in Took : Rank(N, d) = i
      <4> SUFFICES ASSUME NEW i \in 1..k PROVE \E d \in Took : Rank(N, d) = i
        OBVIOUS
      <4>1. i \in 1..n /\ i <= m
        BY <1>1, <3>1
      <4>2. PICK d \in N : Rank(N, d) = i
        BY <1>3, <4>1
      <4> QED BY <4>1, <4>2
    <3>4. f \in [Took -> 1..k]
      BY <3>2
    <3>5. \A d, e \in Took : f[d] = f[e] => d = e
      BY <1>3, <1>5
    <3>6. f \in Bijection(Took, 1..k)
      BY <3>3, <3>4, <3>5 DEF Bijection, Injection, IsInjective, Surjection
    <3>7. ExistsBijection(Took, 1..k)
      BY <3>6 DEF ExistsBijection
    <3>8. IsFiniteSet(Took)
      BY <1>5, DirsAreFinite
    <3>9. Cardinality(1..k) = k
      BY <3>1, FS_Interval
    <3>10. Cardinality(1..k) = Cardinality(Took)
      BY <3>7, <3>8, FS_Bijection
    <3> QED BY <3>9, <3>10
  <2>10. Cardinality(Given') = Cardinality(Given) + Cardinality(Took)
    <3>1. IsFiniteSet(Given) /\ Cardinality(Given) \in Nat
      BY DirsAreFinite DEF Given
    <3>2. IsFiniteSet(Took) /\ Cardinality(Took) \in Nat
      BY <1>5, DirsAreFinite
    <3>3. Cardinality(Given \cup Took)
            = Cardinality(Given) + Cardinality(Took) - Cardinality(Given \cap Took)
      BY <3>1, <3>2, FS_Union
    <3>4. Cardinality(Given \cap Took) = 0
      BY <1>9, FS_EmptySet
    <3> QED BY <1>9, <3>1, <3>2, <3>3, <3>4
  <2>11. Cardinality(Given') + Len(pending') = Len(children')
    <3>1. Cardinality(Given) \in Nat
      BY DirsAreFinite DEF Given
    <3> QED BY <1>1, <1>7, <2>0, <2>9, <2>10, <3>1
  <2> QED BY <2>5, <2>8, <2>11 DEF LaunchesPairOnce, Given
<1> QED BY <1>8, <1>9, <1>10, <1>11 DEF LaunchInv

LEMMA LaunchStep ==
  ASSUME Dash!DashboardAssumption, LaunchInv, [Dash!Next]_Dash!vars
  PROVE  LaunchInv'
<1>1. CASE UNCHANGED <<pending, pairs, children, known>>
  BY <1>1 DEF LaunchInv, LaunchType, Given, LaunchesPairOnce
<1>2. CASE Dash!Frames
  <2>1. PICK scan \in BOOLEAN : Dash!Frame(scan)
    BY <1>2 DEF Dash!Frames
  <2>2. UNCHANGED children /\ (Dash!Rediscover \/ UNCHANGED <<pending, pairs, known>>)
    BY <2>1 DEF Dash!Frame
  <2> QED BY <1>1, <2>2, RediscoverKeepsLaunches
<1>3. CASE Dash!Keys
  <2>1. Dash!Launch \/ UNCHANGED <<pending, pairs, children, known>>
    BY <1>3 DEF Dash!Keys, Dash!Cycle, Dash!Cancel
  <2> QED BY <1>1, <2>1, LaunchAdded
<1>4. CASE Dash!Child
  <2>1. PICK c \in DOMAIN children : Dash!Reap(c)
    BY <1>4 DEF Dash!Child
  <2>2. /\ UNCHANGED <<pending, pairs, known>>
        /\ \E s \in {"exited", "failed"} : children' = [children EXCEPT ![c] = s]
    BY <2>1 DEF Dash!Reap
  <2>3. children' \in Seq({"running", "exited", "failed"}) /\ Len(children') = Len(children)
    BY <2>2 DEF LaunchInv, LaunchType
  <2>4. Given' = Given
    BY <2>2 DEF Given
  <2> QED BY <2>2, <2>3, <2>4 DEF LaunchInv, LaunchType, Given, LaunchesPairOnce
<1>5. CASE Dash!TimePasses \/ UNCHANGED Dash!vars
  BY <1>1, <1>5 DEF Dash!TimePasses, Dash!vars
<1>6. CASE Dash!OtherRuns
  <2>1. PICK d \in Dash!Dirs : Dash!Run(d)
    BY <1>6 DEF Dash!OtherRuns
  <2>2. UNCHANGED <<pending, pairs, children, known>>
    BY <2>1 DEF Dash!Run, Dash!MakeDir, Dash!FirstMeta, Dash!AppendEvent, Dash!UpdateMetrics,
                Dash!Crash, Dash!Resume, Dash!WriteHalf, Dash!Finish
  <2> QED BY <1>1, <2>2
<1> QED BY <1>2, <1>3, <1>4, <1>5, <1>6 DEF Dash!Next

\* No two rows share a child, and each launch waits or was given to one row,
\* however many directories a scan finds at once (ui/app/app.go rediscover).
THEOREM LaunchesSound ==
  ASSUME Dash!DashboardAssumption
  PROVE  Dash!Spec => []LaunchesPairOnce
<1>1. LaunchInv => LaunchesPairOnce
  BY DEF LaunchInv
<1> QED BY <1>1, LaunchInitially, LaunchStep, PTL DEF Dash!Spec

=============================================================================
