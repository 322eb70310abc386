------------------------- MODULE RoutineStoreProofs -------------------------
(***************************************************************************)
(* Theorems about RoutineStore for every set of routines and repositories, *)
(* every size of the channel and every number of overlapping reloads,      *)
(* edits and restarts.                                                     *)
(***************************************************************************)
EXTENDS RoutineStore, TLAPS

USE DEF vars, files, watch, store, apply, missed

ReloadSteps ==
  {Begin} \cup {Found(es) : es \in Manifests} \cup {Sending(todo) : todo \in SUBSET Events}

Snapshots == {None} \cup {[taken |-> TRUE, entries |-> es] : es \in Manifests}

TInv ==
  /\ TypeOK
  /\ \A i \in DOMAIN reloads : reloads[i] \in ReloadSteps
  /\ snapshot \in Snapshots

LEMMA StepShapes ==
  /\ Begin.step = "begin"
  /\ \A es : Found(es).step = "load" /\ Found(es).before = es
  /\ \A todo : Sending(todo).step = "send" /\ Sending(todo).todo = todo
BY DEF Begin, Found, Sending

\* What a reload in a step holds.
LEMMA StepHolds ==
  ASSUME NEW x \in ReloadSteps
  PROVE  /\ x.step = "load" => x.before \in Manifests
         /\ x.step = "send" => x.todo \in SUBSET Events
<1>1. CASE x = Begin
  BY <1>1, StepShapes
<1>2. CASE x \in {Found(es) : es \in Manifests}
  <2>1. PICK es \in Manifests : x = Found(es)
    BY <1>2
  <2> QED BY <2>1, StepShapes
<1>3. CASE x \in {Sending(todo) : todo \in SUBSET Events}
  <2>1. PICK todo \in SUBSET Events : x = Sending(todo)
    BY <1>3
  <2> QED BY <2>1, StepShapes
<1> QED BY <1>1, <1>2, <1>3 DEF ReloadSteps

LEMMA OnDiskType ==
  ASSUME TypeOK
  PROVE  OnDisk \in Manifests
BY RoutineStoreAssumption DEF TypeOK, OnDisk, Manifests

LEMMA WantedType ==
  ASSUME NEW es \in Manifests
  PROVE  Wanted(es) \in Manifests
BY DEF Wanted, Manifests

LEMMA DifferencesType ==
  ASSUME NEW before, NEW after
  PROVE  Differences(before, after) \subseteq Events
<1>1. \A r \in Routines : \A t \in {"added", "updated", "removed"} : Event(t, r) \in Events
  BY DEF Event, Events
<1> QED BY <1>1 DEF Differences

\* One reload takes a step.
LEMMA ReloadTypes ==
  ASSUME \A j \in DOMAIN reloads : reloads[j] \in ReloadSteps,
         NEW i \in DOMAIN reloads, NEW x \in ReloadSteps
  PROVE  /\ \A j \in DOMAIN reloads : [reloads EXCEPT ![i] = x][j] \in ReloadSteps
         /\ DOMAIN [reloads EXCEPT ![i] = x] = DOMAIN reloads
         /\ \A j \in DOMAIN reloads \ {i} : Without(i)[j] \in ReloadSteps
         /\ DOMAIN Without(i) = DOMAIN reloads \ {i}
BY DEF Without

LEMMA TypeInit == Init => TInv
<1> SUFFICES ASSUME Init PROVE TInv
  OBVIOUS
<1>1. NoJobs \in Manifests
  BY DEF NoJobs, Manifests
<1>2. DOMAIN reloads = {}
  BY DEF Init
<1>3. events \in Seq(Events) /\ Len(events) = 0
  BY DEF Init
<1>4. None.taken = FALSE
  BY DEF None
<1>5. TypeOK
  <2>1. 0 \in 0..MaxEdits /\ 0 \in 0..MaxStarts
    BY RoutineStoreAssumption
  <2>2. /\ disk \in Manifests /\ entries \in Manifests /\ jobs \in Manifests
        /\ edits \in 0..MaxEdits /\ starts \in 0..MaxStarts /\ Len(events) <= Buffer
    BY RoutineStoreAssumption, <1>1, <1>3, <2>1 DEF Init
  <2> QED BY <1>2, <1>3, <1>4, <2>2 DEF Init, TypeOK
<1>6. \A i \in DOMAIN reloads : reloads[i] \in ReloadSteps
  BY <1>2
<1>7. snapshot \in Snapshots
  BY DEF Init, Snapshots
<1> QED BY <1>5, <1>6, <1>7 DEF TInv

LEMMA TypeStep == TInv /\ [Next]_vars => TInv'
<1> SUFFICES ASSUME TInv, [Next]_vars PROVE TInv'
  OBVIOUS
<1> USE DEF TInv
<1>a. NoJobs \in Manifests /\ None.taken = FALSE /\ None \in Snapshots
  BY DEF NoJobs, Manifests, None, Snapshots
<1>b. OnDisk \in Manifests
  BY OnDiskType
<1>1. ASSUME NEW r \in Routines, EditManifest(r) PROVE TInv'
  <2>1. disk' \in Manifests
    BY <1>1 DEF EditManifest, TypeOK, Manifests
  <2>2. edits' \in 0..MaxEdits
    BY RoutineStoreAssumption, <1>1 DEF EditManifest, Change, TypeOK
  <2> QED BY <1>1, <2>1, <2>2 DEF EditManifest, DirEvent, TypeOK
<1>2. ASSUME NEW p \in Repos, MakeDir(p) PROVE TInv'
  BY <1>2 DEF MakeDir, TypeOK
<1>3. ASSUME SaveRoots PROVE TInv'
  <2>1. edits' \in 0..MaxEdits
    BY RoutineStoreAssumption, <1>3 DEF SaveRoots, Change, TypeOK
  <2>2. /\ rootsFile' \subseteq Repos /\ rootsExists' \in BOOLEAN /\ rootsWatched' \in BOOLEAN
        /\ pending' \subseteq {"dir", "roots"} /\ unnoticed' \subseteq Routines
    BY <1>3 DEF SaveRoots, TypeOK
  <2> QED BY <1>3, <2>1, <2>2 DEF SaveRoots, TypeOK
<1>4. ASSUME Start PROVE TInv'
  <2>1. jobs' \in Manifests
    BY <1>4, <1>b, WantedType DEF Start
  <2>2. starts' \in 0..MaxStarts
    BY RoutineStoreAssumption, <1>4 DEF Start, TypeOK
  <2> QED BY <1>4, <1>b, <2>1, <2>2 DEF Start, LoadAll, TypeOK
<1>5. ASSUME Watch PROVE TInv'
  BY <1>5 DEF Watch, Desired, TypeOK
<1>6. ASSUME NEW kind \in {"dir", "roots"}, HandleEvent(kind) PROVE TInv'
  <2>1. roots' \subseteq Repos /\ watching' \subseteq Repos \cup {Global}
    BY <1>6 DEF HandleEvent, Desired, TypeOK
  <2> QED BY <1>6, <2>1 DEF HandleEvent, TypeOK
<1>7. ASSUME Expire PROVE TInv'
  <2>1. PICK i \in (1..MaxReloads) \ DOMAIN reloads :
          reloads' = [j \in DOMAIN reloads \cup {i} |-> IF j = i THEN Begin ELSE reloads[j]]
    BY <1>7 DEF Expire
  <2>2. (\A j \in DOMAIN reloads' : reloads'[j] \in ReloadSteps) /\ DOMAIN reloads' = DOMAIN reloads \cup {i}
    BY <2>1 DEF ReloadSteps
  <2> QED BY <1>7, <2>2 DEF Expire, TypeOK
<1>8. ASSUME Close PROVE TInv'
  BY <1>8 DEF Close, TypeOK
<1>9. ASSUME NEW i \in 1..MaxReloads, CopyEntries(i) PROVE TInv'
  <2>1. Found(entries) \in ReloadSteps
    BY DEF ReloadSteps, TypeOK
  <2>2. (\A j \in DOMAIN reloads' : reloads'[j] \in ReloadSteps) /\ DOMAIN reloads' = DOMAIN reloads
    BY <1>9, <2>1, ReloadTypes DEF CopyEntries
  <2> QED BY <1>9, <2>2 DEF CopyEntries, TypeOK
<1>10. ASSUME NEW i \in 1..MaxReloads, Reload(i) PROVE TInv'
  <2>1. Sending(Differences(reloads[i].before, OnDisk)) \in ReloadSteps
    BY DifferencesType DEF ReloadSteps
  <2>2. (\A j \in DOMAIN reloads' : reloads'[j] \in ReloadSteps) /\ DOMAIN reloads' = DOMAIN reloads
    BY <1>10, <2>1, ReloadTypes DEF Reload
  <2> QED BY <1>10, <1>b, <2>2 DEF Reload, LoadAll, TypeOK
<1>11. ASSUME NEW i \in 1..MaxReloads, ReloadFails(i) PROVE TInv'
  <2>1. (\A j \in DOMAIN reloads' : reloads'[j] \in ReloadSteps) /\ DOMAIN reloads' \subseteq DOMAIN reloads
    BY <1>11, ReloadTypes, StepShapes DEF ReloadFails, ReloadSteps
  <2> QED BY <1>11, <2>1 DEF ReloadFails, TypeOK
<1>12. ASSUME NEW i \in 1..MaxReloads, Send(i) PROVE TInv'
  <2>1. PICK e \in NextToSend(reloads[i].todo) :
          /\ reloads' = [reloads EXCEPT ![i] = Sending(@.todo \ {e})]
          /\ SendOrDrop(e)
    BY <1>12 DEF Send
  <2>2. reloads[i].todo \in SUBSET Events
    BY <1>12, StepHolds DEF Send
  <2>3. e \in Events
    BY <2>1, <2>2 DEF NextToSend
  <2>4. Sending(reloads[i].todo \ {e}) \in ReloadSteps
    BY <2>2 DEF ReloadSteps
  <2>5. reloads' = [reloads EXCEPT ![i] = Sending(reloads[i].todo \ {e})]
    BY <1>12, <2>1 DEF Send
  <2>6. (\A j \in DOMAIN reloads' : reloads'[j] \in ReloadSteps) /\ DOMAIN reloads' = DOMAIN reloads
    BY <1>12, <2>4, <2>5, ReloadTypes DEF Send
  <2>7. events' \in Seq(Events) /\ Len(events') <= Buffer /\ lost' \in BOOLEAN
    <3>1. Append(events, e) \in Seq(Events) /\ Len(Append(events, e)) = Len(events) + 1
      BY <2>3 DEF TypeOK
    <3>2. Len(events) \in Nat /\ Len(events) <= Buffer /\ events \in Seq(Events) /\ lost \in BOOLEAN
      BY DEF TypeOK
    <3>3. CASE Len(events) < Buffer
      BY RoutineStoreAssumption, <2>1, <3>1, <3>2, <3>3 DEF SendOrDrop
    <3>4. CASE ~(Len(events) < Buffer)
      BY <2>1, <3>2, <3>4 DEF SendOrDrop
    <3> QED BY <3>3, <3>4
  <2> QED BY <1>12, <2>6, <2>7 DEF Send, TypeOK
<1>13. ASSUME NEW i \in 1..MaxReloads, SendPanics(i) PROVE TInv'
  BY <1>13 DEF SendPanics, TypeOK
<1>14. ASSUME NEW i \in 1..MaxReloads, EndReload(i) PROVE TInv'
  <2>1. (\A j \in DOMAIN reloads' : reloads'[j] \in ReloadSteps) /\ DOMAIN reloads' \subseteq DOMAIN reloads
    BY <1>14, ReloadTypes DEF EndReload, ReloadSteps
  <2> QED BY <1>14, <2>1 DEF EndReload, TypeOK
<1>15. ASSUME ApplyRemoved PROVE TInv'
  <2>1. events' \in Seq(Events) /\ Len(events') <= Buffer
    BY RoutineStoreAssumption, <1>15 DEF ApplyRemoved, TypeOK
  <2>2. jobs' \in Manifests
    BY <1>15 DEF ApplyRemoved, TypeOK, Manifests
  <2> QED BY <1>15, <2>1, <2>2 DEF ApplyRemoved, TypeOK
<1>16. ASSUME ApplyChanged PROVE TInv'
  <2>1. events' \in Seq(Events) /\ Len(events') <= Buffer
    BY RoutineStoreAssumption, <1>16 DEF ApplyChanged, TypeOK
  <2>2. snapshot' \in Snapshots /\ snapshot'.taken \in BOOLEAN
    BY <1>16 DEF ApplyChanged, Snapshots, TypeOK
  <2> QED BY <1>16, <2>1, <2>2 DEF ApplyChanged, TypeOK
<1>17. ASSUME Sync PROVE TInv'
  <2>1. snapshot.entries \in Manifests
    BY <1>17, <1>a DEF Sync, Snapshots
  <2>2. jobs' \in Manifests
    BY <1>17, <2>1, WantedType DEF Sync
  <2> QED BY <1>17, <1>a, <2>2 DEF Sync, TypeOK
<1>18. ASSUME Exit PROVE TInv'
  <2>1. DOMAIN reloads' = {} /\ (\A j \in DOMAIN reloads' : reloads'[j] \in ReloadSteps)
    BY <1>18 DEF Exit
  <2>2. events' \in Seq(Events) /\ Len(events') <= Buffer
    BY RoutineStoreAssumption, <1>18 DEF Exit
  <2> QED BY <1>18, <1>a, <2>1, <2>2 DEF Exit, TypeOK
<1>19. ASSUME UNCHANGED vars PROVE TInv'
  BY <1>19 DEF TypeOK
<1> QED
  BY <1>1, <1>2, <1>3, <1>4, <1>5, <1>6, <1>7, <1>8, <1>9, <1>10, <1>11, <1>12, <1>13,
     <1>14, <1>15, <1>16, <1>17, <1>18, <1>19 DEF Next, DaemonStep, DiskStep

\* Every reachable state of the daemon's store, watch loop, channel and jobs is
\* well typed: in particular the channel never holds more than its size.
THEOREM TypeCorrect == Spec => []TypeOK
<1>1. TInv /\ [Next]_vars => TInv'
  BY TypeStep
<1>2. TInv => TypeOK
  BY DEF TInv
<1> QED BY <1>1, <1>2, TypeInit, PTL DEF Spec

(***************************************************************************)
(* The store follows the disk                                              *)
(***************************************************************************)

Loading == \E i \in DOMAIN reloads : reloads[i].step \in {"begin", "load"}

\* A reload of the store is certain.
ReloadToCome == pending # {} \/ timer \/ Loading

\* Before the watch loop runs and after it has ended, nothing is watched; and a
\* routine that differs from its manifest went unnoticed, was left by a failed
\* reload, or will be reloaded.
FInv ==
  /\ phase # "watching" => watching = {} /\ ~rootsWatched
  /\ phase \in {"loaded", "watching"} =>
       \A r \in Routines \ (unnoticed \cup unread) : entries[r] = OnDisk[r] \/ ReloadToCome

LEMMA FreshInit == Init => FInv
BY DEF Init, FInv

\* A step that leaves the store and the disk alone keeps FInv if it keeps a
\* promised reload.
LEMMA FreshKept ==
  ASSUME FInv,
         UNCHANGED <<disk, rootsFile, entries, missed>>,
         phase' \in {"loaded", "watching"} => phase \in {"loaded", "watching"},
         phase' # "watching" => watching' = {} /\ ~rootsWatched',
         ReloadToCome => ReloadToCome'
  PROVE  FInv'
BY DEF FInv, OnDisk

LEMMA FreshStep == FInv /\ [Next]_vars => FInv'
<1> SUFFICES ASSUME FInv, [Next]_vars PROVE FInv'
  OBVIOUS
<1>1. ASSUME NEW r \in Routines, EditManifest(r) PROVE FInv'
  <2>1. \A q \in Routines \ {r} : OnDisk'[q] = OnDisk[q]
    BY <1>1 DEF EditManifest, OnDisk
  <2>2. CASE Home[r] \in watching
    <3>1. pending' # {}
      BY <1>1, <2>2 DEF EditManifest, DirEvent
    <3> QED BY <1>1, <3>1 DEF EditManifest, FInv, ReloadToCome
  <2>3. CASE Home[r] \notin watching
    <3>1. pending' = pending /\ unnoticed' = unnoticed \cup {r}
      BY <1>1, <2>3 DEF EditManifest, DirEvent
    <3>2. ReloadToCome' = ReloadToCome
      BY <1>1, <3>1 DEF EditManifest, ReloadToCome, Loading
    <3> QED BY <1>1, <2>1, <3>1, <3>2 DEF EditManifest, FInv
  <2> QED BY <2>2, <2>3
<1>2. ASSUME NEW p \in Repos, MakeDir(p) PROVE FInv'
  BY <1>2, FreshKept DEF MakeDir, FInv, ReloadToCome, Loading
<1>3. ASSUME SaveRoots PROVE FInv'
  <2>1. CASE rootsWatched
    <3>1. pending' # {} /\ phase' = phase /\ phase = "watching"
      BY <1>3, <2>1 DEF SaveRoots, FInv
    <3> QED BY <3>1 DEF FInv, ReloadToCome
  <2>2. CASE ~rootsWatched
    <3>1. ReloadToCome' = ReloadToCome
      BY <1>3, <2>2 DEF SaveRoots, ReloadToCome, Loading
    <3>2. unnoticed' = unnoticed \cup
            {r \in Routines : Home[r] \in (rootsFile' \ rootsFile) \cup (rootsFile \ rootsFile')}
      BY <1>3, <2>2 DEF SaveRoots
    <3>3. \A r \in Routines \ unnoticed' : OnDisk'[r] = OnDisk[r]
      BY <1>3, <3>2 DEF SaveRoots, OnDisk
    <3> QED BY <1>3, <2>2, <3>1, <3>2, <3>3 DEF SaveRoots, FInv
  <2> QED BY <2>1, <2>2
<1>4. ASSUME Start PROVE FInv'
  <2>1. entries' = OnDisk'
    BY <1>4 DEF Start, LoadAll, OnDisk
  <2> QED BY <1>4, <2>1 DEF Start, FInv
<1>5. ASSUME Watch PROVE FInv'
  BY <1>5, FreshKept DEF Watch, ReloadToCome, Loading
<1>6. ASSUME NEW kind \in {"dir", "roots"}, HandleEvent(kind) PROVE FInv'
  BY <1>6 DEF HandleEvent, FInv, ReloadToCome
<1>7. ASSUME Expire PROVE FInv'
  <2>1. PICK i \in (1..MaxReloads) \ DOMAIN reloads :
          reloads' = [j \in DOMAIN reloads \cup {i} |-> IF j = i THEN Begin ELSE reloads[j]]
    BY <1>7 DEF Expire
  <2>2. i \in DOMAIN reloads' /\ reloads'[i].step = "begin"
    BY <2>1, StepShapes
  <2> QED BY <1>7, <2>2, FreshKept DEF Expire, FInv, ReloadToCome, Loading
<1>8. ASSUME Close PROVE FInv'
  BY <1>8 DEF Close, FInv
<1>9. ASSUME NEW i \in 1..MaxReloads, CopyEntries(i) PROVE FInv'
  <2>1. i \in DOMAIN reloads' /\ reloads'[i].step = "load"
    BY <1>9, StepShapes DEF CopyEntries
  <2> QED BY <1>9, <2>1, FreshKept DEF CopyEntries, FInv, ReloadToCome, Loading
<1>10. ASSUME NEW i \in 1..MaxReloads, Reload(i) PROVE FInv'
  <2>1. entries' = OnDisk'
    BY <1>10 DEF Reload, LoadAll, OnDisk
  <2> QED BY <1>10, <2>1 DEF Reload, FInv
<1>11. ASSUME NEW i \in 1..MaxReloads, ReloadFails(i) PROVE FInv'
  \* What differs is left unread from now on.
  <2>1. \A r \in Routines \ unread' : entries[r] = OnDisk[r]
    BY <1>11 DEF ReloadFails
  <2>2. OnDisk' = OnDisk
    BY <1>11 DEF ReloadFails, OnDisk
  <2> QED BY <1>11, <2>1, <2>2 DEF ReloadFails, FInv
<1>12. ASSUME NEW i \in 1..MaxReloads, Send(i) PROVE FInv'
  <2>1. PICK x : reloads' = [reloads EXCEPT ![i] = x]
    BY <1>12 DEF Send
  <2>2. \A j \in DOMAIN reloads \ {i} : j \in DOMAIN reloads' /\ reloads'[j] = reloads[j]
    BY <2>1
  <2>3. Loading => Loading'
    BY <1>12, <2>2 DEF Send, Loading
  <2> QED BY <1>12, <2>3, FreshKept DEF Send, FInv, ReloadToCome
<1>13. ASSUME NEW i \in 1..MaxReloads, SendPanics(i) PROVE FInv'
  BY <1>13, FreshKept DEF SendPanics, FInv, ReloadToCome, Loading
<1>14. ASSUME NEW i \in 1..MaxReloads, EndReload(i) PROVE FInv'
  <2>1. \A j \in DOMAIN reloads \ {i} : j \in DOMAIN reloads' /\ reloads'[j] = reloads[j]
    BY <1>14 DEF EndReload, Without
  <2>2. Loading => Loading'
    BY <1>14, <2>1 DEF EndReload, Loading
  <2> QED BY <1>14, <2>2, FreshKept DEF EndReload, FInv, ReloadToCome
<1>15. ASSUME ApplyRemoved \/ ApplyChanged \/ Sync PROVE FInv'
  BY <1>15, FreshKept DEF ApplyRemoved, ApplyChanged, Sync, FInv, ReloadToCome, Loading
<1>16. ASSUME Exit PROVE FInv'
  BY <1>16 DEF Exit, FInv
<1>17. ASSUME UNCHANGED vars PROVE FInv'
  BY <1>17, FreshKept DEF FInv, ReloadToCome, Loading
<1> QED
  BY <1>1, <1>2, <1>3, <1>4, <1>5, <1>6, <1>7, <1>8, <1>9, <1>10, <1>11, <1>12, <1>13,
     <1>14, <1>15, <1>16, <1>17 DEF Next, DaemonStep, DiskStep

\* Once the daemon is quiet, its store holds every manifest as it is on disk,
\* except those whose change raised no file event and those that a failed reload
\* left and none has read since: whatever the debounce timer coalesces, however
\* reloads overlap, and whatever the registry did meanwhile.
THEOREM StoreIsFresh == Spec => []StoreFollowsDisk
<1>1. FInv /\ [Next]_vars => FInv'
  BY FreshStep
<1>2. FInv => StoreFollowsDisk
  <2> SUFFICES ASSUME FInv, Quiet, NEW r \in Routines \ (unnoticed \cup unread)
               PROVE  entries[r] = OnDisk[r]
    BY DEF StoreFollowsDisk
  <2>1. DOMAIN reloads = {}
    BY DEF Quiet
  <2>2. ~ReloadToCome
    BY <2>1 DEF Quiet, ReloadToCome, Loading
  <2> QED BY <2>2 DEF FInv, Quiet
<1> QED BY <1>1, <1>2, FreshInit, PTL DEF Spec

(***************************************************************************)
(* The jobs follow the store                                               *)
(***************************************************************************)

\* Events that wait in the channel or in a reload that is sending.
Queued(e)  == \E k \in DOMAIN events : events[k] = e
Unsent(e)  == \E i \in DOMAIN reloads : reloads[i].step = "send" /\ e \in reloads[i].todo

\* ApplyEvent will take a snapshot of the store after position k of the channel.
SyncAfter(k) ==
  \/ \E j \in DOMAIN events : j > k /\ events[j].type # "removed"
  \/ \E e \in Events : e.type # "removed" /\ Unsent(e)

ToBeRemoved(r) == Queued(Event("removed", r)) \/ Unsent(Event("removed", r))

\* The jobs as they will be once a Sync that has its snapshot is through.
Basis == IF snapshot.taken THEN Wanted(snapshot.entries) ELSE jobs

DownIsEmpty ==
  phase = "down" => reloads = <<>> /\ events = <<>> /\ ~snapshot.taken /\ ~timer

\* While no two reloads overlap, one compares with the entries it replaces.
OneReload ==
  /\ \A i, j \in DOMAIN reloads : i = j
  /\ \A i \in DOMAIN reloads : reloads[i].step = "load" => reloads[i].before = entries

\* A removal that no later Sync makes up for is of a routine that is gone.
RemovalsAreTrue ==
  /\ \A r \in Routines : Unsent(Event("removed", r)) => entries[r] = Absent
  /\ \A r \in Routines : \A k \in DOMAIN events :
       events[k] = Event("removed", r) /\ ~SyncAfter(k) => entries[r] = Absent

\* Without a Sync to come, only routines to be removed differ from the store.
RestIsDone ==
  ~SyncAfter(0) =>
    \A r \in Routines : ToBeRemoved(r) \/ Matches(Basis[r], entries[r])

JInv == DownIsEmpty /\ (~lost => OneReload /\ RemovalsAreTrue /\ RestIsDone)


LEMMA EventShape ==
  ASSUME NEW t \in {"added", "updated", "removed"}, NEW r \in Routines
  PROVE  Event(t, r) \in Events /\ Event(t, r).type = t /\ Event(t, r).ref = r
BY DEF Event, Events

LEMMA RemovedShape ==
  ASSUME NEW e \in Events, e.type = "removed"
  PROVE  e.ref \in Routines /\ e = Event("removed", e.ref)
BY DEF Event, Events

\* What Differences says, and what it leaves unsaid.
LEMMA DifferencesMeaning ==
  ASSUME NEW before, NEW after, NEW r \in Routines
  PROVE  /\ Event("removed", r) \in Differences(before, after)
              <=> before[r] # Absent /\ after[r] = Absent
         /\ (\A e \in Differences(before, after) : e.type = "removed") =>
              /\ before[r] = Absent => after[r] = Absent
              /\ before[r] # Absent /\ after[r] # Absent => ~RoutineChanged(before[r], after[r])
<1>1. \A q \in Routines : \A t, u \in {"added", "updated", "removed"} :
        Event(t, r) = Event(u, q) => t = u /\ r = q
  BY EventShape
<1>2. Event("removed", r) \in Differences(before, after)
        <=> before[r] # Absent /\ after[r] = Absent
  BY <1>1 DEF Differences
<1>3. ASSUME before[r] = Absent, after[r] # Absent
      PROVE  Event("added", r) \in Differences(before, after) /\ Event("added", r).type # "removed"
  BY <1>3, EventShape DEF Differences
<1>4. ASSUME before[r] # Absent, after[r] # Absent, RoutineChanged(before[r], after[r])
      PROVE  Event("updated", r) \in Differences(before, after) /\ Event("updated", r).type # "removed"
  BY <1>4, EventShape DEF Differences
<1> QED BY <1>2, <1>3, <1>4

\* A job that matches an entry matches one that differs only in what
\* routineChanged does not compare.
LEMMA MatchesUnchanged ==
  ASSUME NEW job \in Contents \cup {Absent}, NEW b \in Contents \cup {Absent},
         NEW a \in Contents \cup {Absent},
         Matches(job, b),
         b = Absent <=> a = Absent,
         b # Absent => ~RoutineChanged(b, a)
  PROVE  Matches(job, a)
BY RoutineStoreAssumption DEF Matches, RoutineChanged

\* A job that Sync makes matches its entry.
LEMMA WantedMatches ==
  ASSUME NEW es \in Manifests, NEW r \in Routines
  PROVE  Matches(Wanted(es)[r], es[r])
<1>1. es[r] \in Contents \cup {Absent} /\ Absent \notin Enabled
  BY RoutineStoreAssumption DEF Manifests
<1> QED BY <1>1 DEF Matches, Wanted, RoutineChanged

LEMMA BasisType ==
  ASSUME TInv
  PROVE  Basis \in Manifests
<1>1. CASE snapshot.taken
  <2>1. snapshot.entries \in Manifests
    BY <1>1 DEF TInv, Snapshots, None
  <2> QED BY <1>1, <2>1, WantedType DEF Basis
<1>2. CASE ~snapshot.taken
  BY <1>2 DEF Basis, TInv, TypeOK
<1> QED BY <1>1, <1>2

LEMMA JobsInit == Init => JInv
<1> SUFFICES ASSUME Init PROVE JInv
  OBVIOUS
<1>1. DOMAIN reloads = {} /\ DOMAIN events = {} /\ ~snapshot.taken
  BY DEF Init, None
<1>2. \A r \in Routines : Basis[r] = Absent /\ entries[r] = Absent
  BY <1>1 DEF Init, Basis, NoJobs
<1>3. OneReload /\ RemovalsAreTrue
  BY <1>1 DEF OneReload, RemovalsAreTrue, Unsent
<1>4. RestIsDone
  BY <1>2, RoutineStoreAssumption DEF RestIsDone, Matches
<1> QED BY <1>1, <1>3, <1>4 DEF JInv, DownIsEmpty, Init

\* A step that touches neither the entries nor the jobs nor what is on its way to
\* them keeps JInv.
LEMMA JobsKept ==
  ASSUME JInv,
         UNCHANGED <<entries, events, snapshot, jobs>>,
         lost => lost',
         DownIsEmpty',
         ~lost' => OneReload',
         ~lost' => \A e \in Events : Unsent(e)' <=> Unsent(e)
  PROVE  JInv'
<1> SUFFICES ASSUME ~lost' PROVE RemovalsAreTrue' /\ RestIsDone'
  BY DEF JInv
<1>1. ~lost /\ RemovalsAreTrue /\ RestIsDone
  BY DEF JInv
<1>2. \A r \in Routines : Unsent(Event("removed", r))' <=> Unsent(Event("removed", r))
  BY EventShape
<1>3. \A k : SyncAfter(k)' <=> SyncAfter(k)
  BY DEF SyncAfter
<1>4. \A r \in Routines : ToBeRemoved(r)' <=> ToBeRemoved(r)
  BY <1>2 DEF ToBeRemoved, Queued
<1>5. Basis' = Basis
  BY DEF Basis, Wanted
<1>6. RemovalsAreTrue'
  BY <1>1, <1>2, <1>3 DEF RemovalsAreTrue
<1>7. RestIsDone'
  BY <1>1, <1>3, <1>4, <1>5 DEF RestIsDone
<1> QED BY <1>6, <1>7

LEMMA ReloadKeepsJobs ==
  ASSUME TInv, TInv', JInv, NEW i \in 1..MaxReloads, Reload(i)
  PROVE  JInv'
<1>1. DownIsEmpty'
  BY DEF JInv, DownIsEmpty, Reload
<1> SUFFICES ASSUME ~lost' PROVE OneReload' /\ RemovalsAreTrue' /\ RestIsDone'
  BY <1>1 DEF JInv
<1>2. ~lost /\ OneReload /\ RemovalsAreTrue /\ RestIsDone
  BY DEF JInv, Reload
<1>3. i \in DOMAIN reloads /\ reloads[i].step = "load" /\ reloads[i].before = entries
  BY <1>2 DEF OneReload, Reload
<1>4. \A j \in DOMAIN reloads : j = i
  BY <1>2, <1>3 DEF OneReload
<1>5. \A e : ~Unsent(e)
  BY <1>3, <1>4 DEF Unsent
<1>6. /\ DOMAIN reloads' = DOMAIN reloads
      /\ reloads'[i] = Sending(Differences(entries, OnDisk)) /\ entries' = OnDisk
  BY <1>3 DEF Reload, LoadAll
<1>7. reloads'[i].step = "send" /\ reloads'[i].todo = Differences(entries, entries')
  BY <1>6, StepShapes
<1>8. \A e : Unsent(e)' <=> e \in Differences(entries, entries')
  BY <1>3, <1>4, <1>6, <1>7 DEF Unsent
<1>9. OneReload'
  BY <1>4, <1>6, <1>7 DEF OneReload
<1>10. events' = events /\ Basis' = Basis
  BY DEF Reload, Basis, Wanted
<1>11. \A k : SyncAfter(k) => SyncAfter(k)'
  BY <1>5, <1>10 DEF SyncAfter
<1>12. ASSUME NEW r \in Routines, NEW k, ~SyncAfter(k)'
       PROVE  /\ entries[r] = Absent => entries'[r] = Absent
              /\ entries[r] # Absent /\ entries'[r] # Absent => ~RoutineChanged(entries[r], entries'[r])
  <2>1. \A e \in Differences(entries, entries') : e.type = "removed"
    BY <1>8, <1>12, DifferencesType DEF SyncAfter
  <2> QED BY <2>1, DifferencesMeaning
<1>13. RemovalsAreTrue'
  <2>1. ASSUME NEW r \in Routines, Unsent(Event("removed", r))' PROVE entries'[r] = Absent
    BY <1>8, <2>1, DifferencesMeaning
  <2>2. ASSUME NEW r \in Routines, NEW k \in DOMAIN events',
               events'[k] = Event("removed", r), ~SyncAfter(k)'
        PROVE  entries'[r] = Absent
    BY <1>2, <1>10, <1>11, <1>12, <2>2 DEF RemovalsAreTrue
  <2> QED BY <2>1, <2>2 DEF RemovalsAreTrue
<1>14. RestIsDone'
  <2> SUFFICES ASSUME ~SyncAfter(0)', NEW r \in Routines
               PROVE  ToBeRemoved(r)' \/ Matches(Basis'[r], entries'[r])
    BY DEF RestIsDone
  <2>1. ToBeRemoved(r) \/ Matches(Basis[r], entries[r])
    BY <1>2, <1>11 DEF RestIsDone
  <2>2. CASE ToBeRemoved(r)
    BY <1>5, <1>10, <2>2 DEF ToBeRemoved, Queued
  <2>3. CASE Matches(Basis[r], entries[r]) /\ entries[r] # Absent /\ entries'[r] = Absent
    BY <1>8, <2>3, DifferencesMeaning DEF ToBeRemoved
  <2>4. CASE Matches(Basis[r], entries[r]) /\ ~(entries[r] # Absent /\ entries'[r] = Absent)
    <3>1. /\ Basis[r] \in Contents \cup {Absent} /\ entries[r] \in Contents \cup {Absent}
          /\ entries'[r] \in Contents \cup {Absent}
      BY BasisType DEF TInv, TypeOK, Manifests
    <3>2. /\ entries[r] = Absent <=> entries'[r] = Absent
          /\ entries[r] # Absent => ~RoutineChanged(entries[r], entries'[r])
      BY <1>12, <2>4
    <3> QED BY <1>10, <2>4, <3>1, <3>2, MatchesUnchanged
  <2> QED BY <2>1, <2>2, <2>3, <2>4
<1> QED BY <1>9, <1>13, <1>14

LEMMA SendKeepsJobs ==
  ASSUME TInv, JInv, NEW i \in 1..MaxReloads, Send(i)
  PROVE  JInv'
<1>1. PICK e \in NextToSend(reloads[i].todo) :
        /\ reloads' = [reloads EXCEPT ![i] = Sending(@.todo \ {e})]
        /\ SendOrDrop(e)
  BY DEF Send
<1>2. DownIsEmpty'
  <2>1. phase # "down"
    BY DEF JInv, DownIsEmpty, Send
  <2> QED BY <2>1 DEF Send, DownIsEmpty
<1> SUFFICES ASSUME ~lost' PROVE OneReload' /\ RemovalsAreTrue' /\ RestIsDone'
  BY <1>2 DEF JInv
<1>3. ~lost /\ events' = Append(events, e)
  BY <1>1 DEF SendOrDrop
<1>4. OneReload /\ RemovalsAreTrue /\ RestIsDone
  BY <1>3 DEF JInv
<1>5. i \in DOMAIN reloads /\ reloads[i].step = "send" /\ reloads[i].todo \in SUBSET Events
  BY StepHolds DEF Send, TInv
<1>6. /\ e \in reloads[i].todo /\ e \in Events
      /\ e.type = "removed" => \A f \in reloads[i].todo : f.type = "removed"
  BY <1>5 DEF NextToSend
<1>7. \A j \in DOMAIN reloads : j = i
  BY <1>4, <1>5 DEF OneReload
<1>8. /\ DOMAIN reloads' = DOMAIN reloads
      /\ reloads'[i].step = "send" /\ reloads'[i].todo = reloads[i].todo \ {e}
  BY <1>1, <1>5, StepShapes
<1>9. \A f : Unsent(f) <=> f \in reloads[i].todo
  BY <1>5, <1>7 DEF Unsent
<1>10. \A f : Unsent(f)' <=> Unsent(f) /\ f # e
  BY <1>7, <1>8, <1>9 DEF Unsent
<1>11. OneReload'
  BY <1>7, <1>8 DEF OneReload
<1>12. /\ events \in Seq(Events) /\ Len(events) \in Nat /\ DOMAIN events = 1..Len(events)
       /\ DOMAIN events' = 1..(Len(events) + 1)
       /\ \A k \in DOMAIN events : events'[k] = events[k]
       /\ events'[Len(events) + 1] = e
  BY <1>3, <1>6 DEF TInv, TypeOK
<1>13. \A k \in 0..Len(events) : SyncAfter(k)' <=> SyncAfter(k)
  <2> SUFFICES ASSUME NEW k \in 0..Len(events) PROVE SyncAfter(k)' <=> SyncAfter(k)
    OBVIOUS
  <2>1. CASE e.type # "removed"
    <3>1. SyncAfter(k)
      BY <1>6, <1>9, <2>1 DEF SyncAfter
    <3>2. Len(events) + 1 \in DOMAIN events' /\ Len(events) + 1 > k
      BY <1>12
    <3>3. SyncAfter(k)'
      BY <1>12, <2>1, <3>2 DEF SyncAfter
    <3> QED BY <3>1, <3>3
  <2>2. CASE e.type = "removed"
    <3>1. (\E f \in Events : f.type # "removed" /\ Unsent(f))'
            <=> \E f \in Events : f.type # "removed" /\ Unsent(f)
      BY <1>10, <2>2
    <3>2. (\E j \in DOMAIN events : j > k /\ events[j].type # "removed")'
            <=> \E j \in DOMAIN events : j > k /\ events[j].type # "removed"
      BY <1>12, <2>2
    <3> QED BY <3>1, <3>2 DEF SyncAfter
  <2> QED BY <2>1, <2>2
<1>14. entries' = entries /\ Basis' = Basis
  BY DEF Send, Basis, Wanted
<1>15. RemovalsAreTrue'
  <2>1. ASSUME NEW r \in Routines, Unsent(Event("removed", r))' PROVE entries'[r] = Absent
    BY <1>4, <1>10, <1>14, <2>1 DEF RemovalsAreTrue
  <2>2. ASSUME NEW r \in Routines, NEW k \in DOMAIN events',
               events'[k] = Event("removed", r), ~SyncAfter(k)'
        PROVE  entries'[r] = Absent
    <3>1. CASE k \in DOMAIN events
      <4>1. events[k] = Event("removed", r) /\ ~SyncAfter(k)
        BY <1>12, <1>13, <2>2, <3>1
      <4> QED BY <1>4, <1>14, <3>1, <4>1 DEF RemovalsAreTrue
    <3>2. CASE k = Len(events) + 1
      <4>1. Unsent(Event("removed", r))
        BY <1>6, <1>9, <1>12, <2>2, <3>2
      <4> QED BY <1>4, <1>14, <4>1 DEF RemovalsAreTrue
    <3> QED BY <1>12, <3>1, <3>2
  <2> QED BY <2>1, <2>2 DEF RemovalsAreTrue
<1>16. RestIsDone'
  <2> SUFFICES ASSUME ~SyncAfter(0)', NEW r \in Routines
               PROVE  ToBeRemoved(r)' \/ Matches(Basis'[r], entries'[r])
    BY DEF RestIsDone
  <2>1. ToBeRemoved(r) \/ Matches(Basis[r], entries[r])
    BY <1>4, <1>12, <1>13 DEF RestIsDone
  <2>2. CASE Queued(Event("removed", r))
    BY <1>12, <2>2 DEF ToBeRemoved, Queued
  <2>3. CASE Unsent(Event("removed", r))
    <3>1. CASE Event("removed", r) = e
      <4>1. Len(events) + 1 \in DOMAIN events'
        BY <1>12
      <4> QED BY <1>12, <3>1, <4>1 DEF ToBeRemoved, Queued
    <3>2. CASE Event("removed", r) # e
      BY <1>10, <2>3, <3>2 DEF ToBeRemoved
    <3> QED BY <3>1, <3>2
  <2> QED BY <1>14, <2>1, <2>2, <2>3 DEF ToBeRemoved
<1> QED BY <1>11, <1>15, <1>16

\* The first event of the channel is taken.
LEMMA TailMeaning ==
  ASSUME TInv, events # <<>>, events' = Tail(events), reloads' = reloads
  PROVE  /\ Len(events) \in Nat \ {0} /\ 1 \in DOMAIN events /\ Head(events) = events[1]
         /\ Head(events) \in Events
         /\ DOMAIN events = 1..Len(events) /\ DOMAIN events' = 1..(Len(events) - 1)
         /\ \A k \in DOMAIN events' : events'[k] = events[k + 1]
         /\ \A k \in 0..(Len(events) - 1) : SyncAfter(k)' <=> SyncAfter(k + 1)
         /\ \A e : Unsent(e)' <=> Unsent(e)
         /\ \A e : Queued(e) => Queued(e)' \/ e = Head(events)
<1>1. /\ events \in Seq(Events) /\ Len(events) \in Nat \ {0} /\ 1 \in DOMAIN events
      /\ Head(events) = events[1] /\ Head(events) \in Events
      /\ DOMAIN events = 1..Len(events) /\ DOMAIN events' = 1..(Len(events) - 1)
      /\ \A k \in DOMAIN events' : events'[k] = events[k + 1]
  BY DEF TInv, TypeOK
<1>2. \A e : Unsent(e)' <=> Unsent(e)
  BY DEF Unsent
<1>3. ASSUME NEW k \in 0..(Len(events) - 1)
      PROVE  SyncAfter(k)' <=> SyncAfter(k + 1)
  <2>1. ASSUME NEW j \in DOMAIN events', j > k, events'[j].type # "removed"
        PROVE  SyncAfter(k + 1)
    <3>1. j + 1 \in DOMAIN events /\ j + 1 > k + 1 /\ events[j + 1].type # "removed"
      BY <1>1, <2>1
    <3> QED BY <3>1 DEF SyncAfter
  <2>2. ASSUME NEW j \in DOMAIN events, j > k + 1, events[j].type # "removed"
        PROVE  SyncAfter(k)'
    <3>1. j - 1 \in DOMAIN events' /\ j - 1 > k /\ events'[j - 1].type # "removed"
      BY <1>1, <2>2
    <3> QED BY <3>1 DEF SyncAfter
  <2> QED BY <1>2, <2>1, <2>2 DEF SyncAfter
<1>4. ASSUME NEW e, Queued(e) PROVE Queued(e)' \/ e = Head(events)
  <2>1. PICK k \in DOMAIN events : events[k] = e
    BY <1>4 DEF Queued
  <2>2. CASE k = 1
    BY <1>1, <2>1, <2>2
  <2>3. CASE k # 1
    <3>1. k - 1 \in DOMAIN events' /\ events'[k - 1] = e
      BY <1>1, <2>1, <2>3
    <3> QED BY <3>1 DEF Queued
  <2> QED BY <2>2, <2>3
<1> QED BY <1>1, <1>2, <1>3, <1>4

\* Taking the first event leaves the truth of the removals behind it alone.
LEMMA TailKeepsRemovals ==
  ASSUME TInv, RemovalsAreTrue,
         events # <<>>, events' = Tail(events), reloads' = reloads, entries' = entries
  PROVE  RemovalsAreTrue'
<1>1. ASSUME NEW r \in Routines, Unsent(Event("removed", r))' PROVE entries'[r] = Absent
  BY <1>1, TailMeaning DEF RemovalsAreTrue
<1>2. ASSUME NEW r \in Routines, NEW k \in DOMAIN events',
             events'[k] = Event("removed", r), ~SyncAfter(k)'
      PROVE  entries'[r] = Absent
  <2>1. k \in 0..(Len(events) - 1) /\ k + 1 \in DOMAIN events
    BY TailMeaning
  <2>2. events[k + 1] = Event("removed", r) /\ ~SyncAfter(k + 1)
    BY <1>2, <2>1, TailMeaning
  <2> QED BY <2>1, <2>2 DEF RemovalsAreTrue
<1> QED BY <1>1, <1>2 DEF RemovalsAreTrue

LEMMA ApplyRemovedKeepsJobs ==
  ASSUME TInv, JInv, ApplyRemoved
  PROVE  JInv'
<1>1. events # <<>> /\ events' = Tail(events) /\ reloads' = reloads /\ entries' = entries
  BY DEF ApplyRemoved
<1>2. DownIsEmpty'
  BY DEF JInv, DownIsEmpty, ApplyRemoved
<1> SUFFICES ASSUME ~lost' PROVE OneReload' /\ RemovalsAreTrue' /\ RestIsDone'
  BY <1>2 DEF JInv
<1>3. OneReload /\ RemovalsAreTrue /\ RestIsDone
  BY DEF JInv, ApplyRemoved
<1>4. OneReload'
  BY <1>1, <1>3 DEF OneReload
<1>5. RemovalsAreTrue'
  BY <1>1, <1>3, TailKeepsRemovals
<1>6. RestIsDone'
  <2> SUFFICES ASSUME ~SyncAfter(0)', NEW q \in Routines
               PROVE  ToBeRemoved(q)' \/ Matches(Basis'[q], entries'[q])
    BY DEF RestIsDone
  <2> DEFINE r == Head(events).ref
  <2>1. r \in Routines /\ Head(events) = Event("removed", r) /\ events[1] = Head(events)
    BY <1>1, TailMeaning, RemovedShape DEF ApplyRemoved
  <2>2. ~SyncAfter(1)
    <3>1. 0 \in 0..(Len(events) - 1) /\ 0 + 1 = 1
      BY <1>1, TailMeaning
    <3> QED BY <1>1, <3>1, TailMeaning
  <2>3. ~SyncAfter(0)
    <3>1. ASSUME NEW j \in DOMAIN events, events[j].type # "removed" PROVE j > 1
      BY <1>1, <2>1, <3>1, TailMeaning DEF ApplyRemoved
    <3> QED BY <2>2, <3>1 DEF SyncAfter
  <2>4. Basis = jobs /\ Basis' = [jobs EXCEPT ![r] = Absent] /\ jobs \in Manifests
    BY DEF ApplyRemoved, Basis, TInv, TypeOK
  <2>5. CASE q = r
    <3>1. entries[q] = Absent
      BY <1>1, <1>3, <2>1, <2>2, <2>5, TailMeaning DEF RemovalsAreTrue
    <3>2. Basis'[q] = Absent
      BY <2>4, <2>5 DEF Manifests
    <3> QED BY <1>1, <3>1, <3>2, RoutineStoreAssumption DEF Matches
  <2>6. CASE q # r
    <3>1. ToBeRemoved(q) \/ Matches(Basis[q], entries[q])
      BY <1>3, <2>3 DEF RestIsDone
    <3>2. Basis'[q] = Basis[q]
      BY <2>4, <2>6 DEF Manifests
    <3>3. Event("removed", q) # Head(events)
      BY <2>1, <2>6, EventShape
    <3>4. ToBeRemoved(q) => ToBeRemoved(q)'
      BY <1>1, <3>3, TailMeaning DEF ToBeRemoved
    <3> QED BY <1>1, <3>1, <3>2, <3>4
  <2> QED BY <2>5, <2>6
<1> QED BY <1>4, <1>5, <1>6

LEMMA ApplyChangedKeepsJobs ==
  ASSUME TInv, JInv, ApplyChanged
  PROVE  JInv'
<1>1. events # <<>> /\ events' = Tail(events) /\ reloads' = reloads /\ entries' = entries
  BY DEF ApplyChanged
<1>2. DownIsEmpty'
  BY DEF JInv, DownIsEmpty, ApplyChanged
<1> SUFFICES ASSUME ~lost' PROVE OneReload' /\ RemovalsAreTrue' /\ RestIsDone'
  BY <1>2 DEF JInv
<1>3. OneReload /\ RemovalsAreTrue
  BY DEF JInv, ApplyChanged
<1>4. OneReload'
  BY <1>1, <1>3 DEF OneReload
<1>5. RemovalsAreTrue'
  BY <1>1, <1>3, TailKeepsRemovals
<1>6. snapshot'.taken /\ snapshot'.entries = entries
  BY DEF ApplyChanged
<1>7. Basis' = Wanted(entries)
  BY <1>6 DEF Basis, Wanted
<1>8. RestIsDone'
  BY <1>1, <1>7, WantedMatches DEF RestIsDone, TInv, TypeOK
<1> QED BY <1>4, <1>5, <1>8

LEMMA JobsStep == TInv /\ TInv' /\ JInv /\ [Next]_vars => JInv'
<1> SUFFICES ASSUME TInv, TInv', JInv, [Next]_vars PROVE JInv'
  OBVIOUS
<1> USE DEF DownIsEmpty
<1>1. ASSUME UNCHANGED <<entries, reloads, events, snapshot, jobs, lost>>, DownIsEmpty'
      PROVE  JInv'
  BY <1>1, JobsKept DEF JInv, OneReload, Unsent
<1>2. ASSUME DiskStep PROVE JInv'
  <2>1. UNCHANGED <<phase, timer, entries, reloads, events, snapshot, jobs, lost>>
    <3>1. ASSUME NEW r \in Routines, EditManifest(r)
          PROVE  UNCHANGED <<phase, timer, entries, reloads, events, snapshot, jobs, lost>>
      BY <3>1 DEF EditManifest
    <3>2. ASSUME NEW p \in Repos, MakeDir(p)
          PROVE  UNCHANGED <<phase, timer, entries, reloads, events, snapshot, jobs, lost>>
      BY <3>2 DEF MakeDir
    <3>3. ASSUME SaveRoots
          PROVE  UNCHANGED <<phase, timer, entries, reloads, events, snapshot, jobs, lost>>
      BY <3>3 DEF SaveRoots
    <3> QED BY <1>2, <3>1, <3>2, <3>3 DEF DiskStep
  <2> QED BY <1>1, <2>1 DEF JInv
<1>3. ASSUME Start PROVE JInv'
  <2>1. reloads' = <<>> /\ events' = <<>> /\ ~snapshot'.taken /\ phase' # "down"
    BY <1>3 DEF JInv, Start
  <2>2. DOMAIN reloads' = {} /\ DOMAIN events' = {}
    BY <2>1
  <2>3. OneReload' /\ RemovalsAreTrue'
    BY <2>2 DEF OneReload, RemovalsAreTrue, Unsent
  <2>4. Basis' = Wanted(OnDisk) /\ entries' = OnDisk
    BY <1>3, <2>1 DEF Start, LoadAll, Basis
  <2>5. RestIsDone'
    BY <2>4, OnDiskType, WantedMatches DEF RestIsDone, TInv
  <2> QED BY <2>1, <2>3, <2>5 DEF JInv
<1>4. ASSUME Watch \/ Close PROVE JInv'
  <2>1. phase' # "down"
    BY <1>4 DEF Watch, Close
  <2> QED BY <1>4, <2>1, JobsKept DEF Watch, Close, JInv, OneReload, Unsent
<1>5. ASSUME NEW kind \in {"dir", "roots"}, HandleEvent(kind) PROVE JInv'
  BY <1>1, <1>5 DEF HandleEvent
<1>6. ASSUME Expire PROVE JInv'
  <2>1. PICK i \in (1..MaxReloads) \ DOMAIN reloads :
          reloads' = [j \in DOMAIN reloads \cup {i} |-> IF j = i THEN Begin ELSE reloads[j]]
    BY <1>6 DEF Expire
  <2>2. /\ DOMAIN reloads' = DOMAIN reloads \cup {i} /\ reloads'[i] = Begin
        /\ Begin.step = "begin"
    BY <2>1, StepShapes
  <2>3. ~lost' => DOMAIN reloads = {}
    BY <1>6 DEF Expire
  <2>4. ~lost' => OneReload' /\ \A e : Unsent(e)' <=> Unsent(e)
    BY <2>2, <2>3 DEF OneReload, Unsent
  <2>5. DownIsEmpty'
    BY <1>6 DEF Expire, JInv
  <2> QED BY <1>6, <2>4, <2>5, JobsKept DEF Expire
<1>7. ASSUME NEW i \in 1..MaxReloads, CopyEntries(i) PROVE JInv'
  <2>1. /\ i \in DOMAIN reloads /\ reloads[i].step = "begin"
        /\ DOMAIN reloads' = DOMAIN reloads /\ reloads'[i] = Found(entries)
        /\ \A j \in DOMAIN reloads \ {i} : reloads'[j] = reloads[j]
    BY <1>7 DEF CopyEntries
  <2>2. reloads'[i].step = "load" /\ reloads'[i].before = entries
    BY <2>1, StepShapes
  <2>3. ~lost' => OneReload'
    BY <1>7, <2>1, <2>2 DEF CopyEntries, JInv, OneReload
  <2>4. \A e : Unsent(e)' <=> Unsent(e)
    BY <2>1, <2>2 DEF Unsent
  <2>5. DownIsEmpty'
    BY <1>7, <2>1 DEF CopyEntries, JInv
  <2> QED BY <1>7, <2>3, <2>4, <2>5, JobsKept DEF CopyEntries
<1>8. ASSUME NEW i \in 1..MaxReloads, Reload(i) PROVE JInv'
  BY <1>8, ReloadKeepsJobs
<1>9. ASSUME NEW i \in 1..MaxReloads, ReloadFails(i) \/ EndReload(i) PROVE JInv'
  <2>1. /\ i \in DOMAIN reloads /\ \A e : ~(reloads[i].step = "send" /\ e \in reloads[i].todo)
        /\ reloads' = Without(i)
    BY <1>9 DEF ReloadFails, EndReload
  <2>2. /\ DOMAIN reloads' = DOMAIN reloads \ {i}
        /\ \A j \in DOMAIN reloads' : reloads'[j] = reloads[j]
    BY <2>1 DEF Without
  <2>3. \A e : Unsent(e)' <=> Unsent(e)
    BY <2>1, <2>2 DEF Unsent
  <2>4. ~lost' => OneReload'
    BY <1>9, <2>2 DEF ReloadFails, EndReload, JInv, OneReload
  <2>5. DownIsEmpty'
    BY <1>9, <2>1 DEF ReloadFails, EndReload, JInv
  <2> QED BY <1>9, <2>3, <2>4, <2>5, JobsKept DEF ReloadFails, EndReload
<1>10. ASSUME NEW i \in 1..MaxReloads, Send(i) PROVE JInv'
  BY <1>10, SendKeepsJobs
<1>11. ASSUME NEW i \in 1..MaxReloads, SendPanics(i) PROVE JInv'
  BY <1>1, <1>11 DEF SendPanics, JInv
<1>12. ASSUME ApplyRemoved PROVE JInv'
  BY <1>12, ApplyRemovedKeepsJobs
<1>13. ASSUME ApplyChanged PROVE JInv'
  BY <1>13, ApplyChangedKeepsJobs
<1>14. ASSUME Sync PROVE JInv'
  <2>1. Basis = Wanted(snapshot.entries) /\ Basis' = Wanted(snapshot.entries)
    BY <1>14 DEF Sync, Basis, None
  <2>2. /\ \A e : Unsent(e)' <=> Unsent(e)
        /\ \A e : Queued(e)' <=> Queued(e)
        /\ UNCHANGED <<entries, reloads, lost, events>>
    BY <1>14 DEF Sync, Unsent, Queued
  <2>3. \A k : SyncAfter(k)' <=> SyncAfter(k)
    BY <2>2 DEF SyncAfter
  <2>4. ~lost' => OneReload' /\ RemovalsAreTrue'
    BY <2>2, <2>3 DEF JInv, OneReload, RemovalsAreTrue
  <2>5. ~lost' => RestIsDone'
    BY <2>1, <2>2, <2>3 DEF JInv, RestIsDone, ToBeRemoved
  <2>6. DownIsEmpty'
    BY <1>14 DEF Sync, JInv
  <2> QED BY <2>4, <2>5, <2>6 DEF JInv
<1>15. ASSUME Exit PROVE JInv'
  <2>1. /\ DOMAIN reloads' = {} /\ DOMAIN events' = {} /\ ~snapshot'.taken /\ DownIsEmpty'
        /\ entries' = NoJobs /\ jobs' = NoJobs
    BY <1>15 DEF Exit, None
  <2>2. OneReload' /\ RemovalsAreTrue'
    BY <2>1 DEF OneReload, RemovalsAreTrue, Unsent
  <2>3. \A r \in Routines : Basis'[r] = Absent /\ entries'[r] = Absent
    BY <2>1 DEF Basis, NoJobs
  <2>4. RestIsDone'
    BY <2>3, RoutineStoreAssumption DEF RestIsDone, Matches
  <2> QED BY <2>1, <2>2, <2>4 DEF JInv
<1>16. ASSUME UNCHANGED vars PROVE JInv'
  BY <1>1, <1>16 DEF JInv
<1> QED
  BY <1>2, <1>3, <1>4, <1>5, <1>6, <1>7, <1>8, <1>9, <1>10, <1>11, <1>12, <1>13, <1>14,
     <1>15, <1>16 DEF Next, DaemonStep

\* Once the daemon is quiet, every enabled entry of its store has a job made from
\* a manifest that differs from it in nothing routineChanged compares, and no
\* other routine has one: unless an event was dropped or two reloads overlapped,
\* and although ApplyEvent works through the differences later and Sync with a
\* snapshot that reloads may have overtaken.
THEOREM JobsAreInStep == Spec => []JobsFollowStore
<1>1. TInv /\ [Next]_vars => TInv'
  BY TypeStep
<1>2. TInv /\ TInv' /\ JInv /\ [Next]_vars => JInv'
  BY JobsStep
<1>3. JInv => JobsFollowStore
  <2> SUFFICES ASSUME JInv, Quiet, ~lost, NEW r \in Routines
               PROVE  Matches(jobs[r], entries[r])
    BY DEF JobsFollowStore
  <2>1. DOMAIN reloads = {} /\ DOMAIN events = {} /\ Basis = jobs
    BY DEF Quiet, Basis
  <2>2. ~SyncAfter(0) /\ ~ToBeRemoved(r)
    BY <2>1 DEF SyncAfter, ToBeRemoved, Queued, Unsent
  <2> QED BY <2>1, <2>2 DEF JInv, RestIsDone
<1> QED BY <1>1, <1>2, <1>3, TypeInit, JobsInit, PTL DEF Spec

=============================================================================
