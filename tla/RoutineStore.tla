---------------------------- MODULE RoutineStore ----------------------------
(***************************************************************************)
(* How the routines daemon keeps its jobs in step with the manifests on    *)
(* disk (routine/storage.go, storage_watch.go, scheduler.go, roots.go and  *)
(* daemon/daemon_run.go).  At start it loads every manifest, schedules the *)
(* enabled ones, and only then begins to watch.  The watch loop coalesces  *)
(* file events with a timer; the timer's goroutine reloads the store and   *)
(* sends the differences to a channel of bounded size; the consumer of the *)
(* channel updates the jobs.                                               *)
(*                                                                         *)
(* A manifest is what LoadRoutine returns for the file: a file that does   *)
(* not parse is Absent.                                                    *)
(***************************************************************************)
EXTENDS Integers, Sequences, FiniteSets

CONSTANTS
  Routines,
  Global,     \* the directory of the global routines
  Repos,      \* repositories, each with a directory of routines
  Home,       \* the directory a routine's manifest is in
  Contents,   \* what a manifest may say
  Absent,
  Enabled,    \* the contents with enabled: true
  Relevant,   \* the part of a content that routineChanged compares
  Buffer,     \* size of the event channel (at least 1)
  MaxReloads, \* bound: goroutines in diffAndEmit at a time
  MaxEdits,   \* bound: changes on disk
  MaxStarts   \* bound: starts of the daemon

ASSUME RoutineStoreAssumption ==
  /\ Global \notin Repos
  /\ Home \in [Routines -> Repos \cup {Global}]
  /\ Absent \notin Contents
  /\ Enabled \subseteq Contents
  /\ \A c, d \in Contents : Relevant[c] = Relevant[d] => (c \in Enabled <=> d \in Enabled)
  /\ Buffer \in Nat \ {0} /\ MaxReloads \in Nat \ {0}
  /\ MaxEdits \in Nat /\ MaxStarts \in Nat

VARIABLES
  disk,         \* the manifests
  rootsFile,    \* the roots in routine-roots.yaml
  rootsExists,  \* does that file exist?
  dirs,         \* repositories that have a directory of routines
  edits,
  starts,
  phase,        \* where the daemon is
  entries,      \* store.entries
  roots,        \* store.roots
  watching,     \* store.watching
  rootsWatched, \* is the registry watched?
  pending,      \* kinds of file events that wait in w.Events
  timer,        \* is the debounce timer armed?
  reloads,      \* the goroutines in diffAndEmit
  events,       \* the channel
  snapshot,     \* what ApplyEvent has read before it calls Sync
  jobs,         \* the entry a routine's job was created with
  panicked,     \* did a goroutine send on the closed channel?
  unnoticed,    \* history: routines changed with no file event since the last load
  unread,       \* history: routines whose change a failed reload left unread since then
  lost          \* history: an event was dropped, or two reloads overlapped

files   == <<disk, rootsFile, rootsExists, dirs, edits>>
watch   == <<watching, rootsWatched, pending, timer>>
store   == <<entries, roots>>
apply   == <<snapshot, jobs>>
missed  == <<unnoticed, unread>>
vars == <<files, starts, phase, store, watch, reloads, events, apply,
          panicked, missed, lost>>

Manifests == [Routines -> Contents \cup {Absent}]
NoJobs    == [r \in Routines |-> Absent]
None      == [taken |-> FALSE]
Event(type, r)  == [type |-> type, ref |-> r]
Events          == [type : {"added", "updated", "removed"}, ref : Routines]
Begin           == [step |-> "begin"]
Found(before)   == [step |-> "load", before |-> before]
Sending(todo)   == [step |-> "send", todo |-> todo]

TypeOK ==
  /\ disk \in Manifests /\ entries \in Manifests /\ jobs \in Manifests
  /\ rootsFile \subseteq Repos /\ roots \subseteq Repos /\ dirs \subseteq Repos
  /\ rootsExists \in BOOLEAN /\ rootsWatched \in BOOLEAN
  /\ edits \in 0..MaxEdits /\ starts \in 0..MaxStarts
  /\ phase \in {"down", "loaded", "watching", "closed"}
  /\ watching \subseteq Repos \cup {Global}
  /\ pending \subseteq {"dir", "roots"}
  /\ timer \in BOOLEAN
  /\ DOMAIN reloads \subseteq 1..MaxReloads
  /\ events \in Seq(Events) /\ Len(events) <= Buffer
  /\ snapshot.taken \in BOOLEAN
  /\ panicked \in BOOLEAN /\ lost \in BOOLEAN
  /\ unnoticed \subseteq Routines /\ unread \subseteq Routines

Init ==
  /\ disk \in Manifests
  /\ dirs \in SUBSET Repos
  /\ \A r \in Routines : disk[r] # Absent => Home[r] \in dirs \cup {Global}
  /\ rootsFile \in SUBSET Repos
  /\ rootsExists \in BOOLEAN /\ (rootsFile # {} => rootsExists)
  /\ edits = 0 /\ starts = 0
  /\ phase = "down"
  /\ entries = NoJobs /\ roots = {}
  /\ watching = {} /\ rootsWatched = FALSE /\ pending = {} /\ timer = FALSE
  /\ reloads = <<>> /\ events = <<>> /\ snapshot = None /\ jobs = NoJobs
  /\ panicked = FALSE /\ unnoticed = {} /\ unread = {} /\ lost = FALSE

(***************************************************************************)
(* The disk: the squad CLI in other processes, editors, git                *)
(***************************************************************************)

Change == edits < MaxEdits /\ edits' = edits + 1

\* A change in a directory is an event if the directory is watched.
DirEvent(rs) ==
  LET seen == {r \in rs : Home[r] \in watching} IN
  /\ pending' = IF seen # {} THEN pending \cup {"dir"} ELSE pending
  /\ unnoticed' = unnoticed \cup (rs \ seen)

\* Create, Update and Delete write or remove the manifest in one step.
EditManifest(r) ==
  /\ Change
  /\ Home[r] \in dirs \cup {Global}
  /\ \E c \in (Contents \cup {Absent}) \ {disk[r]} : disk' = [disk EXCEPT ![r] = c]
  /\ DirEvent({r})
  /\ UNCHANGED <<rootsFile, rootsExists, dirs, starts, phase, store, watching,
                 rootsWatched, timer, reloads, events, apply, panicked, unread, lost>>

\* Create makes the directory of a repository.
MakeDir(p) ==
  /\ p \notin dirs
  /\ dirs' = dirs \cup {p}
  /\ UNCHANGED <<disk, rootsFile, rootsExists, edits, starts, phase, store, watch,
                 reloads, events, apply, panicked, missed, lost>>

\* AddRoot and RemoveRoot rename a new registry over the old one.  The watch is
\* on the file that was replaced: whether it survives depends on the platform.
SaveRoots ==
  /\ Change
  /\ \E ps \in SUBSET Repos :
       /\ Cardinality((ps \ rootsFile) \cup (rootsFile \ ps)) = 1
       /\ rootsFile' = ps
       /\ rootsExists' = TRUE
       /\ IF rootsWatched
            THEN /\ pending' = pending \cup {"roots"}
                 /\ rootsWatched' \in BOOLEAN
                 /\ UNCHANGED unnoticed
            ELSE /\ unnoticed' = unnoticed \cup
                      {r \in Routines : Home[r] \in (ps \ rootsFile) \cup (rootsFile \ ps)}
                 /\ UNCHANGED <<pending, rootsWatched>>
  /\ UNCHANGED <<disk, dirs, starts, phase, store, watching, timer, reloads,
                 events, apply, panicked, unread, lost>>

(***************************************************************************)
(* The store                                                               *)
(***************************************************************************)

\* What LoadAll finds: the global routines and those of the registered roots.
OnDisk == [r \in Routines |->
  IF Home[r] \in rootsFile \cup {Global} THEN disk[r] ELSE Absent]

LoadAll ==
  /\ entries' = OnDisk
  /\ roots' = rootsFile
  /\ unnoticed' = {} /\ unread' = {}

\* routineChanged: base_url and wake_system are not compared.
RoutineChanged(c, d) == Relevant[c] # Relevant[d]

\* The entries Sync makes jobs of.
Wanted(es) == [r \in Routines |-> IF es[r] \in Enabled THEN es[r] ELSE Absent]

\* newStoreAndScheduler: LoadAll, then Sync.
Start ==
  /\ phase = "down" /\ starts < MaxStarts
  /\ starts' = starts + 1
  /\ phase' = "loaded"
  /\ LoadAll
  /\ jobs' = Wanted(OnDisk)
  /\ UNCHANGED <<files, watch, reloads, events, snapshot, panicked, lost>>

\* rewatch keeps the directories that exist.
Desired(ps) == {Global} \cup (ps \cap dirs)

\* Watch: the directories, and the registry if there is one.
Watch ==
  /\ phase = "loaded"
  /\ phase' = "watching"
  /\ watching' = Desired(roots)
  /\ rootsWatched' = rootsExists
  /\ UNCHANGED <<files, starts, store, pending, timer, reloads, events, apply,
                 panicked, missed, lost>>

(***************************************************************************)
(* The watch loop                                                          *)
(***************************************************************************)

\* Mutant of HandleEvent: an armed timer is stopped and not replaced.
HandleEventOnce(kind) ==
  /\ phase = "watching"
  /\ kind \in pending
  /\ pending' = pending \ {kind}
  /\ IF kind = "roots"
       THEN roots' \in {rootsFile, roots} /\ watching' = Desired(roots')
       ELSE UNCHANGED <<roots, watching>>
  /\ timer' = ~timer
  /\ UNCHANGED <<files, starts, phase, entries, rootsWatched, reloads, events, apply,
                 panicked, missed, lost>>

\* Every event restarts the debounce timer; one of the registry first reloads
\* the roots, which may fail, and adjusts the watched directories.
HandleEvent(kind) ==
  /\ phase = "watching"
  /\ kind \in pending
  /\ pending' = pending \ {kind}
  /\ IF kind = "roots"
       THEN roots' \in {rootsFile, roots} /\ watching' = Desired(roots')
       ELSE UNCHANGED <<roots, watching>>
  /\ timer' = TRUE
  /\ UNCHANGED <<files, starts, phase, entries, rootsWatched, reloads, events, apply,
                 panicked, missed, lost>>

\* Mutant of Expire: a ticker in place of a timer.
ExpireAgain ==
  /\ timer
  /\ \E i \in (1..MaxReloads) \ DOMAIN reloads :
       reloads' = [j \in DOMAIN reloads \cup {i} |-> IF j = i THEN Begin ELSE reloads[j]]
  /\ lost' = (lost \/ DOMAIN reloads # {})
  /\ UNCHANGED <<files, starts, phase, store, watch, events, apply, panicked, missed>>

\* The timer's goroutine starts, whether or not an earlier one has ended and
\* whether or not the loop is still there.
Expire ==
  /\ timer
  /\ \E i \in (1..MaxReloads) \ DOMAIN reloads :
       reloads' = [j \in DOMAIN reloads \cup {i} |-> IF j = i THEN Begin ELSE reloads[j]]
  /\ timer' = FALSE
  /\ lost' = (lost \/ DOMAIN reloads # {})
  /\ UNCHANGED <<files, starts, phase, store, watching, rootsWatched, pending,
                 events, apply, panicked, missed>>

\* ctx.Done: the loop closes the watcher and the channel.
Close ==
  /\ phase = "watching"
  /\ phase' = "closed"
  /\ watching' = {} /\ rootsWatched' = FALSE /\ pending' = {}
  /\ UNCHANGED <<files, starts, store, timer, reloads, events, apply, panicked,
                 missed, lost>>

(***************************************************************************)
(* diffAndEmit                                                             *)
(***************************************************************************)

\* The entries are copied under the lock, and the lock is given up.
CopyEntries(i) ==
  /\ i \in DOMAIN reloads /\ reloads[i].step = "begin"
  /\ reloads' = [reloads EXCEPT ![i] = Found(entries)]
  /\ UNCHANGED <<files, starts, phase, store, watch, events, apply, panicked,
                 missed, lost>>

\* Mutant of Differences: a routine that is still there has not changed.
DifferencesInKeys(before, after) ==
  {Event("added", r) : r \in {r \in Routines : before[r] = Absent /\ after[r] # Absent}}
  \cup
  {Event("removed", r) : r \in {r \in Routines : before[r] # Absent /\ after[r] = Absent}}

Differences(before, after) ==
  {Event("added", r) : r \in {r \in Routines : before[r] = Absent /\ after[r] # Absent}}
  \cup
  {Event("updated", r) : r \in {r \in Routines :
     before[r] # Absent /\ after[r] # Absent /\ RoutineChanged(before[r], after[r])}}
  \cup
  {Event("removed", r) : r \in {r \in Routines : before[r] # Absent /\ after[r] = Absent}}

Reload(i) ==
  /\ i \in DOMAIN reloads /\ reloads[i].step = "load"
  /\ LoadAll
  /\ reloads' = [reloads EXCEPT ![i] = Sending(Differences(reloads[i].before, OnDisk))]
  /\ UNCHANGED <<files, starts, phase, watch, events, apply, panicked, lost>>

Without(i) == [j \in DOMAIN reloads \ {i} |-> reloads[j]]

\* The registry or a directory cannot be read: the entries are not replaced, and
\* there is no other try until the next event.
ReloadFails(i) ==
  /\ i \in DOMAIN reloads /\ reloads[i].step = "load"
  /\ reloads' = Without(i)
  /\ roots' \in {rootsFile, roots}
  /\ unread' = unread \cup {r \in Routines : entries[r] # OnDisk[r]}
  /\ UNCHANGED <<files, starts, phase, entries, watch, events, apply, panicked, unnoticed, lost>>

\* A full channel drops the event.
SendOrDrop(e) ==
  IF Len(events) < Buffer THEN events' = Append(events, e) /\ UNCHANGED lost
                          ELSE lost' = TRUE /\ UNCHANGED events

\* The next event of a reload: additions and updates first, in any order.
NextToSend(todo) ==
  LET changed == {e \in todo : e.type # "removed"} IN
  IF changed # {} THEN changed ELSE todo

Send(i) ==
  /\ i \in DOMAIN reloads /\ reloads[i].step = "send"
  /\ phase # "closed"
  /\ \E e \in NextToSend(reloads[i].todo) :
       /\ reloads' = [reloads EXCEPT ![i] = Sending(@.todo \ {e})]
       /\ SendOrDrop(e)
  /\ UNCHANGED <<files, starts, phase, store, watch, apply, panicked, missed>>

\* A send on a closed channel panics, and the process dies.
SendPanics(i) ==
  /\ i \in DOMAIN reloads /\ reloads[i].step = "send"
  /\ phase = "closed"
  /\ reloads[i].todo # {}
  /\ panicked' = TRUE
  /\ UNCHANGED <<files, starts, phase, store, watch, reloads, events, apply,
                 missed, lost>>

EndReload(i) ==
  /\ i \in DOMAIN reloads /\ reloads[i].step = "send"
  /\ reloads[i].todo = {}
  /\ reloads' = Without(i)
  /\ UNCHANGED <<files, starts, phase, store, watch, events, apply, panicked,
                 missed, lost>>

(***************************************************************************)
(* The consumer: ApplyEvent                                                *)
(***************************************************************************)

ApplyRemoved ==
  /\ events # <<>> /\ ~snapshot.taken
  /\ Head(events).type = "removed"
  /\ events' = Tail(events)
  /\ jobs' = [jobs EXCEPT ![Head(events).ref] = Absent]
  /\ UNCHANGED <<files, starts, phase, store, watch, reloads, snapshot, panicked,
                 missed, lost>>

\* The entries are read under the lock, the lock is given up, and Sync takes it.
ApplyChanged ==
  /\ events # <<>> /\ ~snapshot.taken
  /\ Head(events).type # "removed"
  /\ events' = Tail(events)
  /\ snapshot' = [taken |-> TRUE, entries |-> entries]
  /\ UNCHANGED <<files, starts, phase, store, watch, reloads, jobs, panicked,
                 missed, lost>>

\* Sync removes and re-adds every job.
Sync ==
  /\ snapshot.taken
  /\ jobs' = Wanted(snapshot.entries)
  /\ snapshot' = None
  /\ UNCHANGED <<files, starts, phase, store, watch, reloads, events, panicked,
                 missed, lost>>

(***************************************************************************)
(* The daemon ends: after the shutdown, in a crash or by the panic         *)
(***************************************************************************)

Exit ==
  /\ phase # "down"
  /\ phase' = "down"
  /\ entries' = NoJobs /\ roots' = {} /\ jobs' = NoJobs
  /\ watching' = {} /\ rootsWatched' = FALSE /\ pending' = {} /\ timer' = FALSE
  /\ reloads' = <<>> /\ events' = <<>> /\ snapshot' = None
  /\ panicked' = FALSE /\ unnoticed' = {} /\ unread' = {} /\ lost' = FALSE
  /\ UNCHANGED <<files, starts>>

DaemonStep ==
  /\ ~panicked
  /\ \/ Watch
     \/ \E kind \in {"dir", "roots"} : HandleEvent(kind)
     \/ Expire
     \/ \E i \in 1..MaxReloads :
          CopyEntries(i) \/ Reload(i) \/ ReloadFails(i) \/ Send(i) \/ SendPanics(i) \/ EndReload(i)
     \/ ApplyRemoved \/ ApplyChanged \/ Sync

DiskStep ==
  \/ \E r \in Routines : EditManifest(r)
  \/ \E p \in Repos : MakeDir(p)
  \/ SaveRoots

Next == DaemonStep \/ DiskStep \/ Start \/ (Close /\ ~panicked) \/ Exit

Spec == Init /\ [][Next]_vars

\* The daemon's goroutines are scheduled; nobody is obliged to edit or to stop.
FairSpec == Spec /\ WF_vars(DaemonStep)

(***************************************************************************)
(* Properties                                                              *)
(***************************************************************************)

\* Nothing is left to do for the daemon.
Quiet ==
  /\ phase = "watching" /\ ~panicked
  /\ pending = {} /\ ~timer
  /\ reloads = <<>> /\ events = <<>> /\ ~snapshot.taken

\* Whatever burst of edits the debounce timer coalesces, and however reloads and
\* edits interleave, the store ends up with the manifests on disk, except those
\* whose change raised no file event, and those that differed when a reload failed
\* and that no reload has read since (ReportedChangesAreRead below).
StoreFollowsDisk ==
  Quiet => \A r \in Routines \ (unnoticed \cup unread) : entries[r] = OnDisk[r]

Matches(job, entry) ==
  IF entry \in Enabled THEN job # Absent /\ ~RoutineChanged(job, entry) ELSE job = Absent

\* The jobs end up in step with the store, although the differences are applied
\* late and Sync works on a snapshot that may be stale: unless an event was
\* dropped or two reloads overlapped.
JobsFollowStore ==
  Quiet /\ ~lost => \A r \in Routines : Matches(jobs[r], entries[r])

\* The daemon comes to rest after the last edit.
ComesToRest == phase = "watching" ~> Quiet \/ panicked \/ phase # "watching"

(***************************************************************************)
(* Claims of comments and documents that the code does not keep            *)
(***************************************************************************)

\* A change of the registry is picked up without a restart.
RegistryIsPickedUp == Quiet => roots = rootsFile

\* Events are emitted until ctx is cancelled.
NothingIsSentAfterClose == ~panicked

\* The daemon stops scheduling a routine that is disabled or deleted.
DisabledIsUnscheduled ==
  Quiet => \A r \in Routines \ (unnoticed \cup unread) :
             OnDisk[r] \notin Enabled => jobs[r] = Absent

\* Every change that raised a file event reaches the store.
ReportedChangesAreRead ==
  Quiet => \A r \in Routines \ unnoticed : entries[r] = OnDisk[r]

=============================================================================
