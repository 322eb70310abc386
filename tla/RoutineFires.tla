---------------------------- MODULE RoutineFires ----------------------------
(***************************************************************************)
(* The fires of the routines daemon (routine/scheduler.go, catchup.go,     *)
(* state.go, daemon/daemon_run.go): scheduled ones, in gocron's singleton  *)
(* jobs; catch-ups of what was missed while the daemon was not running;    *)
(* and `squad routine run-now` in a process of its own.  Each saves the    *)
(* routine's state file when it begins and when it ends.                   *)
(*                                                                         *)
(* now = t stands for the time strictly between the instants t and t + 1;  *)
(* schedules name instants.  Reloading manifests is RoutineStore; here it  *)
(* shows as jobs that are replaced.                                        *)
(***************************************************************************)
EXTENDS Integers, FiniteSets, FiniteSetsExt, TLC

CONSTANTS
  Routines,
  Period,        \* a routine is due at the multiples of its period
  CatchUp,       \* routines whose effective policy is fire-once
  MaxConcurrent, \* daemon.Options.MaxConcurrent
  MaxFires,      \* bound: fires at a time
  MaxManual,     \* bound: run-now commands
  MaxJobs,       \* bound: generations of jobs
  MaxTime,       \* bound: instants that pass
  MaxStarts      \* bound: starts of the daemon

ASSUME RoutineFiresAssumption ==
  /\ IsFiniteSet(Routines)
  /\ Period \in [Routines -> Nat \ {0}]
  /\ CatchUp \subseteq Routines
  /\ MaxConcurrent \in Nat \ {0}
  /\ {MaxFires, MaxManual, MaxJobs, MaxTime, MaxStarts} \subseteq Nat

VARIABLES
  now,
  phase,      \* where the daemon is
  starts,
  due,        \* routines that are due at this instant
  job,        \* the generation of a routine's gocron job, 0 = none
  jobs,       \* generations so far
  fires,      \* the fires that have not ended
  manual,     \* run-now commands given so far
  state,      \* the state files
  killed,     \* history: routines whose state was "running" when the daemon died
  latest,     \* history: the latest start in a state file a fire has saved
  owed,       \* history: the last instant missed and not served, 0 = none
  overlapped  \* history: routines that had two fires at once

vars == <<now, phase, starts, due, job, jobs, fires, manual, state, killed,
          latest, owed, overlapped>>
daemon  == <<phase, starts, job, jobs>>
history == <<killed, latest, owed, overlapped>>

Ids == 1..MaxFires
\* queued: waits for gocron's limit; starting: in runFire; begun: start is read;
\* running: the running state is saved; ended: the agent has returned.
Steps == {"queued", "starting", "begun", "running", "ended"}
InRunFire == {"begun", "running", "ended"}

Fire(r, by, j, step, missed) ==
  [ref |-> r, by |-> by, job |-> j, step |-> step, start |-> 0, ok |-> FALSE,
   missed |-> missed, served |-> latest[r]]

FiresOf(r)   == {f \in DOMAIN fires : fires[f].ref = r}
Scheduled    == {f \in DOMAIN fires : fires[f].by = "schedule"}
InProgress   == {f \in DOMAIN fires : fires[f].step # "queued"}
State(s, t)  == [status |-> s, last |-> t]

TypeOK ==
  /\ now \in 0..MaxTime
  /\ phase \in {"down", "loaded", "up"}
  /\ starts \in 0..MaxStarts /\ manual \in 0..MaxManual
  /\ due \subseteq Routines
  /\ job \in [Routines -> Nat] /\ jobs \in Nat
  /\ DOMAIN fires \subseteq Ids
  /\ \A f \in DOMAIN fires :
       /\ fires[f].ref \in Routines /\ fires[f].by \in {"schedule", "catchup", "manual"}
       /\ fires[f].step \in Steps /\ fires[f].start \in 0..now
  /\ Cardinality(Scheduled \cap InProgress) <= MaxConcurrent
  /\ state \in [Routines -> [status : {"", "running", "ok", "failed"}, last : 0..now]]
  /\ killed \subseteq Routines /\ overlapped \subseteq Routines
  /\ latest \in [Routines -> 0..now] /\ owed \in [Routines -> 0..now]

Init ==
  /\ now = 0 /\ phase = "down" /\ starts = 0 /\ due = {}
  /\ job = [r \in Routines |-> 0] /\ jobs = 0
  /\ fires = <<>> /\ manual = 0
  /\ state = [r \in Routines |-> State("", 0)]
  /\ killed = {} /\ overlapped = {}
  /\ latest = [r \in Routines |-> 0]
  /\ owed = [r \in Routines |-> 0]

(***************************************************************************)
(* Schedules                                                               *)
(***************************************************************************)

IsDue(r, t) == t % Period[r] = 0

\* NextFire: the first instant of the schedule after a time.
NextFire(r, t) == (t \div Period[r] + 1) * Period[r]

\* Every routine in CatchUp that was due while nobody was there to fire it is
\* owed a fire.
Tick ==
  /\ now < MaxTime /\ due = {}
  /\ now' = now + 1
  /\ LET ds == {r \in Routines : IsDue(r, now + 1)} IN
     /\ due' = IF phase = "up" THEN ds ELSE {}
     /\ owed' = [r \in Routines |->
          IF phase = "down" /\ r \in ds \cap CatchUp THEN now + 1 ELSE owed[r]]
  /\ UNCHANGED <<daemon, fires, manual, state, killed, latest, overlapped>>

(***************************************************************************)
(* The daemon                                                              *)
(***************************************************************************)

With(f, fire)  == [g \in DOMAIN fires \cup {f} |-> IF g = f THEN fire ELSE fires[g]]
FreeId         == Min(Ids \ DOMAIN fires)
HasFreeIds(n)  == Cardinality(Ids \ DOMAIN fires) >= n

\* Mutant of Missed: a routine that has never run has missed nothing.
MissedSinceRun(r) == r \in CatchUp /\ state[r].last > 0 /\ NextFire(r, state[r].last) <= now

\* FindMissedFires: the schedule has an instant after the last run, or after the
\* routine was created, that has passed.
Missed(r) == r \in CatchUp /\ NextFire(r, state[r].last) <= now

\* The latest one.
LatestMissed(r) == (now \div Period[r]) * Period[r]

\* A free id for each routine.
IdsFor(rs) == CHOOSE id \in [rs -> Ids \ DOMAIN fires] : \A r, s \in rs : r # s => id[r] # id[s]

\* newStoreAndScheduler and QueueCatchups: jobs are created and a goroutine is
\* started for every routine that has missed an instant.
Load ==
  LET missed == {r \in Routines : Missed(r)} IN
  /\ phase = "down" /\ starts < MaxStarts
  /\ HasFreeIds(Cardinality(missed))
  /\ phase' = "loaded" /\ starts' = starts + 1
  /\ jobs' = jobs + 1
  /\ job' = [r \in Routines |-> jobs + 1]
  /\ LET id == IdsFor(missed)
         CatchUpFire(r) == Fire(r, "catchup", 0, "starting", LatestMissed(r))
         OfId(f) == CatchUpFire(CHOOSE r \in missed : id[r] = f)
     IN  fires' = [f \in DOMAIN fires \cup {id[r] : r \in missed} |->
                     IF f \in DOMAIN fires THEN fires[f] ELSE OfId(f)]
  /\ UNCHANGED <<now, due, manual, state, history>>

\* gocron starts: from now on the jobs fire.
StartScheduler ==
  /\ phase = "loaded"
  /\ phase' = "up"
  /\ UNCHANGED <<now, starts, due, job, jobs, fires, manual, state, history>>

\* Sync replaces the job of every routine, whatever its fires are doing.
ReplaceJob(r) ==
  /\ phase = "up" /\ jobs < MaxJobs
  /\ jobs' = jobs + 1
  /\ job' = [job EXCEPT ![r] = jobs + 1]
  /\ UNCHANGED <<now, phase, starts, due, fires, manual, state, history>>

Waiting(j, r)  == {f \in Scheduled : fires[f].ref = r /\ fires[f].job = j}
Running(j, r)  == Waiting(j, r) \cap InProgress

\* A job that still runs, or waits to, may not be started again: the instant is
\* skipped (LimitModeReschedule).
Trigger(r) ==
  /\ r \in due
  /\ due' = due \ {r}
  /\ \/ Waiting(job[r], r) # {} /\ UNCHANGED fires
     \/ HasFreeIds(1) /\ fires' = With(FreeId, Fire(r, "schedule", job[r], "queued", 0))
  /\ UNCHANGED <<now, daemon, manual, state, history>>

\* The limit on concurrent jobs lets a fire go.
LeaveQueue(f) ==
  /\ f \in Scheduled /\ fires[f].step = "queued"
  /\ Running(fires[f].job, fires[f].ref) = {}
  /\ Cardinality(Scheduled \cap InProgress) < MaxConcurrent
  /\ fires' = [fires EXCEPT ![f].step = "starting"]
  /\ UNCHANGED <<now, daemon, due, manual, state, history>>

Without(fs) == [g \in DOMAIN fires \ fs |-> fires[g]]

\* A waiting fire is dropped when its job runs already or was removed.
DropQueued(f) ==
  /\ f \in Scheduled /\ fires[f].step = "queued"
  /\ \/ Running(fires[f].job, fires[f].ref) # {}
     \/ fires[f].job # job[fires[f].ref]
  /\ fires' = Without({f})
  /\ UNCHANGED <<now, daemon, due, manual, state, history>>

Unsaved == {"queued", "starting", "begun"}
Saved   == {"running", "ended"}

\* A crash, or the end of the shutdown: goroutines of the daemon vanish.  An
\* instant whose fire has saved nothing yet is owed.
Exit ==
  LET dead == {f \in DOMAIN fires : fires[f].by # "manual"}
      cut  == {f \in dead : fires[f].by = "schedule" /\ fires[f].step \in Unsaved}
      undone == due \cup {fires[f].ref : f \in cut}
  IN
  /\ phase # "down"
  /\ phase' = "down"
  /\ due' = {}
  /\ job' = [r \in Routines |-> 0]
  /\ fires' = Without(dead)
  /\ killed' = killed \cup {fires[f].ref : f \in {f \in dead : fires[f].step \in Saved}}
  /\ owed' = [r \in Routines |->
       IF r \in CatchUp \cap undone /\ latest[r] < LatestMissed(r)
         THEN LatestMissed(r) ELSE owed[r]]
  /\ UNCHANGED <<now, starts, jobs, manual, state, latest, overlapped>>

(***************************************************************************)
(* A fire                                                                  *)
(***************************************************************************)

\* squad routine run-now: a scheduler of its own, which only runs this fire.
RunNow(r) ==
  /\ manual < MaxManual /\ HasFreeIds(1)
  /\ manual' = manual + 1
  /\ fires' = With(FreeId, Fire(r, "manual", 0, "starting", 0))
  /\ UNCHANGED <<now, daemon, due, state, history>>

\* start := time.Now().
ReadClock(f) ==
  /\ f \in DOMAIN fires /\ fires[f].step = "starting"
  /\ fires' = [fires EXCEPT ![f].step = "begun", ![f].start = now]
  /\ overlapped' = IF \E g \in FiresOf(fires[f].ref) : fires[g].step \in InRunFire
                     THEN overlapped \cup {fires[f].ref} ELSE overlapped
  /\ UNCHANGED <<now, daemon, due, manual, state, killed, latest, owed>>

\* The state is "running" and the last run is this one.
SaveRunning(f) ==
  LET r == fires[f].ref  t == fires[f].start IN
  /\ f \in DOMAIN fires /\ fires[f].step = "begun"
  /\ fires' = [fires EXCEPT ![f].step = "running"]
  /\ state' = [state EXCEPT ![r] = State("running", t)]
  /\ killed' = killed \ {r}
  /\ latest' = [latest EXCEPT ![r] = Max({@, t})]
  /\ owed' = [owed EXCEPT ![r] = IF t >= @ THEN 0 ELSE @]
  /\ UNCHANGED <<now, daemon, due, manual, overlapped>>

\* The agent returns, or the context is cancelled or runs into its deadline.
AgentReturns(f) ==
  /\ f \in DOMAIN fires /\ fires[f].step = "running"
  /\ \E ok \in BOOLEAN :
       fires' = [fires EXCEPT ![f].step = "ended", ![f].ok = ok]
  /\ UNCHANGED <<now, daemon, due, manual, state, history>>

\* Mutant of SaveFinal: an error is returned before the state is saved.
SaveFinalOnSuccess(f) ==
  LET r == fires[f].ref IN
  /\ f \in DOMAIN fires /\ fires[f].step = "ended"
  /\ fires' = Without({f})
  /\ state' = IF fires[f].ok THEN [state EXCEPT ![r] = State("ok", fires[f].start)] ELSE state
  /\ UNCHANGED <<now, daemon, due, manual, history>>

\* Mutant of SaveFinal: the last run is not written again.
SaveFinalAnew(f) ==
  LET r == fires[f].ref IN
  /\ f \in DOMAIN fires /\ fires[f].step = "ended"
  /\ fires' = Without({f})
  /\ state' = [state EXCEPT ![r] = State(IF fires[f].ok THEN "ok" ELSE "failed", 0)]
  /\ UNCHANGED <<now, daemon, due, manual, history>>

SaveFinal(f) ==
  LET r == fires[f].ref IN
  /\ f \in DOMAIN fires /\ fires[f].step = "ended"
  /\ fires' = Without({f})
  /\ state' = [state EXCEPT ![r] =
       State(IF fires[f].ok THEN "ok" ELSE "failed", fires[f].start)]
  /\ UNCHANGED <<now, daemon, due, manual, history>>

\* The process of run-now is killed.
ManualDies(f) ==
  /\ f \in DOMAIN fires /\ fires[f].by = "manual"
  /\ fires' = Without({f})
  /\ killed' = IF fires[f].step \in Saved THEN killed \cup {fires[f].ref} ELSE killed
  /\ UNCHANGED <<now, daemon, due, manual, state, latest, owed, overlapped>>

FireStep(f) ==
  LeaveQueue(f) \/ DropQueued(f) \/ ReadClock(f) \/ SaveRunning(f)
  \/ AgentReturns(f) \/ SaveFinal(f) \/ ManualDies(f)

Next ==
  \/ Tick \/ Load \/ StartScheduler \/ Exit
  \/ \E r \in Routines : ReplaceJob(r) \/ Trigger(r) \/ RunNow(r)
  \/ \E f \in Ids : FireStep(f)

Spec == Init /\ [][Next]_vars

\* Goroutines are scheduled; agents need not return.
FairSpec ==
  /\ Spec
  /\ \A f \in Ids : WF_vars(ReadClock(f)) /\ WF_vars(SaveRunning(f))

(***************************************************************************)
(* Properties                                                              *)
(***************************************************************************)

Live(r) == {f \in FiresOf(r) : fires[f].step \in Saved}

\* A state file says "running" only while a fire runs or after its process was
\* killed; and it says so whenever that is the case, if fires do not overlap.
RunningIsTrue ==
  \A r \in Routines :
    /\ state[r].status = "running" => Live(r) # {} \/ r \in killed
    /\ Live(r) # {} \/ r \in killed => state[r].status = "running" \/ r \in overlapped

\* last_run does not go back, across restarts and failures, if fires do not overlap.
LastRunIsLatest ==
  \A r \in Routines \ overlapped : state[r].last = latest[r]

\* A restart does not fire again what a fire has begun to serve: a catch-up is
\* for an instant after every recorded start, if fires do not overlap.
CatchUpIsDue ==
  \A f \in DOMAIN fires :
    fires[f].by = "catchup" /\ fires[f].ref \notin overlapped =>
      fires[f].served < fires[f].missed

\* What was missed while the daemon was down, or cut off by a crash before its
\* start was saved, is fired once the daemon is up and stays up.
OwedIsServed ==
  \A r \in Routines :
    owed[r] # 0 /\ phase = "up" ~> owed[r] = 0 \/ phase # "up"

(***************************************************************************)
(* Claims of comments that the code does not keep                          *)
(***************************************************************************)

DaemonFires == {f \in DOMAIN fires : fires[f].by # "manual"}

\* scheduler.go: singleton mode suppresses overlapping fires of a routine.
NeverOverlaps ==
  \A f, g \in DaemonFires \cap InProgress : fires[f].ref = fires[g].ref => f = g

\* MaxConcurrent caps the fires in flight across the whole daemon.
CapHolds == Cardinality(DaemonFires \cap InProgress) <= MaxConcurrent

\* LastRun is when the routine most recently fired.
LastRunIsMostRecent == \A r \in Routines : state[r].last = latest[r]

=============================================================================
