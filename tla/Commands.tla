------------------------------ MODULE Commands ------------------------------
(***************************************************************************)
(* The shell commands of a run: the tools Bash, BashBackground and          *)
(* BashOutput (tools/tools.go, tools/bgcmd.go, tools/cmdsafety.go) over the *)
(* four executors (executor/).  A background command is executed by a       *)
(* goroutine of its own; a foreground one, and a waiting BashOutput, hold   *)
(* the tool loop.  The user may interrupt squad at any time, which cancels  *)
(* the context every command is given.                                      *)
(*                                                                         *)
(* A command's process runs at the executor's target and may leave a child  *)
(* that holds its output open; neither is part of squad.                    *)
(***************************************************************************)
EXTENDS CommandsPromise

CONSTANTS
  Commands,   \* what a model may ask to run
  Kinds,      \* the executor types an agent may declare
  MaxCalls    \* bound: commands per run

(* What a segment of a command line starts with, between && || ; and |.     *)
Segments == {"read", "cd", "refused", "other"}

(* A command: whether its process ends by itself and with which status, and *)
(* whether the child it leaves ends.                                        *)
Command(lines) == [line : lines, ends : BOOLEAN, exit : {0, 1},
                   child : {"none", "ends", "stays"}]

VARIABLES
  kind,       \* the type of the executor
  executor,   \* "none", "created", "open", "failed" or "closed"
  box,        \* the container of a docker executor
  loop,       \* what the tool loop does: [at, job]
  blocked,    \* shouldBlockReadTools
  cancelled   \* the context is cancelled

vars == <<kind, executor, box, jobs, loop, last, blocked, cancelled>>

Jobs == DOMAIN jobs
Idle == [at |-> "idle", job |-> 0]

TypeOK ==
  /\ kind \in Kinds
  /\ executor \in {"none", "created", "open", "failed", "closed"}
  /\ box \in {"none", "created", "running", "removed"}
  /\ \A j \in Jobs : jobs[j] \in
       [cmd : Commands, fg : BOOLEAN, done : BOOLEAN, child : BOOLEAN,
        at : {"begin", "attached", "ended", "returned"},
        proc : {"none", "running", "exited", "killed"},
        out : {"none", "part", "whole"}, err : BOOLEAN]
  /\ loop \in [at : {"idle", "bash", "wait", "ended"}, job : 0..MaxCalls]
  /\ last \in [job : 0..MaxCalls, status : {"running", "completed", "failed"},
               out : {"none", "part", "whole"}]
  /\ blocked \in BOOLEAN /\ cancelled \in BOOLEAN

Init ==
  /\ kind \in Kinds
  /\ executor = "none" /\ box = "none"
  /\ jobs = <<>> /\ loop = Idle /\ last = NoAnswer
  /\ blocked = FALSE /\ cancelled = FALSE

----------------------------------------------------------------------------
(* Executors.                                                               *)

(* A docker container that was created and does not start is removed.       *)
newDockerExecutor ==
  \/ /\ executor = "none"
     /\ \/ executor' = "created" /\ box' = "created"
        \/ executor' = "failed" /\ UNCHANGED box
  \/ /\ executor = "created"
     /\ \/ executor' = "open" /\ box' = "running"
        \/ executor' = "failed" /\ box' \in {"removed", "created"}

(* Without its options, credentials or cluster an executor is refused.      *)
newSSMExecutor == executor = "none" /\ executor' \in {"open", "failed"} /\ UNCHANGED box
NewKubeExecutor == executor = "none" /\ executor' \in {"open", "failed"} /\ UNCHANGED box

New ==
  /\ \/ kind = "local" /\ executor = "none" /\ executor' = "open" /\ UNCHANGED box
     \/ kind = "docker" /\ newDockerExecutor
     \/ kind = "ssm" /\ newSSMExecutor
     \/ kind = "kubectl" /\ NewKubeExecutor
  /\ loop' = IF executor' = "failed" THEN [Idle EXCEPT !.at = "ended"] ELSE loop
  /\ UNCHANGED <<kind, jobs, last, blocked, cancelled>>

(* The process of a killed or finished command and what it left behind.     *)
Quiet(j) == jobs[j].proc \in {"exited", "killed"} /\ ~jobs[j].child
Output(j) == IF jobs[j].proc = "exited" /\ ~jobs[j].child THEN "whole" ELSE "part"

Starts(j) == jobs' = [jobs EXCEPT ![j].at = "attached", ![j].proc = "running",
                                  ![j].child = jobs[j].cmd.child # "none"]

(* Execute returns: the goroutine of a background command stores the output *)
(* and closes Done, Bash answers.                                           *)
Store(j, out, err) ==
  [jobs EXCEPT ![j].at = "returned", ![j].out = out, ![j].err = err, ![j].done = TRUE]

Status(err) == IF err THEN "failed" ELSE "completed"

Returns(j, out, err) ==
  /\ jobs' = Store(j, out, err)
  /\ IF jobs[j].fg
     THEN /\ loop' = Idle
          /\ last' = [job |-> j, status |-> Status(err), out |-> out]
     ELSE UNCHANGED <<loop, last>>

(* bash is killed when the context ends; Run returns only when nobody holds *)
(* its output.                                                              *)
Local(j) ==
  \/ /\ jobs[j].at = "begin"
     /\ IF cancelled THEN Returns(j, "none", TRUE)
        ELSE Starts(j) /\ UNCHANGED <<loop, last>>
  \/ /\ jobs[j].at = "attached" /\ jobs[j].proc = "running" /\ cancelled
     /\ jobs' = [jobs EXCEPT ![j].proc = "killed"]
     /\ UNCHANGED <<loop, last>>
  \/ /\ jobs[j].at = "attached" /\ Quiet(j)
     /\ Returns(j, Output(j), jobs[j].proc = "killed" \/ jobs[j].cmd.exit # 0)

(* The exec is created and attached with the context; the copy of its       *)
(* output knows no context, the inspection does.                            *)
DockerAttach(j) ==
  /\ jobs[j].at = "begin"
  /\ \/ ~cancelled /\ box = "running" /\ Starts(j) /\ UNCHANGED <<loop, last>>
     \/ Returns(j, "none", TRUE)

DockerCopy(j) ==
  \/ /\ jobs[j].at = "attached" /\ Quiet(j)
     /\ jobs' = [jobs EXCEPT ![j].at = "ended"]
     /\ UNCHANGED <<loop, last>>
  \/ /\ jobs[j].at = "ended"
     /\ \/ Returns(j, Output(j), TRUE)
        \/ /\ ~cancelled /\ box = "running"
           /\ Returns(j, Output(j), jobs[j].cmd.exit # 0)

(* A command is sent and its invocation polled.  One that exits non-zero is *)
(* a result, one that is not heard of in time an error.                     *)
SSMSend(j) ==
  /\ jobs[j].at = "begin"
  /\ \/ ~cancelled /\ Starts(j) /\ UNCHANGED <<loop, last>>
     \/ Returns(j, "none", TRUE)

Polled(j) == jobs[j].proc # "running"

SSMPoll(j) ==
  /\ jobs[j].at = "attached"
  /\ \/ Polled(j) /\ ~cancelled /\ Returns(j, "whole", FALSE)
     \/ Returns(j, "none", TRUE)

KubeStream(j) ==
  \/ /\ jobs[j].at = "begin"
     /\ \/ ~cancelled /\ Starts(j) /\ UNCHANGED <<loop, last>>
        \/ Returns(j, "none", TRUE)
  \/ /\ jobs[j].at = "attached" /\ Quiet(j)
     /\ Returns(j, Output(j), jobs[j].cmd.exit # 0)
  \/ /\ jobs[j].at = "attached" /\ ~Quiet(j) /\ cancelled
     /\ Returns(j, "part", TRUE)

Execute(j) ==
  /\ \/ kind = "local" /\ Local(j)
     \/ kind = "docker" /\ (DockerAttach(j) \/ DockerCopy(j))
     \/ kind = "ssm" /\ (SSMSend(j) \/ SSMPoll(j))
     \/ kind = "kubectl" /\ KubeStream(j)
  /\ UNCHANGED <<kind, executor, box, blocked, cancelled>>

(* What is left running in a container ends with it.                        *)
Close ==
  IF kind = "docker"
  THEN \/ /\ box' = "removed"
          /\ jobs' = [j \in Jobs |->
               [jobs[j] EXCEPT !.child = FALSE,
                               !.proc = IF @ = "running" THEN "killed" ELSE @]]
       \/ UNCHANGED <<box, jobs>>
  ELSE UNCHANGED <<box, jobs>>

----------------------------------------------------------------------------
(* Tools.                                                                   *)

IsBlockedCommand(c) == c.line[1] = "refused"
ContainsReadCommand(c) == \E i \in DOMAIN c.line : c.line[i] = "read"

(* The loop calls a tool while it has the executor and no call is pending.  *)
MayCall == executor = "open" /\ loop.at = "idle"

\* Mutant of Spawn: Done is closed before the goroutine is through.
SpawnClosed(c) == [cmd |-> c, fg |-> FALSE, at |-> "begin", proc |-> "none", child |-> FALSE,
                   out |-> "none", err |-> FALSE, done |-> TRUE]

Spawn(c) == [cmd |-> c, fg |-> FALSE, at |-> "begin", proc |-> "none", child |-> FALSE,
             out |-> "none", err |-> FALSE, done |-> FALSE]

bashTool ==
  /\ MayCall /\ Len(jobs) < MaxCalls
  /\ \E c \in Commands :
       /\ ~IsBlockedCommand(c)
       /\ ~(ContainsReadCommand(c) /\ blocked)
       /\ jobs' = Append(jobs, [Spawn(c) EXCEPT !.fg = TRUE])
  /\ loop' = [at |-> "bash", job |-> Len(jobs')]
  /\ UNCHANGED <<kind, executor, box, last, blocked, cancelled>>

bashBackgroundTool ==
  /\ MayCall /\ Len(jobs) < MaxCalls
  /\ \E c \in Commands :
       /\ ~IsBlockedCommand(c)
       /\ jobs' = Append(jobs, Spawn(c))
  /\ UNCHANGED <<kind, executor, box, loop, last, blocked, cancelled>>

Answer(j) ==
  last' = [job |-> j,
           status |-> IF jobs[j].done THEN Status(jobs[j].err) ELSE "running",
           out |-> IF jobs[j].done THEN jobs[j].out ELSE "none"]

(* The ids of Bash's own commands are not in the registry.  With `wait' the *)
(* call blocks on Done, and on nothing else.                                *)
bashOutputTool ==
  /\ MayCall
  /\ \E j \in Jobs :
       /\ ~jobs[j].fg
       /\ \/ Answer(j) /\ UNCHANGED loop
          \/ ~jobs[j].done /\ loop' = [at |-> "wait", job |-> j] /\ UNCHANGED last
  /\ UNCHANGED <<kind, executor, box, jobs, blocked, cancelled>>

WaitEnds ==
  /\ loop.at = "wait" /\ jobs[loop.job].done
  /\ Answer(loop.job)
  /\ loop' = Idle
  /\ UNCHANGED <<kind, executor, box, jobs, blocked, cancelled>>

(* The loop is through: InvokeModel closes the executor and forgets the     *)
(* registry; what still runs in the background is not waited for.           *)
LoopReturns ==
  /\ MayCall
  /\ Close
  /\ executor' = "closed"
  /\ loop' = [Idle EXCEPT !.at = "ended"]
  /\ UNCHANGED <<kind, last, blocked, cancelled>>

----------------------------------------------------------------------------
(* What happens around the tools.                                           *)

(* A process ends, or its child lets go of the output.                      *)
World ==
  /\ \E j \in Jobs :
       \/ /\ jobs[j].proc = "running" /\ jobs[j].cmd.ends
          /\ jobs' = [jobs EXCEPT ![j].proc = "exited"]
       \/ /\ jobs[j].child /\ jobs[j].cmd.child = "ends"
          /\ jobs' = [jobs EXCEPT ![j].child = FALSE]
  /\ UNCHANGED <<kind, executor, box, loop, last, blocked, cancelled>>

(* The connection to the daemon or to the cluster breaks.                   *)
Breaks ==
  /\ kind \in {"docker", "kubectl"}
  /\ \E j \in Jobs : jobs[j].at = "attached" /\ Returns(j, "none", TRUE)
  /\ UNCHANGED <<kind, executor, box, blocked, cancelled>>

(* The enforcers of the loop block reads, an edit allows them again.        *)
Enforce ==
  /\ MayCall
  /\ blocked' = ~blocked
  /\ UNCHANGED <<kind, executor, box, jobs, loop, last, cancelled>>

Interrupt ==
  /\ ~cancelled /\ loop.at # "ended"
  /\ cancelled' = TRUE
  /\ UNCHANGED <<kind, executor, box, jobs, loop, last, blocked>>

Executing == \E j \in Jobs : Execute(j)

Next ==
  \/ New \/ bashTool \/ bashBackgroundTool \/ bashOutputTool
  \/ WaitEnds \/ LoopReturns \/ Executing
  \/ World \/ Breaks \/ Enforce \/ Interrupt

Spec == Init /\ [][Next]_vars

(* Processes that end do end, goroutines run, and the loop goes on: an      *)
(* interrupted model call fails, after which the loop returns.              *)
FairSpec ==
  /\ Spec
  /\ \A j \in 1..MaxCalls : WF_vars(j \in Jobs /\ Execute(j))
  /\ WF_vars(World) /\ WF_vars(WaitEnds) /\ WF_vars(New)
  /\ WF_vars(LoopReturns /\ cancelled)

----------------------------------------------------------------------------
(* Properties.                                                              *)

(* tools/tools.go:1920: "Read-like Bash commands are disabled until you     *)
(* call Edit or Write."  BashBackground runs them.                          *)
ReadsAreBlocked ==
  [][blocked /\ Len(jobs') > Len(jobs)
       => ~ContainsReadCommand(jobs'[Len(jobs')].cmd)]_vars

(* cmd/squad/root.go:91: "It installs signal handling so the CLI exits      *)
(* cleanly on interruption."  A waiting BashOutput and an attached command  *)
(* whose output somebody holds keep the loop, and every further signal is   *)
(* caught too.                                                              *)
InterruptsExit == cancelled ~> loop.at = "ended"

=============================================================================
