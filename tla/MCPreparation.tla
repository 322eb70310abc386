--------------------------- MODULE MCPreparation ---------------------------
(* What a run is prepared from and works with, as one instance for TLC: the  *)
(* sources of agents and skills, the skills, the work-list and its shards,   *)
(* the delegation of models and limits, and the shell commands.  These parts *)
(* share no state with each other, so a behaviour is one of the `subject'    *)
(* that Init chooses, and the variables of the others keep NotUsed, or have   *)
(* nothing to say: no agents, no clones, no frames, no jobs, no answer.      *)
EXTENDS PreparationValues, SourcesPromise, SkillsPromise, ShardSplitPromise,
        DelegationPromise, CommandsPromise

VARIABLES
  subject,                             \* the part
  disk, log, batches, crashes,         \* Skills, and live, entries, stack, batch, told
  file, head, runs,                    \* Sources, and clone, proc
  next, out, groups,                   \* ShardSplit, and matches, shardBy, size, pc, shards
  env, config, attempt,                \* Delegation, and frames, edit
  kind, executor, box, loop, blocked, cancelled   \* Commands, and jobs, last

Sk == INSTANCE Skills WITH
  WorkDir <- "wd", Disks <- MCDisks, Configs <- MCSubDenies,
  ChatLoop <- {"main", "sub"}, Tools <- MCTools, SerialTools <- MCSerial,
  Batches <- MCBatches, Files <- MCFiles, Outside <- MCOutside, AppendFails <- FALSE,
  MaxBatches <- 3, MaxCrashes <- 1

So == INSTANCE Sources WITH
  Commands <- MCEverything, FileUrl <- MCFileUrl, Other <- MCOther, Token <- "none",
  NetFails <- TRUE, MaxHead <- 1, MaxRuns <- 4

Sh == INSTANCE ShardSplit WITH
  Files <- FiveFiles, MaxMatches <- 4, MaxBatch <- 3

De == INSTANCE Delegation WITH
  Manifest <- MCManifest, Stages <- MCStages, Flags <- MCFlags, Configs <- MCConfigFiles,
  Envs <- MCEnvs, Modes <- MCModes, MaxDepth <- 4, last <- attempt

Co == INSTANCE Commands WITH
  Commands <- MCShellCommands, Kinds <- MCKinds, MaxCalls <- 2

ASSUME PreparationAssumption ==
  /\ Sk!SkillsAssumption /\ So!SourcesAssumption /\ Sh!ShardSplitAssumption
  /\ De!DelegationAssumption

-----------------------------------------------------------------------------
skillsVars == <<disk, live, entries, stack, batch, log, batches, crashes, told>>
sourcesVars == <<file, clone, head, proc, runs>>
shardsVars == <<matches, shardBy, size, pc, next, out, groups, shards>>
delegationVars == <<env, config, frames, attempt, edit>>
commandsVars == <<kind, executor, box, jobs, loop, last, blocked, cancelled>>

NotUsed == "not used"

NoSkills ==
  /\ disk = NotUsed /\ log = NotUsed /\ batches = NotUsed /\ crashes = NotUsed
  /\ live = {} /\ entries = [a \in Agents |-> {}] /\ told = [a \in Agents |-> {}]
  /\ stack = [a \in Agents |-> <<>>] /\ batch = [a \in Agents |-> <<>>]
NoSources ==
  /\ file = NotUsed /\ head = NotUsed /\ proc = NotUsed /\ runs = NotUsed
  /\ clone = [c \in Kinds \X Urls |-> So!Absent]
NoShards ==
  /\ matches = NotUsed /\ shardBy = NotUsed /\ size = NotUsed /\ pc = NotUsed
  /\ next = NotUsed /\ out = NotUsed /\ groups = NotUsed /\ shards = NotUsed
NoDelegation ==
  env = NotUsed /\ config = NotUsed /\ frames = <<>> /\ attempt = NotUsed /\ edit = NotUsed
NoCommands ==
  /\ kind = NotUsed /\ executor = NotUsed /\ box = NotUsed /\ jobs = <<>>
  /\ loop = NotUsed /\ last = NoAnswer /\ blocked = NotUsed /\ cancelled = NotUsed

Init ==
  \/ subject = "skills" /\ Sk!Init /\ NoSources /\ NoShards /\ NoDelegation /\ NoCommands
  \/ subject = "sources" /\ NoSkills /\ So!Init /\ NoShards /\ NoDelegation /\ NoCommands
  \/ subject = "shards" /\ NoSkills /\ NoSources /\ Sh!Init /\ NoDelegation /\ NoCommands
  \/ subject = "delegation" /\ NoSkills /\ NoSources /\ NoShards /\ De!Init /\ NoCommands
  \/ subject = "commands" /\ NoSkills /\ NoSources /\ NoShards /\ NoDelegation /\ Co!Init

Next ==
  \/ /\ subject = "skills" /\ Sk!Next
     /\ UNCHANGED <<subject, sourcesVars, shardsVars, delegationVars, commandsVars>>
  \/ /\ subject = "sources" /\ So!Next
     /\ UNCHANGED <<subject, skillsVars, shardsVars, delegationVars, commandsVars>>
  \/ /\ subject = "shards" /\ Sh!Next
     /\ UNCHANGED <<subject, skillsVars, sourcesVars, delegationVars, commandsVars>>
  \/ /\ subject = "delegation" /\ De!Next
     /\ UNCHANGED <<subject, skillsVars, sourcesVars, shardsVars, commandsVars>>
  \/ /\ subject = "commands" /\ Co!Next
     /\ UNCHANGED <<subject, skillsVars, sourcesVars, shardsVars, delegationVars>>

Spec == Init /\ [][Next]_<<subject, skillsVars, sourcesVars, shardsVars, delegationVars, commandsVars>>

=============================================================================
