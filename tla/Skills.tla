------------------------------- MODULE Skills -------------------------------
(***************************************************************************)
(* Agent Skills: how the SKILL.md files on disk become the catalog an agent *)
(* is told about (skill/catalog.go, agent/bundle.go resolveSkills), and how *)
(* the skills it loads scope its tools and files for the rest of the run    *)
(* and of the runs that resume its session (skill/stack.go, tools/skill.go, *)
(* runner/model.go buildSkillRuntime).                                      *)
(*                                                                         *)
(* A session has a Main agent and at most one Sub agent at a time, started  *)
(* by Main's Task tool.  Both append to the session's events.jsonl, of      *)
(* which only the skill_loaded lines are kept.  The process may die at any  *)
(* step; skills and their files may change before the session is resumed.   *)
(***************************************************************************)
EXTENDS SkillsPromise, FiniteSets, SequencesExt

CONSTANTS
  Disks,        \* what discovery may find: sequences of Found records, in scan order
  Configs,      \* per agent, its manifest's skills config and the command line's overrides
  ChatLoop,     \* agents whose model is run by tools.RunWithTools, the others by responses
  Tools,        \* tools other than Skill
  SerialTools,  \* those of them that must not run beside other calls
  Batches,      \* what a model may answer: sequences of calls
  Files,        \* pairs of a directory and a file it holds
  Outside,      \* those of Files that are links out of their directory
  WorkDir,      \* the working directory
  AppendFails,  \* whether writing a session event may fail
  MaxBatches,   \* bound: batches per session
  MaxCrashes    \* bound: how often the process dies

Repo == 0
Global == 1
Shared == 2
Nowhere == "not found"
Refused == "refused"

(* A SKILL.md: `atRoot' when the scanned directory itself is the skill.     *)
Found(dirs, names, tools) ==
  [dir : dirs, scope : Repo..Shared, atRoot : BOOLEAN, base : names,
   name : names, allowed : SUBSET tools, parses : BOOLEAN]

\* A directory holds one SKILL.md, which nobody rewrites while a catalog is built.
SkillsAssumption ==
  /\ Main # Sub
  /\ \A d \in Disks :
       /\ d \in Seq({d[i] : i \in DOMAIN d})
       /\ \A i \in DOMAIN d : d[i].scope \in Repo..Shared
       /\ \A i, j \in DOMAIN d : d[i].dir = d[j].dir => d[i].name = d[j].name
  /\ ChatLoop \subseteq Agents
  /\ SerialTools \subseteq Tools
  /\ Outside \subseteq Files
  /\ AppendFails \in BOOLEAN
  /\ MaxBatches \in Nat /\ MaxCrashes \in Nat

VARIABLES
  disk,     \* the SKILL.md files there are
  log,      \* the names in the session's skill_loaded events
  batches,  \* how many batches there were
  crashes   \* how often the process died

vars == <<disk, live, entries, stack, batch, log, batches, crashes, told>>

-----------------------------------------------------------------------------
(* Discovery.                                                               *)

Validates(f) == f.parses /\ f.name = f.base

Loads(f) == f.parses /\ (~f.atRoot => f.name = f.base)

\* The catalog: the places of what could be loaded, in scan order.
Discover(d) == {i \in DOMAIN d : Loads(d[i])}

(* Of the entries of one name the first of the first scope shadows the rest. *)
Shadowed(d) ==
  {i \in Discover(d) :
     \E j \in Discover(d) :
       /\ d[j].name = d[i].name
       /\ \/ d[j].scope < d[i].scope
          \/ d[j].scope = d[i].scope /\ j < i}

Visible(d) == {d[i] : i \in Discover(d) \ Shadowed(d)}

Filter(es, o) ==
  IF o.allow # {} THEN {e \in es : e.name \in o.allow}
  ELSE {e \in es : /\ o.scopes # {} => e.scope \in o.scopes
                   /\ e.name \notin o.deny}

(* The command line's lists replace those of the agent's manifest.          *)
Options(c) ==
  [scopes |-> c.scopes,
   allow  |-> IF c.cliAllow # {} THEN c.cliAllow ELSE c.allow,
   deny   |-> IF c.cliDeny # {} THEN c.cliDeny ELSE c.deny]

resolveSkills(a, d) ==
  IF Configs[a].enabled THEN Filter(Visible(d), Options(Configs[a])) ELSE {}

-----------------------------------------------------------------------------
(* The stack.                                                               *)

DirsOf(s) == {s[i].dir : i \in DOMAIN s}

Push(s, e) == IF e.dir \in DirsOf(s) THEN s ELSE Append(s, e)

\* Mutant of Rehydrate: the last load alone is restored.
RehydrateLast(es, names) ==
  LET known == {i \in DOMAIN names : \E e \in es : e.name = names[i]}
  IN  IF known = {} THEN <<>>
      ELSE <<CHOOSE e \in es : e.name = names[CHOOSE i \in known : \A j \in known : j <= i]>>

(* The place of i among the numbers of S.                                   *)
Place(S, i) == Cardinality({j \in S : j <= i})

(* rehydrateSkillStack replays the session's log over the agent's entries:  *)
(* a name pushes its entry, which stays where its directory was pushed first. *)
Rehydrate(es, names) ==
  LET entry(i) == CHOOSE e \in es : e.name = names[i]
      known == {i \in DOMAIN names : \E e \in es : e.name = names[i]}
      pushed == {i \in known : \A j \in known : entry(j).dir = entry(i).dir => i <= j}
  IN  [k \in 1..Cardinality(pushed) |-> entry(CHOOSE i \in pushed : Place(pushed, i) = k)]

Active(a) == IF Owner(a) = NoOwner THEN <<>> ELSE stack[Owner(a)]

\* Mutant of AllowsTool: the skill loaded last decides.
AllowsToolTop(s, t) == t = "Skill" \/ s = <<>> \/ Allows(Last(s), t)

AllowsTool(s, t) == t = "Skill" \/ \A i \in DOMAIN s : Allows(s[i], t)

(* Where a file tool finds `p': a path names a directory or is relative.    *)
InStack(s, p) ==
  LET base == IF p.dir # Nowhere THEN p.dir ELSE Last(s).dir
  IN  CASE s = <<>>                        -> Nowhere
        [] s # <<>> /\ base \notin DirsOf(s) -> Nowhere
        [] OTHER -> IF <<base, p.file>> \in Outside THEN Refused ELSE base

Resolve(s, p) ==
  LET other == InStack(s, p)
  IN  IF p.dir \in {Nowhere, WorkDir}
      THEN CASE <<WorkDir, p.file>> \in Files -> WorkDir
             [] <<WorkDir, p.file>> \notin Files /\ other = Refused -> Refused
             [] <<WorkDir, p.file>> \notin Files /\ <<other, p.file>> \in Files -> other
             [] OTHER -> Nowhere
      ELSE IF other \in {Refused, Nowhere} THEN Refused ELSE other

-----------------------------------------------------------------------------
Start(a) ==
  LET es == resolveSkills(a, disk')
  IN  /\ live' = live \cup {a}
      /\ entries' = [entries EXCEPT ![a] = es]
      /\ stack' = [stack EXCEPT ![a] = Rehydrate(es, log)]

Init ==
  /\ disk \in Disks
  /\ live = {}
  /\ entries = [a \in Agents |-> {}]
  /\ stack = [a \in Agents |-> <<>>]
  /\ batch = [a \in Agents |-> <<>>]
  /\ log = <<>> /\ batches = 0 /\ crashes = 0
  /\ told = [a \in Agents |-> {}]

(* `squad run', or `squad run --resume' after the process died.             *)
Run ==
  /\ Main \notin live
  /\ IF crashes = 0 THEN UNCHANGED disk ELSE disk' \in Disks
  /\ Start(Main)
  /\ UNCHANGED <<batch, log, batches, crashes, told>>

(* The Task tool: the sub-agent's session logger is that of the run.        *)
Spawn ==
  /\ Main \in live /\ Sub \notin live
  /\ UNCHANGED disk
  /\ Start(Sub)
  /\ told' = [told EXCEPT ![Sub] = {}]
  /\ UNCHANGED <<batch, log, batches, crashes>>

SubReturns ==
  /\ Sub \in live /\ batch[Sub] = <<>>
  /\ live' = live \ {Sub}
  /\ entries' = [entries EXCEPT ![Sub] = {}]
  /\ stack' = [stack EXCEPT ![Sub] = <<>>]
  /\ told' = [told EXCEPT ![Sub] = {}]
  /\ UNCHANGED <<disk, batch, log, batches, crashes>>

(* The model answers with tool calls.                                       *)
Emit(a) ==
  /\ a \in live /\ batch[a] = <<>> /\ batches < MaxBatches
  /\ \E calls \in Batches :
       batch' = [batch EXCEPT ![a] =
         [i \in DOMAIN calls |-> [tool |-> calls[i].tool, arg |-> calls[i].arg,
                                  pc |-> "new", got |-> Nowhere]]]
  /\ batches' = batches + 1
  /\ UNCHANGED <<disk, live, entries, stack, log, crashes, told>>

Parallel(a) == /\ a \in ChatLoop
               /\ \A i \in DOMAIN batch[a] : batch[a][i].tool \notin SerialTools

Turn(a, i) == Parallel(a) \/ \A j \in 1..(i - 1) : batch[a][j].pc = "done"

Set(a, i, pc, got) == batch' = [batch EXCEPT ![a][i].pc = pc, ![a][i].got = got]

(* The gates of executeToolCall and executeAndBuildOutputs: the handler is  *)
(* called when the tool exists and every skill on the stack lists it.       *)
Check(a, i) ==
  /\ batch[a][i].pc = "new" /\ Turn(a, i)
  /\ LET t == batch[a][i].tool
         known == t # "Skill" \/ entries[a] # {}
     IN  IF known /\ AllowsTool(Active(a), t)
         THEN Set(a, i, "runs", Nowhere)
         ELSE Set(a, i, "done", Refused)
  /\ UNCHANGED <<disk, live, entries, stack, log, batches, crashes, told>>

(* skillTool: the entry is pushed, ...                                      *)
Load(a, i) ==
  /\ batch[a][i].pc = "runs" /\ batch[a][i].tool = "Skill"
  /\ LET known == {e \in entries[a] : e.name = batch[a][i].arg}
     IN  IF known = {}
         THEN Set(a, i, "done", Refused) /\ UNCHANGED stack
         ELSE /\ Set(a, i, "pushed", Nowhere)
              /\ stack' = [stack EXCEPT ![a] = Push(@, CHOOSE e \in known : TRUE)]
  /\ UNCHANGED <<disk, live, entries, log, batches, crashes, told>>

(* ... the load is logged, an error of which is dropped, and the text of    *)
(* the skill returned.                                                      *)
OnLoad(a, i) ==
  /\ batch[a][i].pc = "pushed"
  /\ Set(a, i, "done", batch[a][i].arg)
  /\ \/ log' = Append(log, batch[a][i].arg)
     \/ AppendFails /\ UNCHANGED log
  /\ UNCHANGED <<disk, live, entries, stack, batches, crashes, told>>

(* Any other tool; what matters of it is the file it finds.                 *)
RunTool(a, i) ==
  /\ batch[a][i].pc = "runs" /\ batch[a][i].tool # "Skill"
  /\ Set(a, i, "done", Resolve(Active(a), batch[a][i].arg))
  /\ UNCHANGED <<disk, live, entries, stack, log, batches, crashes, told>>

(* The answers go back to the model together.                               *)
Answer(a) ==
  /\ batch[a] # <<>> /\ \A i \in DOMAIN batch[a] : batch[a][i].pc = "done"
  /\ told' = [told EXCEPT ![a] = @ \cup
       {batch[a][i].got : i \in {i \in DOMAIN batch[a] :
                                   batch[a][i].tool = "Skill" /\ batch[a][i].got # Refused}}]
  /\ batch' = [batch EXCEPT ![a] = <<>>]
  /\ UNCHANGED <<disk, live, entries, stack, log, batches, crashes>>

(* The process dies: what it kept in memory is gone.                        *)
Crash ==
  /\ Main \in live /\ crashes < MaxCrashes
  /\ crashes' = crashes + 1
  /\ live' = {}
  /\ entries' = [a \in Agents |-> {}]
  /\ stack' = [a \in Agents |-> <<>>]
  /\ batch' = [a \in Agents |-> <<>>]
  /\ told' = [told EXCEPT ![Sub] = {}]
  /\ UNCHANGED <<disk, log, batches>>

Next ==
  \/ Run \/ Spawn \/ SubReturns \/ Crash
  \/ \E a \in Agents : Emit(a) \/ Answer(a)
  \/ \E a \in Agents : \E i \in DOMAIN batch[a] :
       Check(a, i) \/ Load(a, i) \/ OnLoad(a, i) \/ RunTool(a, i)

Spec == Init /\ [][Next]_vars

-----------------------------------------------------------------------------
TypeOK ==
  /\ live \subseteq Agents /\ (Sub \in live => Main \in live)
  /\ \A a \in Agents :
       /\ NamesOf(stack[a]) \subseteq {e.name : e \in entries[a]}
       /\ \A i \in DOMAIN batch[a] : batch[a][i].pc \in {"new", "runs", "pushed", "done"}
  /\ batches \in 0..MaxBatches /\ crashes \in 0..MaxCrashes

(* Of the skills of one name an agent sees one, that of the first scope     *)
(* which has a loadable one, whatever order the directories were read in    *)
(* (resolveCollisions, Visible); one that `squad skill validate' passes is   *)
(* not left out for its own sake.                                           *)
CatalogIsRight ==
  /\ \A i \in DOMAIN disk : Validates(disk[i]) =>
       disk[i].name \in {e.name : e \in Visible(disk)}
  /\ \A a \in live : \A e \in entries[a] :
       /\ \A f \in entries[a] : f.name = e.name => f = e
       /\ \A i \in DOMAIN disk : Loads(disk[i]) /\ disk[i].name = e.name => e.scope <= disk[i].scope

-----------------------------------------------------------------------------
(* Claims of comments and documents that the code does not keep.            *)

(* model.go: "The returned stack is empty for a fresh run".                 *)
FreshStacksAreEmpty ==
  [][\A a \in Agents : a \notin live /\ a \in live' /\ told'[a] = {} => stack'[a] = <<>>]_vars

(* stack.go: "once activated a skill remains visible for the rest of the    *)
(* run": a relative path still finds a file only one active skill has.      *)
EarlierSkillsKeepTheirFiles ==
  \A a \in live : \A f \in {f \in Files : f[1] \in DirsOf(stack[a])} :
    /\ \A g \in Files : g[2] = f[2] => g = f
    /\ f \notin Outside
    => Resolve(stack[a], [dir |-> Nowhere, file |-> f[2]]) = f[1]

(* manifest.go: "AllowedTools restricts which tools the agent may call      *)
(* while this skill is on the stack".                                       *)
CallsObeyTheStack ==
  \A a \in live : \A i \in DOMAIN batch[a] :
    batch[a][i].pc = "runs" => AllowsTool(Active(a), batch[a][i].tool)

(* catalog.go: "Deny removes skills whose name is listed, after Allow is    *)
(* applied".                                                                *)
DenyWins ==
  \A a \in live : \A e \in entries[a] : e.name \notin Options(Configs[a]).deny

(* catalog.go: "LoadError describes a single skill that could not be added  *)
(* to the catalog".                                                         *)
ErrorsAreUnloaded ==
  \A i, j \in DOMAIN disk : Loads(disk[i]) /\ ~Loads(disk[j]) => disk[i].dir # disk[j].dir

=============================================================================
