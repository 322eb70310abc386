------------------------------ MODULE Sources ------------------------------
(***************************************************************************)
(* Where agents and skills come from: the sources a user registers in       *)
(* config.yaml (cmd/squad/agents.go, skill.go and config.go, config/), and  *)
(* the clones kept of the repositories among them (source/).                *)
(*                                                                         *)
(* Every command is a process of its own.  It loads the configuration when  *)
(* it starts, edits its copy, and writes all of the copy back: os.WriteFile *)
(* empties the file first, and nothing locks it.  A process may be killed   *)
(* between any two steps.                                                   *)
(*                                                                         *)
(* A remote's default branch is a line of commits 0..head; the tag names    *)
(* commit 0 of it and the side branch a commit that is not on it.  go-git   *)
(* is external: a pull moves the checkout to the remote's head when that is *)
(* ahead of it, and only a checkout on the default branch moves the local   *)
(* branch along.                                                            *)
(***************************************************************************)
EXTENDS SourcesPromise, Integers, FiniteSets

CONSTANTS
  Commands,   \* bound: what they may be told to do
  FileUrl,    \* the paths that are the target of a file:// URL, with that URL
  Other,      \* what is in another configuration file, that --config may name
  Token,      \* what provider.token is in config.yaml: "none", "plain" or "dynamic"
  NetFails,   \* whether the network may fail
  MaxHead,    \* bound: commits pushed to a remote
  MaxRuns     \* bound: commands that are run

Refs == {"", "tag", "side", "main", "gone"}
Side == 0 - 1   \* the commit of the side branch
Absent == [state |-> "absent", at |-> 0, onMain |-> FALSE, main |-> 0]
Partial == [Absent EXCEPT !.state = "partial"]

Source(kind, name, url, ref) == [kind |-> kind, name |-> name, url |-> url, ref |-> ref]

SourcesAssumption ==
  /\ "official" \in Urls
  /\ Token \in {"none", "plain", "dynamic"}
  /\ NetFails \in BOOLEAN
  /\ MaxHead \in Nat /\ MaxRuns \in Nat

VARIABLES
  file,   \* config.yaml: [repos, paths, token], Empty while it is rewritten
  head,   \* the newest commit of a remote's default branch
  runs    \* how many commands were run

vars == <<file, clone, head, proc, runs>>

-----------------------------------------------------------------------------
(* The configuration.                                                       *)

Defaults == [repos |-> {Source("agents", "official", "official", "")}, paths |-> {}, token |-> "none"]

Empty == [repos |-> {}, paths |-> {}, token |-> "no file"]
Contents(f) == IF f = Empty THEN Defaults ELSE f

(* A token that names a variable or a command becomes what that yields.     *)
ResolveValue(t) == IF t = "dynamic" THEN "secret" ELSE t

(* loadConfigWithViper resolves the token ...                               *)
Load(f) == [Contents(f) EXCEPT !.token = ResolveValue(@)]

(* ... and initConfig's second Unmarshal puts the configured text back.     *)
InitConfig(f) == [Load(f) EXCEPT !.token = Contents(f).token]

(* `config set' loads on its own.                                           *)
Loaded(o, f) == CASE o.cmd = "set" -> Load(f)
                  [] o.cmd # "set" /\ o.alt -> InitConfig(Other)
                  [] OTHER -> InitConfig(f)

Named(c, o) == {s \in c.repos : s.kind = o.kind /\ s.name = o.name}

(* Manager.RemoveSource takes the first match, SkillsManager.RemoveSource   *)
(* every one, the URL and the file:// URL of a path included.               *)
Matches(c, o) ==
  LET aliases == Named(c, o)
      urls == {s \in c.repos : /\ s.kind = o.kind
                               /\ \/ s.url = o.name
                                  \/ o.name \in DOMAIN FileUrl /\ s.url = FileUrl[o.name]}
      paths == {<<o.kind, o.name>>} \cap c.paths
  IN  IF o.kind = "skills" THEN [repos |-> aliases \cup urls, paths |-> paths]
      ELSE [repos |-> aliases, paths |-> IF aliases = {} THEN paths ELSE {}]

Refuses(c, o) ==
  CASE o.cmd = "add"    -> Named(c, o) # {}
    [] o.cmd = "pin"    -> Named(c, o) = {}
    [] o.cmd = "path"   -> <<o.kind, o.name>> \in c.paths
    [] o.cmd = "remove" -> Matches(c, o).repos = {} /\ Matches(c, o).paths = {}
    [] o.cmd = "init"   -> ~o.force   \* there is a file
    [] OTHER            -> FALSE

Edited(c, o) ==
  CASE o.cmd = "add"    -> [c EXCEPT !.repos = @ \cup {Source(o.kind, o.name, o.url, o.ref)}]
    [] o.cmd = "pin"    -> [c EXCEPT !.repos = {IF s \in Named(c, o) THEN [s EXCEPT !.ref = o.ref] ELSE s : s \in @}]
    [] o.cmd = "path"   -> [c EXCEPT !.paths = @ \cup {<<o.kind, o.name>>}]
    [] o.cmd = "remove" -> [c EXCEPT !.repos = @ \ Matches(c, o).repos, !.paths = @ \ Matches(c, o).paths]
    [] OTHER            -> c

-----------------------------------------------------------------------------
(* The clones.                                                              *)

Cached(k, u) == clone[<<k, u>>].state # "absent"

Pulled(c, n) == IF c.at = Side THEN c
                ELSE [c EXCEPT !.at = n, !.main = IF c.onMain THEN n ELSE @]

(* resolveRef: a local branch comes before that of the remote.              *)
resolveRef(c, ref) == CASE ref = "tag" -> 0 [] ref = "side" -> Side [] ref = "main" -> c.main

\* Mutant of Due: pinned repositories are updated, too.
DuePinned(c, o) == IF o.cmd = "update"
                   THEN {s \in c.repos : s.kind = o.kind}
                   ELSE {s \in c.repos : s.kind = o.kind /\ ~Cached(s.kind, s.url)}

(* UpdateRepositories skips what is pinned, EnsureRepositoriesCloned what   *)
(* is cached.                                                               *)
Due(c, o) == IF o.cmd = "update"
             THEN {s \in c.repos : s.kind = o.kind /\ (s.ref = "" \/ o.force)}
             ELSE {s \in c.repos : s.kind = o.kind /\ ~Cached(s.kind, s.url)}

(* GetSearchPaths, CatalogPaths: local paths, then the cached repositories, *)
(* in no order.                                                             *)
Offers(k, c) == {s \in c.repos : s.kind = k /\ Cached(k, s.url)}

(* FindAgent: the first directory that holds the agent.                     *)
FindAgent(c, hits) == IF Offers("agents", c) \cap hits = {} THEN {} ELSE Offers("agents", c) \cap hits

-----------------------------------------------------------------------------
Idle == [pc |-> "idle", op |-> [cmd |-> "none"], cfg |-> Defaults, todo |-> {}, cur |-> {}, ok |-> TRUE]

Init ==
  /\ file \in {[Defaults EXCEPT !.token = Token]}
  /\ clone = [c \in Kinds \X Urls |-> Absent]
  /\ head = [u \in Urls |-> 0]
  /\ proc = [p \in Procs |-> Idle]
  /\ runs = 0

Goto(p, pc) == proc' = [proc EXCEPT ![p].pc = pc]

Start(p) ==
  /\ proc[p].pc = "idle" /\ runs < MaxRuns
  /\ runs' = runs + 1
  /\ \E o \in Commands :
       proc' = [proc EXCEPT ![p] = [Idle EXCEPT !.pc = "loaded", !.op = o, !.cfg = Loaded(o, file)]]
  /\ UNCHANGED <<file, clone, head>>

(* An edit that is refused writes nothing.                                  *)
Edit(p) ==
  LET o == proc[p].op
      c == proc[p].cfg
  IN  /\ proc[p].pc = "loaded"
      /\ CASE o.cmd = "update" ->
                proc' = [proc EXCEPT ![p].pc = "updates", ![p].todo = Due(c, o)]
           [] o.cmd # "update" /\ Refuses(c, o) ->
                proc' = [proc EXCEPT ![p].pc = "over", ![p].ok = FALSE]
           [] OTHER ->
                proc' = [proc EXCEPT ![p].pc = "saves", ![p].cfg = Edited(c, o)]
      /\ UNCHANGED <<file, clone, head, runs>>

(* saveConfig: the file is emptied ...                                      *)
Truncate(p) ==
  /\ proc[p].pc = "saves"
  /\ file' = Empty
  /\ Goto(p, "writes")
  /\ UNCHANGED <<clone, head, runs>>

(* ... and filled.  `skill add' then clones what is not cached.             *)
Save(p) ==
  /\ proc[p].pc = "writes"
  /\ file' = proc[p].cfg
  /\ IF proc[p].op.cmd = "add" /\ proc[p].op.kind = "skills"
     THEN proc' = [proc EXCEPT ![p].pc = "updates", ![p].todo = Due(proc[p].cfg, proc[p].op)]
     ELSE Goto(p, "over")
  /\ UNCHANGED <<clone, head, runs>>

(* CloneOrUpdate, for the repositories in any order: a directory is pulled, *)
(* with errors ignored, ...                                                 *)
Pull(p) ==
  /\ proc[p].pc = "updates"
  /\ \E s \in proc[p].todo :
       /\ Cached(s.kind, s.url)
       /\ \/ clone[<<s.kind, s.url>>].state = "cloned"
             /\ clone' = [clone EXCEPT ![<<s.kind, s.url>>] = Pulled(@, head[s.url])]
          \/ clone[<<s.kind, s.url>>].state = "partial" /\ UNCHANGED clone
          \/ NetFails /\ UNCHANGED clone
       /\ proc' = [proc EXCEPT ![p].pc = "checks out", ![p].cur = {s}, ![p].todo = @ \ {s}]
  /\ UNCHANGED <<file, head, runs>>

(* ... and what is not there is cloned into a new directory, ...            *)
BeginClone(p) ==
  /\ proc[p].pc = "updates"
  /\ \E s \in proc[p].todo :
       /\ ~Cached(s.kind, s.url)
       /\ clone' = [clone EXCEPT ![<<s.kind, s.url>>] = Partial]
       /\ proc' = [proc EXCEPT ![p].pc = "clones", ![p].cur = {s}, ![p].todo = @ \ {s}]
  /\ UNCHANGED <<file, head, runs>>

(* ... which go-git removes again when it fails.                            *)
EndClone(p) ==
  /\ proc[p].pc = "clones"
  /\ \E s \in proc[p].cur :
       \/ /\ clone' = [clone EXCEPT ![<<s.kind, s.url>>] =
                         [state |-> "cloned", at |-> head[s.url], onMain |-> TRUE, main |-> head[s.url]]]
          /\ Goto(p, "checks out")
       \/ /\ NetFails
          /\ clone' = [clone EXCEPT ![<<s.kind, s.url>>] = Absent]
          /\ proc' = [proc EXCEPT ![p].pc = "updates", ![p].ok = FALSE]
  /\ UNCHANGED <<file, head, runs>>

(* checkoutRef: a pinned ref is resolved and checked out, off any branch.   *)
Checkout(p) ==
  /\ proc[p].pc = "checks out"
  /\ \E s \in proc[p].cur :
       LET c == clone[<<s.kind, s.url>>]
       IN  IF s.ref = "" THEN Goto(p, "updates") /\ UNCHANGED clone
           ELSE IF s.ref = "gone" \/ c.state # "cloned"
           THEN /\ proc' = [proc EXCEPT ![p].pc = "updates", ![p].ok = FALSE]
                /\ UNCHANGED clone
           ELSE /\ clone' = [clone EXCEPT ![<<s.kind, s.url>>] =
                               [c EXCEPT !.at = resolveRef(c, s.ref), !.onMain = FALSE]]
                /\ Goto(p, "updates")
  /\ UNCHANGED <<file, head, runs>>

(* All are done.  A failed clone fails `update', not `skill add'.           *)
Finish(p) ==
  /\ proc[p].pc = "updates" /\ proc[p].todo = {}
  /\ proc' = [proc EXCEPT ![p].pc = "over", ![p].cur = {},
                          ![p].ok = @ \/ proc[p].op.cmd # "update"]
  /\ UNCHANGED <<file, clone, head, runs>>

(* The process ends, or is killed.                                          *)
Exit(p) ==
  /\ proc[p].pc # "idle"
  /\ proc' = [proc EXCEPT ![p] = Idle]
  /\ UNCHANGED <<file, clone, head, runs>>

(* Someone pushes to a repository.                                          *)
Push(u) ==
  /\ head[u] < MaxHead
  /\ head' = [head EXCEPT ![u] = @ + 1]
  /\ UNCHANGED <<file, clone, proc, runs>>

Next ==
  \/ \E p \in Procs : \/ Start(p) \/ Edit(p) \/ Truncate(p) \/ Save(p) \/ Exit(p)
                      \/ Pull(p) \/ BeginClone(p) \/ EndClone(p) \/ Checkout(p) \/ Finish(p)
  \/ \E u \in Urls : Push(u)

Spec == Init /\ [][Next]_vars

-----------------------------------------------------------------------------
Over(p, cmd) == proc[p].pc = "over" /\ proc[p].op.cmd = cmd /\ proc[p].ok

TypeOK ==
  /\ \A c \in DOMAIN clone :
       /\ clone[c].state \in {"absent", "partial", "cloned"}
       /\ {clone[c].at, clone[c].main} \subseteq Side..MaxHead
  /\ \A p \in Procs : proc[p].todo \cup proc[p].cur \subseteq proc[p].cfg.repos
  /\ runs \in 0..MaxRuns

(* An `update' that reports no error has brought every repository it was    *)
(* due to update into the cache, and those with a ref to that ref, also     *)
(* when the network failed or an earlier command was killed.                *)
UpdatesReach ==
  \A p \in Procs : Over(p, "update") =>
    \A s \in proc[p].cfg.repos : s.kind = proc[p].op.kind /\ (s.ref = "" \/ proc[p].op.force) =>
      /\ Cached(s.kind, s.url)
      /\ s.ref # "" => clone[<<s.kind, s.url>>].state = "cloned"
      /\ s.ref = "tag" => clone[<<s.kind, s.url>>].at = 0
      /\ s.ref = "side" => clone[<<s.kind, s.url>>].at = Side

-----------------------------------------------------------------------------
(* Claims of comments and documents that the code does not keep.            *)

(* docs/configuration.md: "The `provider.token` field (and only this field) *)
(* supports dynamic value resolution".                                      *)
TokensAreResolved == \A p \in Procs : proc[p].cfg.token # "dynamic"

(* docs/configuration.md: "Never hard-code API keys": `config set' writes   *)
(* the resolved secret.                                                     *)
SecretsStayOut == file = Empty \/ file.token # "secret"

(* config.go: "This will reset all custom settings to defaults!".           *)
InitResets == \A p \in Procs : Over(p, "init") => file = Defaults

(* manager.go: "An empty ref unpins (returns to tracking the default        *)
(* branch)".                                                                *)
UnpinnedFollows ==
  \A p \in Procs : Over(p, "update") =>
    \A s \in proc[p].cfg.repos : s.kind = proc[p].op.kind /\ s.ref = "" =>
      clone[<<s.kind, s.url>>].at # Side

(* manager.go: "the ref is re-resolved against the remote (useful when a    *)
(* tag has been re-pointed or a branch has advanced)".                      *)
BranchesAdvance ==
  [][\A p \in Procs : \A s \in proc[p].cur :
       proc[p].pc = "checks out" /\ s.ref = "main" =>
         clone'[<<s.kind, s.url>>].at >= clone[<<s.kind, s.url>>].at]_vars

(* skills.go: "EnsureRepositoriesCloned guarantees that every configured    *)
(* repo is present in the cache before catalog discovery runs".             *)
CachedIsCloned ==
  \A p \in Procs : Over(p, "update") =>
    \A s \in proc[p].cfg.repos : s.kind = proc[p].op.kind =>
      clone[<<s.kind, s.url>>].state = "cloned"

(* A command keeps the sources it was not told to change.                   *)
OthersAreKept ==
  [][\A p \in Procs : proc[p].pc = "saves" /\ proc'[p].pc = "writes" =>
       \A s \in Contents(file).repos :
         \/ s \in proc[p].cfg.repos
         \/ s \in Matches(Contents(file), proc[p].op).repos \cup Named(Contents(file), proc[p].op)]_vars

(* A configuration is there unless a command is just writing it.            *)
ConfigIsKept == file = Empty => \E p \in Procs : proc[p].pc = "writes"

(* manager.go: "returns all directories to search for agents in priority    *)
(* order": one agent has one directory.                                     *)
FindsAreStable ==
  \A p \in Procs : Cardinality(FindAgent(proc[p].cfg, proc[p].cfg.repos)) <= 1

=============================================================================
