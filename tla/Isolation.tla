----------------------------- MODULE Isolation -----------------------------
(***************************************************************************)
(* What --isolate does to the user's repository before and after a run     *)
(* (runner/isolation.go, ExecuteRun of runner/run.go): PrepareIsolation,   *)
(* the agent's work, and the deferred Teardown, for several squad          *)
(* processes and the user at once on one repository.                       *)
(*                                                                         *)
(* The work in the repository is a set of changes, each by somebody and to *)
(* one file.  A git command is atomic and moves changes between the        *)
(* working tree, the index, the history and the stash.  The user's own     *)
(* worktree is the original directory; HEAD and the branches it is on are  *)
(* not told apart.                                                         *)
(***************************************************************************)
EXTENDS Integers, Sequences, FiniteSets, SequencesExt

CONSTANTS
  Runs,         \* squad processes
  User,         \* the user, who works in the original directory
  Changes,      \* bound: the changes there can be
  Author,       \* who makes a change
  FileOf,       \* the file it changes
  NewFile,      \* changes that create their file, which is untracked
  Staged0,      \* what is staged when everything begins
  Unstaged0,    \* what is changed and not staged when everything begins
  Modes,        \* the isolation modes that are used
  MaxClock,     \* bound: seconds that pass
  Interrupts,   \* may the user interrupt a run?
  Rejects,      \* may a commit be rejected (a pre-commit hook)?
  UserStashes   \* bound: how often the user stashes

ASSUME IsolationAssumption ==
  /\ IsFiniteSet(Runs) /\ User \notin Runs
  /\ Author \in [Changes -> Runs \cup {User}]
  /\ NewFile \subseteq Changes
  /\ Staged0 \subseteq Changes /\ Unstaged0 \subseteq Changes
  /\ Staged0 \cap Unstaged0 = {}
  /\ \A c \in Staged0 \cup Unstaged0 : Author[c] = User
  /\ Modes \subseteq {"none", "unstaged", "worktree", "branch", "commit", "staged"}
  /\ MaxClock \in Nat \ {0} /\ UserStashes \in Nat
  /\ Interrupts \in BOOLEAN /\ Rejects \in BOOLEAN

VARIABLES
  mode,      \* resolved isolation mode of a run
  phase,     \* where a run is
  ok,        \* did the agent's run succeed?
  stashRef,  \* Isolation.stashRef # ""
  id,        \* the time in newIsolationID, 0 before
  cancelled, \* runs whose command context is cancelled
  staged,    \* the index of the original directory
  unstaged,  \* its working tree
  committed, \* its history, on whatever branch
  stashes,   \* the stash, newest first
  branches,  \* branch names in use
  worktrees, \* the worktrees that exist: by name, their uncommitted and committed changes
  clock,
  made,       \* history: the changes that were made
  late,       \* history: those made in a worktree after its status was read
  userStashed \* history: has the user stashed?

vars == <<mode, phase, ok, stashRef, id, cancelled, staged, unstaged, committed,
          stashes, branches, worktrees, clock, made, late, userStashed>>
history == <<made, late, userStashed>>
tree == <<staged, unstaged, committed, history>>
run  == <<mode, ok, stashRef, id, cancelled>>
refs == <<branches, worktrees>>

Phases == {"ready", "add", "push", "commit", "rollback", "running", "teardown",
           "prune", "ended"}
\* Background tasks and commands that nobody collects go on working during the
\* teardown.  (Bound: not in the moment between the teardown and the exit of the
\* process, in which no git command of the run is left.)
Working == {"running", "teardown", "prune"}
Names  == {"worktree", "branch"} \X (1..MaxClock)

Entry(by, changes) == [by |-> by, changes |-> changes]
Tree(open, done)   == [open |-> open, done |-> done]
FilesOf(changes)   == {FileOf[c] : c \in changes}
NameOf(r)          == <<mode[r], id[r]>>

TypeOK ==
  /\ mode \in [Runs -> Modes \cup {"none"}]
  /\ phase \in [Runs -> Phases]
  /\ ok \in [Runs -> BOOLEAN]
  /\ stashRef \in [Runs -> BOOLEAN]
  /\ id \in [Runs -> 0..MaxClock]
  /\ cancelled \subseteq Runs
  /\ staged \subseteq Changes /\ unstaged \subseteq Changes
  /\ committed \subseteq Changes /\ made \subseteq Changes /\ late \subseteq made
  /\ stashes \in Seq([by : Runs \cup {User}, changes : SUBSET Changes])
  /\ branches \subseteq Names
  /\ DOMAIN worktrees \subseteq branches
  /\ \A n \in DOMAIN worktrees :
       worktrees[n] \in [open : SUBSET Changes, done : SUBSET Changes]
  /\ clock \in 1..MaxClock
  /\ userStashed \in BOOLEAN

Init ==
  /\ mode \in [Runs -> Modes]
  /\ phase = [r \in Runs |-> "ready"]
  /\ ok = [r \in Runs |-> TRUE]
  /\ stashRef = [r \in Runs |-> FALSE]
  /\ id = [r \in Runs |-> 0]
  /\ cancelled = {}
  /\ staged = Staged0 /\ unstaged = Unstaged0
  /\ committed = {}
  /\ made = Staged0 \cup Unstaged0 /\ late = {} /\ userStashed = FALSE
  /\ stashes = <<>>
  /\ branches = {} /\ worktrees = <<>>
  /\ clock = 1

Move(r, to) == phase' = [phase EXCEPT ![r] = to]

(***************************************************************************)
(* PrepareIsolation                                                        *)
(***************************************************************************)

PrepareNone(r) ==
  /\ phase[r] = "ready"
  /\ mode[r] \in {"none", "unstaged"}
  /\ Move(r, "running")
  /\ UNCHANGED <<run, tree, stashes, refs, clock>>

\* Outside a git repository worktree falls back to none, and the modes that
\* need one fail.
PrepareOutsideGit(r) ==
  /\ phase[r] = "ready"
  /\ r \in cancelled                  \* rev-parse fails
  /\ mode[r] \notin {"none", "unstaged"}
  /\ IF mode[r] = "worktree"
     THEN mode' = [mode EXCEPT ![r] = "none"] /\ Move(r, "running")
     ELSE mode' = mode /\ Move(r, "ended")
  /\ UNCHANGED <<ok, stashRef, id, cancelled, tree, stashes, refs, clock>>

\* Mutant of BranchIsFree: git worktree add --force -B, which reuses the name.
BranchIsReset(name) == TRUE

\* git refuses to create a branch that exists.
BranchIsFree(name) == name \notin branches

\* git worktree add -b, or git checkout -b, on a branch named after the second.
CreateBranch(r) ==
  /\ phase[r] = "ready"
  /\ mode[r] \in {"worktree", "branch"}
  /\ r \notin cancelled
  /\ id' = [id EXCEPT ![r] = clock]
  /\ LET name == <<mode[r], clock>>
     IN  IF BranchIsFree(name)
         THEN /\ branches' = branches \cup {name}
              /\ worktrees' = IF mode[r] = "branch" THEN worktrees
                              ELSE [n \in DOMAIN worktrees \cup {name} |->
                                      IF n = name THEN Tree({}, {}) ELSE worktrees[n]]
              /\ Move(r, "running")
         ELSE Move(r, "ended") /\ UNCHANGED refs
  /\ UNCHANGED <<mode, ok, stashRef, cancelled, tree, stashes, clock>>

\* prepareCommit looks whether the tree is dirty, prepareStaged at the index and
\* then at the working tree.
Inspect(r) ==
  /\ phase[r] = "ready"
  /\ mode[r] \in {"commit", "staged"}
  /\ r \notin cancelled
  /\ Move(r, IF mode[r] = "commit"
             THEN IF staged \cup unstaged = {} THEN "running" ELSE "add"
             ELSE IF staged = {} THEN "running"
                  ELSE IF unstaged = {} THEN "commit" ELSE "push")
  /\ UNCHANGED <<run, tree, stashes, refs, clock>>

\* git add -A.
AddAll(r) ==
  /\ phase[r] = "add"
  /\ r \notin cancelled
  /\ staged' = staged \cup unstaged
  /\ unstaged' = {}
  /\ Move(r, "commit")
  /\ UNCHANGED <<run, committed, history, stashes, refs, clock>>

\* git stash push --keep-index -u.  With nothing to save it succeeds and makes
\* no entry.
StashPush(r) ==
  /\ phase[r] = "push"
  /\ r \notin cancelled
  /\ stashes' = IF staged \cup unstaged = {} THEN stashes
                ELSE <<Entry(r, unstaged)>> \o stashes
  /\ unstaged' = {}
  /\ stashRef' = [stashRef EXCEPT ![r] = TRUE]
  /\ Move(r, "commit")
  /\ UNCHANGED <<mode, ok, id, cancelled, staged, committed, history, refs, clock>>

\* git commit: of the index, which must not be empty.
Commit(r) ==
  /\ phase[r] = "commit"
  /\ r \notin cancelled
  /\ staged # {}
  /\ committed' = committed \cup staged
  /\ staged' = {}
  /\ Move(r, "running")
  /\ UNCHANGED <<run, unstaged, history, stashes, refs, clock>>

\* A git command of the preparation fails; a stash that was made is popped.
PrepareFails(r) ==
  /\ \/ phase[r] \in {"add", "push", "commit"} /\ r \in cancelled
     \/ phase[r] = "commit" /\ (Rejects \/ staged = {})
  /\ Move(r, IF stashRef[r] THEN "rollback" ELSE "ended")
  /\ UNCHANGED <<run, tree, stashes, refs, clock>>

(***************************************************************************)
(* git stash pop, of whatever entry is on top                              *)
(***************************************************************************)

\* Files of the entry that are changed in the working tree: git refuses.
PopRefused(entry) == FilesOf(entry.changes) \cap FilesOf(unstaged) # {}

\* Files of the entry that have changed since: git may find a conflict, and
\* keeps the entry.
PopMayConflict(entry) ==
  FilesOf(entry.changes) \cap FilesOf(staged \cup committed) # {}

PopFails(r) ==
  /\ \/ r \in cancelled
     \/ stashes = <<>>
     \/ stashes # <<>> /\ (PopRefused(Head(stashes)) \/ PopMayConflict(Head(stashes)))
  /\ UNCHANGED <<unstaged, stashes>>

PopRestores(r) ==
  /\ r \notin cancelled
  /\ stashes # <<>>
  /\ ~PopRefused(Head(stashes))
  /\ unstaged' = unstaged \cup Head(stashes).changes
  /\ stashes' = Tail(stashes)

\* Mutant of Pop: git stash apply, then git stash drop.
ApplyAndDrop(r) ==
  \/ PopRestores(r)
  \/ /\ PopFails(r) /\ (r \in cancelled \/ stashes = <<>>)
  \/ /\ r \notin cancelled /\ stashes # <<>> /\ PopRefused(Head(stashes))
     /\ stashes' = Tail(stashes)
     /\ unstaged' = unstaged

\* A failure is only logged.
Pop(r) == PopRestores(r) \/ PopFails(r)

\* The error path of prepareStaged.
Rollback(r) ==
  /\ phase[r] = "rollback"
  /\ Pop(r)
  /\ Move(r, "ended")
  /\ UNCHANGED <<run, staged, committed, history, refs, clock>>

(***************************************************************************)
(* The run, and Teardown                                                   *)
(***************************************************************************)

\* The agent, or what it has left running, edits a file of its effective directory.
AgentEdit(r, c) ==
  /\ phase[r] \in Working
  /\ Author[c] = r /\ c \notin made
  /\ made' = made \cup {c}
  /\ late' = IF phase[r] = "prune" THEN late \cup {c} ELSE late
  /\ IF mode[r] = "worktree"
     THEN /\ worktrees' = [worktrees EXCEPT ![NameOf(r)].open = @ \cup {c}]
          /\ unstaged' = unstaged
     ELSE /\ unstaged' = unstaged \cup {c}
          /\ worktrees' = worktrees
  /\ UNCHANGED <<phase, run, staged, committed, stashes, branches, clock, userStashed>>

\* The agent commits its work with a git command, in a worktree of its own.
AgentCommit(r) ==
  /\ phase[r] \in Working
  /\ mode[r] = "worktree"
  /\ worktrees[NameOf(r)].open # {}
  /\ worktrees' = [worktrees EXCEPT ![NameOf(r)] = Tree({}, @.done \cup @.open)]
  /\ UNCHANGED <<phase, run, tree, stashes, branches, clock>>

\* The agent's run returns, with or without an error.
AgentReturns(r) ==
  /\ phase[r] = "running"
  /\ \E success \in BOOLEAN : ok' = [ok EXCEPT ![r] = success]
  /\ Move(r, "teardown")
  /\ UNCHANGED <<mode, stashRef, id, cancelled, tree, stashes, refs, clock>>

TeardownNothing(r) ==
  /\ phase[r] = "teardown"
  /\ mode[r] # "worktree" /\ ~stashRef[r]
  /\ Move(r, "ended")
  /\ UNCHANGED <<run, tree, stashes, refs, clock>>

\* Mutant of TeardownStaged: the stash is popped when the agent has succeeded.
TeardownOnSuccess(r) ==
  /\ phase[r] = "teardown"
  /\ stashRef[r]
  /\ IF ok[r] THEN Pop(r) ELSE UNCHANGED <<unstaged, stashes>>
  /\ Move(r, "ended")
  /\ UNCHANGED <<run, staged, committed, history, refs, clock>>

TeardownStaged(r) ==
  /\ phase[r] = "teardown"
  /\ stashRef[r]
  /\ Pop(r)
  /\ Move(r, "ended")
  /\ UNCHANGED <<run, staged, committed, history, refs, clock>>

\* Mutant of WorktreeHasChanges: git diff, which shows no new files.
WorktreeHasDiff(r) == r \in cancelled \/ worktrees[NameOf(r)].open \ NewFile # {}

\* git status in the worktree; an error counts as changes.
WorktreeHasChanges(r) == r \in cancelled \/ worktrees[NameOf(r)].open # {}

TeardownWorktree(r) ==
  /\ phase[r] = "teardown"
  /\ mode[r] = "worktree"
  /\ Move(r, IF WorktreeHasChanges(r) THEN "ended" ELSE "prune")
  /\ UNCHANGED <<run, tree, stashes, refs, clock>>

\* git worktree remove --force and git branch -D.
PruneWorktree(r) ==
  /\ phase[r] = "prune"
  /\ r \notin cancelled
  /\ worktrees' = [n \in DOMAIN worktrees \ {NameOf(r)} |-> worktrees[n]]
  /\ branches' = branches \ {NameOf(r)}
  /\ Move(r, "ended")
  /\ UNCHANGED <<run, tree, stashes, clock>>

\* git worktree remove fails: the worktree is kept.
PruneFails(r) ==
  /\ phase[r] = "prune"
  /\ r \in cancelled
  /\ Move(r, "ended")
  /\ UNCHANGED <<run, tree, stashes, refs, clock>>

(***************************************************************************)
(* The user                                                                *)
(***************************************************************************)

\* ctrl-c: the context of every git command that follows is cancelled.
Interrupt(r) ==
  /\ Interrupts
  /\ r \notin cancelled /\ phase[r] # "ended"
  /\ cancelled' = cancelled \cup {r}
  /\ UNCHANGED <<mode, phase, ok, stashRef, id, tree, stashes, refs, clock>>

UserEdit(c) ==
  /\ Author[c] = User /\ c \notin made
  /\ made' = made \cup {c}
  /\ unstaged' = unstaged \cup {c}
  /\ UNCHANGED <<phase, run, staged, committed, stashes, refs, clock, late, userStashed>>

\* git stash push.
UserStash ==
  /\ Len(SelectSeq(stashes, LAMBDA e : e.by = User)) < UserStashes
  /\ staged \cup unstaged # {}
  /\ stashes' = <<Entry(User, staged \cup unstaged)>> \o stashes
  /\ staged' = {} /\ unstaged' = {}
  /\ userStashed' = TRUE
  /\ UNCHANGED <<phase, run, committed, made, late, refs, clock>>

Tick ==
  /\ clock < MaxClock
  /\ clock' = clock + 1
  /\ UNCHANGED <<phase, run, tree, stashes, refs>>

Prepare(r) ==
  \/ PrepareNone(r) \/ PrepareOutsideGit(r) \/ CreateBranch(r) \/ Inspect(r)
  \/ AddAll(r) \/ StashPush(r) \/ Commit(r) \/ PrepareFails(r) \/ Rollback(r)

Teardown(r) ==
  \/ TeardownNothing(r) \/ TeardownStaged(r) \/ TeardownWorktree(r)
  \/ PruneWorktree(r) \/ PruneFails(r)

Next ==
  \/ \E r \in Runs : \/ Prepare(r) \/ AgentCommit(r) \/ AgentReturns(r) \/ Teardown(r)
                     \/ Interrupt(r)
                     \/ \E c \in Changes : AgentEdit(r, c)
  \/ \E c \in Changes : UserEdit(c)
  \/ UserStash
  \/ Tick

Spec == Init /\ [][Next]_vars

(***************************************************************************)
(* Properties                                                              *)
(***************************************************************************)

Stashed     == UNION {stashes[i].changes : i \in DOMAIN stashes}
InWorktrees == UNION {worktrees[n].open \cup worktrees[n].done : n \in DOMAIN worktrees}

\* Nothing the user did, and nothing an agent did in place, is ever lost: it is
\* in the tree, the index, the history or the stash, whatever fails, whoever is
\* interrupted, and however two runs and the user interleave.
UserWorkIsSafe ==
  {c \in made : Author[c] = User \/ mode[Author[c]] # "worktree"}
    \subseteq unstaged \cup staged \cup committed \cup Stashed

\* What is uncommitted in a worktree when its status is read, new files too, survives
\* the teardown of every run, also what background tasks and commands wrote after the
\* agent had returned.  What they write later, before worktree remove --force, is
\* excepted (LateWorkIsKept below).
UncommittedWorkIsKept ==
  [][\A n \in DOMAIN worktrees :
       worktrees[n].open \ late # {} => n \in DOMAIN worktrees']_vars

\* Two runs never share a worktree, even of one agent in the same second.
WorktreesAreExclusive ==
  \A r, s \in Runs : r # s /\ {phase[r], phase[s]} \subseteq Working
                     /\ mode[r] = "worktree" /\ mode[s] = "worktree" => id[r] # id[s]

StashHas(by) == \E i \in DOMAIN stashes : stashes[i].by = by

\* Nobody else is at work, and the run has files of its own.  A file that is
\* staged and changed again is excepted: the snapshot commits one state of it and
\* the stash has another, which git may not be able to merge.
Alone(r) ==
  /\ r \notin cancelled /\ ~userStashed
  /\ \A q \in Runs \ {r} : phase[q] = "ready"
  /\ {c \in made : Author[c] = User} \subseteq Staged0 \cup Unstaged0
  /\ FilesOf({c \in Changes : Author[c] = r}) \cap FilesOf(Staged0 \cup Unstaged0) = {}
  /\ FilesOf(Staged0) \cap FilesOf(Unstaged0) = {}

\* The user's unstaged work does not stay behind in the stash when a run ends that
\* nobody disturbed (prepareStaged, Teardown): also when the agent failed or the
\* snapshot was rejected.
RestoredWhenAlone ==
  \A r \in Runs : Alone(r) /\ phase[r] = "ended" => ~StashHas(r)

(***************************************************************************)
(* Claims of comments and documents that the code does not keep            *)
(***************************************************************************)

\* The unstaged work is always restored when the run ends.
RestoredAfterRun == \A r \in Runs : phase[r] = "ended" => ~StashHas(r)

\* A run takes its own entry from the stash, nobody else's.
PopsOwnStash ==
  [][\A r \in Runs : phase[r] \in {"teardown", "rollback"} /\ stashes' # stashes
                     /\ phase'[r] = "ended" => Head(stashes).by = r]_vars

\* A worktree is pruned only when it has no changes: none at the moment when it is
\* removed.
LateWorkIsKept ==
  [][\A n \in DOMAIN worktrees : worktrees[n].open # {} => n \in DOMAIN worktrees']_vars

\* A worktree in which the agent did something is kept.
AgentWorkIsKept ==
  \A c \in made : Author[c] # User /\ mode[Author[c]] = "worktree" => c \in InWorktrees

=============================================================================
