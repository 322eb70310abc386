-------------------------- MODULE IsolationProofs --------------------------
(***************************************************************************)
(* What a run may touch.  Theorems about Isolation for every number of     *)
(* runs and changes, every mixture of modes, and every interleaving with   *)
(* the user; then about Commands and Delegation, as instances.             *)
(***************************************************************************)
EXTENDS Isolation, CommandsPromise, DelegationPromise, WellFoundedInduction, TLAPS

USE DEF tree, history, run, refs, vars

Entries == [by : Runs \cup {User}, changes : SUBSET Changes]

\* The phases before the agent starts.
Preparing == {"ready", "add", "push", "commit", "rollback"}

\* A run that is being prepared has changed nothing, so the place of its changes
\* does not depend on the mode that worktree may still fall back to.
NothingDoneYet ==
  \A r \in Runs : phase[r] \in Preparing => \A c \in made : Author[c] # r

IInv ==
  /\ phase \in [Runs -> Phases] /\ mode \in [Runs -> Modes \cup {"none"}]
  /\ made \subseteq Changes /\ late \subseteq made
  /\ unstaged \subseteq Changes /\ staged \subseteq Changes /\ committed \subseteq Changes
  /\ stashes \in Seq(Entries) /\ userStashed \in BOOLEAN
  /\ NothingDoneYet
  /\ UserWorkIsSafe

StashedIn(s) == UNION {s[i].changes : i \in DOMAIN s}

LEMMA StashedHead ==
  ASSUME NEW s \in Seq(Entries), s # <<>>
  PROVE  /\ StashedIn(s) = Head(s).changes \cup StashedIn(Tail(s))
         /\ Tail(s) \in Seq(Entries) /\ Head(s) \in Entries
<1>1. Len(s) \in Nat \ {0} /\ Tail(s) \in Seq(Entries) /\ Head(s) = s[1]
  OBVIOUS
<1>2. DOMAIN s = 1..Len(s) /\ DOMAIN Tail(s) = 1..(Len(s) - 1)
  OBVIOUS
<1>3. \A i \in 1..(Len(s) - 1) : Tail(s)[i] = s[i + 1]
  OBVIOUS
<1>4. \A i \in 1..Len(s) : i = 1 \/ (i - 1 \in 1..(Len(s) - 1) /\ (i - 1) + 1 = i)
  BY <1>1
<1>5. ASSUME NEW c PROVE c \in StashedIn(s) <=> c \in Head(s).changes \cup StashedIn(Tail(s))
  <2>1. ASSUME c \in StashedIn(s) PROVE c \in Head(s).changes \cup StashedIn(Tail(s))
    <3>1. PICK i \in 1..Len(s) : c \in s[i].changes
      BY <1>2, <2>1 DEF StashedIn
    <3>2. CASE i = 1
      BY <1>1, <3>1, <3>2
    <3>3. CASE i # 1
      <4>1. i - 1 \in DOMAIN Tail(s) /\ Tail(s)[i - 1] = s[i]
        BY <1>2, <1>3, <1>4, <3>3
      <4> QED BY <3>1, <4>1 DEF StashedIn
    <3> QED BY <3>2, <3>3
  <2>2. ASSUME c \in Head(s).changes \cup StashedIn(Tail(s)) PROVE c \in StashedIn(s)
    <3>1. CASE c \in Head(s).changes
      <4>1. 1 \in DOMAIN s
        BY <1>1, <1>2
      <4> QED BY <1>1, <3>1, <4>1 DEF StashedIn
    <3>2. CASE c \in StashedIn(Tail(s))
      <4>1. PICK i \in 1..(Len(s) - 1) : c \in Tail(s)[i].changes
        BY <1>2, <3>2 DEF StashedIn
      <4>2. i + 1 \in DOMAIN s /\ s[i + 1] = Tail(s)[i]
        BY <1>1, <1>2, <1>3
      <4> QED BY <4>1, <4>2 DEF StashedIn
    <3> QED BY <2>2, <3>1, <3>2
  <2> QED BY <2>1, <2>2
<1>6. Head(s) \in Entries
  BY <1>1
<1> QED BY <1>1, <1>5, <1>6

LEMMA StashedPushed ==
  ASSUME NEW s \in Seq(Entries), NEW e \in Entries
  PROVE  <<e>> \o s \in Seq(Entries) /\ StashedIn(<<e>> \o s) = e.changes \cup StashedIn(s)
<1>1. <<e>> \o s \in Seq(Entries) /\ <<e>> \o s # <<>>
  OBVIOUS
<1>2. Head(<<e>> \o s) = e
  OBVIOUS
<1>3. Tail(<<e>> \o s) = s
  OBVIOUS
<1> QED BY <1>1, <1>2, <1>3, StashedHead

(***************************************************************************)
(* The steps.  A lemma for the phases, then one for each way work moves.   *)
(***************************************************************************)

LEMMA StashedIsStashedIn == Stashed = StashedIn(stashes) /\ Stashed' = StashedIn(stashes')
BY DEF Stashed, StashedIn

\* A run moves on, and neither goes back to its preparation nor changes a file.
LEMMA MovesOn ==
  ASSUME IInv, NEW r \in Runs, NEW to \in Phases, Move(r, to),
         phase[r] \in Preparing \/ to \notin Preparing,
         made' = made
  PROVE  phase' \in [Runs -> Phases] /\ NothingDoneYet'
<1>1. phase' \in [Runs -> Phases] /\ \A q \in Runs : q # r => phase'[q] = phase[q]
  BY DEF Move, IInv
<1>2. phase'[r] = to
  BY DEF Move, IInv
<1>3. \A q \in Runs : phase'[q] \in Preparing => phase[q] \in Preparing
  BY <1>1, <1>2
<1> QED BY <1>1, <1>3 DEF NothingDoneYet, IInv

LEMMA MovesOnly ==
  ASSUME IInv, NEW r \in Runs, NEW to \in Phases, Move(r, to),
         phase[r] \in Preparing \/ to \notin Preparing,
         UNCHANGED <<mode, tree, stashes>>
  PROVE  IInv'
<1>1. phase' \in [Runs -> Phases] /\ NothingDoneYet'
  BY MovesOn
<1>2. UserWorkIsSafe'
  BY DEF IInv, UserWorkIsSafe, Stashed
<1> QED BY <1>1, <1>2 DEF IInv

\* The pop of the stash: what leaves the stash is in the working tree.
LEMMA Pops ==
  ASSUME IInv, NEW r \in Runs, Pop(r), Move(r, "ended"),
         UNCHANGED <<mode, staged, committed, history>>
  PROVE  IInv'
<1>1. phase' \in [Runs -> Phases] /\ NothingDoneYet'
  BY MovesOn DEF Phases, Preparing
<1>2. CASE PopFails(r)
  BY <1>1, <1>2 DEF IInv, UserWorkIsSafe, Stashed, PopFails
<1>3. CASE PopRestores(r)
  <2>1. /\ Head(stashes) \in Entries /\ Tail(stashes) \in Seq(Entries)
        /\ StashedIn(stashes) = Head(stashes).changes \cup StashedIn(Tail(stashes))
    BY <1>3, StashedHead DEF IInv, PopRestores
  <2>2. unstaged' = unstaged \cup Head(stashes).changes /\ stashes' = Tail(stashes)
    BY <1>3 DEF PopRestores
  <2>3. Head(stashes).changes \subseteq Changes
    BY <2>1 DEF Entries
  <2>4. unstaged' \cup Stashed' = unstaged \cup Stashed
    BY <2>1, <2>2, StashedIsStashedIn
  <2>5. UserWorkIsSafe'
    BY <2>4 DEF IInv, UserWorkIsSafe
  <2> QED BY <1>1, <2>1, <2>2, <2>3, <2>5 DEF IInv
<1> QED BY <1>2, <1>3 DEF Pop

\* A new entry on the stash, of work that leaves the tree.
LEMMA Pushes ==
  ASSUME IInv, NEW by \in Runs \cup {User}, NEW work \in SUBSET Changes,
         stashes' = <<Entry(by, work)>> \o stashes
  PROVE  stashes' \in Seq(Entries) /\ Stashed' = work \cup Stashed
<1>1. Entry(by, work) \in Entries /\ Entry(by, work).changes = work
  BY DEF Entry, Entries
<1>2. stashes \in Seq(Entries)
  BY DEF IInv
<1> QED BY <1>1, <1>2, StashedPushed, StashedIsStashedIn

LEMMA PrepareStep ==
  ASSUME IInv, NEW r \in Runs, Prepare(r)
  PROVE  IInv'
<1>1. CASE PrepareNone(r)
  BY <1>1, MovesOnly DEF PrepareNone, Phases, Preparing
<1>2. CASE PrepareOutsideGit(r)
  <2>1. PICK to \in {"running", "ended"} : Move(r, to)
    BY <1>2 DEF PrepareOutsideGit
  <2>2. phase' \in [Runs -> Phases] /\ NothingDoneYet'
    BY <1>2, <2>1, MovesOn DEF PrepareOutsideGit, Phases, Preparing
  <2>3. /\ mode' \in [Runs -> Modes \cup {"none"}]
        /\ \A q \in Runs : q # r => mode'[q] = mode[q]
    BY <1>2 DEF PrepareOutsideGit, IInv
  <2>4. \A c \in made : Author[c] = User \/ (Author[c] \in Runs /\ Author[c] # r)
    BY <1>2, IsolationAssumption DEF IInv, NothingDoneYet, PrepareOutsideGit, Preparing
  <2>5. UserWorkIsSafe'
    BY <1>2, <2>3, <2>4 DEF IInv, UserWorkIsSafe, Stashed, PrepareOutsideGit
  <2> QED BY <1>2, <2>2, <2>3, <2>5 DEF IInv, PrepareOutsideGit
<1>3. CASE CreateBranch(r)
  <2>1. PICK to \in {"running", "ended"} : Move(r, to)
    BY <1>3 DEF CreateBranch
  <2> QED BY <1>3, <2>1, MovesOnly DEF CreateBranch, Phases, Preparing
<1>4. CASE Inspect(r)
  <2>1. PICK to \in {"running", "add", "commit", "push"} : Move(r, to)
    BY <1>4 DEF Inspect
  <2> QED BY <1>4, <2>1, MovesOnly DEF Inspect, Phases, Preparing
<1>5. CASE AddAll(r)
  <2>1. phase' \in [Runs -> Phases] /\ NothingDoneYet'
    BY <1>5, MovesOn DEF AddAll, Phases, Preparing
  <2>2. UserWorkIsSafe'
    BY <1>5 DEF IInv, UserWorkIsSafe, Stashed, AddAll
  <2> QED BY <1>5, <2>1, <2>2 DEF IInv, AddAll
<1>6. CASE StashPush(r)
  <2>1. phase' \in [Runs -> Phases] /\ NothingDoneYet'
    BY <1>6, MovesOn DEF StashPush, Phases, Preparing
  <2>2. stashes' \in Seq(Entries) /\ Stashed' = unstaged \cup Stashed
    <3>1. CASE staged \cup unstaged = {}
      BY <1>6, <3>1 DEF StashPush, IInv, Stashed
    <3>2. CASE staged \cup unstaged # {}
      BY <1>6, <3>2, Pushes DEF StashPush, IInv
    <3> QED BY <3>1, <3>2
  <2>3. UserWorkIsSafe'
    BY <1>6, <2>2 DEF IInv, UserWorkIsSafe, StashPush
  <2> QED BY <1>6, <2>1, <2>2, <2>3 DEF IInv, StashPush
<1>7. CASE Commit(r)
  <2>1. phase' \in [Runs -> Phases] /\ NothingDoneYet'
    BY <1>7, MovesOn DEF Commit, Phases, Preparing
  <2>2. UserWorkIsSafe'
    BY <1>7 DEF IInv, UserWorkIsSafe, Stashed, Commit
  <2> QED BY <1>7, <2>1, <2>2 DEF IInv, Commit
<1>8. CASE PrepareFails(r)
  <2>1. PICK to \in {"rollback", "ended"} : Move(r, to)
    BY <1>8 DEF PrepareFails
  <2> QED BY <1>8, <2>1, MovesOnly DEF PrepareFails, Phases, Preparing
<1>9. CASE Rollback(r)
  BY <1>9, Pops DEF Rollback
<1> QED BY <1>1, <1>2, <1>3, <1>4, <1>5, <1>6, <1>7, <1>8, <1>9 DEF Prepare

LEMMA TeardownStep ==
  ASSUME IInv, NEW r \in Runs, Teardown(r)
  PROVE  IInv'
<1>1. CASE TeardownNothing(r)
  BY <1>1, MovesOnly DEF TeardownNothing, Phases, Preparing
<1>2. CASE TeardownStaged(r)
  BY <1>2, Pops DEF TeardownStaged
<1>3. CASE TeardownWorktree(r)
  <2>1. PICK to \in {"ended", "prune"} : Move(r, to)
    BY <1>3 DEF TeardownWorktree
  <2> QED BY <1>3, <2>1, MovesOnly DEF TeardownWorktree, Phases, Preparing
<1>4. CASE PruneWorktree(r)
  BY <1>4, MovesOnly DEF PruneWorktree, Phases, Preparing
<1>5. CASE PruneFails(r)
  BY <1>5, MovesOnly DEF PruneFails, Phases, Preparing
<1> QED BY <1>1, <1>2, <1>3, <1>4, <1>5 DEF Teardown

LEMMA AgentEditStep ==
  ASSUME IInv, NEW r \in Runs, NEW c \in Changes, AgentEdit(r, c)
  PROVE  IInv'
<1>1. /\ phase' = phase /\ mode' = mode /\ staged' = staged /\ committed' = committed
      /\ stashes' = stashes /\ made' = made \cup {c} /\ Author[c] = r
      /\ phase[r] \in Working /\ userStashed' = userStashed /\ late' \subseteq late \cup {c}
  BY DEF AgentEdit
<1>2. unstaged' = unstaged \/ unstaged' = unstaged \cup {c}
  BY DEF AgentEdit
<1>3. mode[r] # "worktree" => c \in unstaged'
  BY DEF AgentEdit
<1>4. r # User
  BY IsolationAssumption
<1>5. NothingDoneYet'
  BY <1>1 DEF IInv, NothingDoneYet, Preparing, Working
<1>6. UserWorkIsSafe'
  BY <1>1, <1>2, <1>3, <1>4 DEF IInv, UserWorkIsSafe, Stashed
<1> QED BY <1>1, <1>2, <1>5, <1>6 DEF IInv

LEMMA UserStep ==
  ASSUME IInv, UserStash \/ \E c \in Changes : UserEdit(c)
  PROVE  IInv'
<1>1. CASE UserStash
  <2>1. stashes' \in Seq(Entries) /\ Stashed' = (staged \cup unstaged) \cup Stashed
    BY <1>1, Pushes DEF UserStash, IInv
  <2>2. UserWorkIsSafe'
    BY <1>1, <2>1 DEF IInv, UserWorkIsSafe, UserStash
  <2>3. NothingDoneYet'
    BY <1>1 DEF IInv, NothingDoneYet, UserStash
  <2> QED BY <1>1, <2>1, <2>2, <2>3 DEF IInv, UserStash
<1>2. ASSUME NEW c \in Changes, UserEdit(c) PROVE IInv'
  <2>1. User \notin Runs
    BY IsolationAssumption
  <2>2. NothingDoneYet'
    BY <1>2, <2>1 DEF IInv, NothingDoneYet, UserEdit
  <2>3. UserWorkIsSafe'
    BY <1>2 DEF IInv, UserWorkIsSafe, Stashed, UserEdit
  <2> QED BY <1>2, <2>2, <2>3 DEF IInv, UserEdit
<1> QED BY <1>1, <1>2

LEMMA Initially == Init => IInv
<1> SUFFICES ASSUME Init PROVE IInv
  OBVIOUS
<1>1. stashes \in Seq(Entries) /\ made \subseteq Changes /\ late \subseteq made
  BY IsolationAssumption DEF Init
<1>2. phase \in [Runs -> Phases] /\ mode \in [Runs -> Modes \cup {"none"}]
  BY DEF Init, Phases
<1>3. NothingDoneYet
  BY IsolationAssumption DEF Init, NothingDoneYet
<1>4. UserWorkIsSafe
  BY DEF Init, UserWorkIsSafe
<1> QED BY <1>1, <1>2, <1>3, <1>4, IsolationAssumption DEF Init, IInv

LEMMA Inductive == IInv /\ [Next]_vars => IInv'
<1> SUFFICES ASSUME IInv, [Next]_vars PROVE IInv'
  OBVIOUS
<1>1. ASSUME UNCHANGED <<mode, phase, tree, stashes>> PROVE IInv'
  BY <1>1 DEF IInv, NothingDoneYet, UserWorkIsSafe, Stashed
<1>2. ASSUME NEW r \in Runs, AgentReturns(r) PROVE IInv'
  BY <1>2, MovesOnly DEF AgentReturns, Phases, Preparing
<1>3. ASSUME NEW r \in Runs, AgentCommit(r) \/ Interrupt(r) PROVE IInv'
  BY <1>1, <1>3 DEF AgentCommit, Interrupt
<1>4. CASE Tick
  BY <1>1, <1>4 DEF Tick
<1>5. CASE UNCHANGED vars
  BY <1>1, <1>5
<1> QED BY <1>2, <1>3, <1>4, <1>5, PrepareStep, TeardownStep, AgentEditStep, UserStep DEF Next

\* Nothing the user did, and nothing an agent did in place, is lost by any
\* interleaving of preparations, teardowns, failures, interrupts and user edits:
\* PrepareIsolation and Teardown only move work between tree, index, history and
\* stash.
THEOREM UserWorkSafe == Spec => []UserWorkIsSafe
<1>1. IInv => UserWorkIsSafe
  BY DEF IInv
<1> QED BY <1>1, Initially, Inductive, PTL DEF Spec

(***************************************************************************)
(* The worktrees: each has one owner, and is removed by its owner only     *)
(* when nothing in it is uncommitted.                                      *)
(***************************************************************************)

Trees == [open : SUBSET Changes, done : SUBSET Changes]

HasWorktree(r) == phase[r] \in Working /\ mode[r] = "worktree"

RunTypes ==
  /\ phase \in [Runs -> Phases] /\ mode \in [Runs -> Modes \cup {"none"}]
  /\ ok \in [Runs -> BOOLEAN] /\ stashRef \in [Runs -> BOOLEAN]
  /\ id \in [Runs -> 0..MaxClock] /\ cancelled \subseteq Runs
  /\ clock \in 1..MaxClock
  /\ \A r \in Runs : phase[r] \in {"add", "push", "commit"} => mode[r] # "worktree"

RefTypes ==
  /\ branches \subseteq Names /\ DOMAIN worktrees \subseteq branches
  /\ worktrees \in [DOMAIN worktrees -> Trees]

Owned == \A r \in Runs : HasWorktree(r) => NameOf(r) \in DOMAIN worktrees

PrunedAreClean ==
  \A r \in Runs : phase[r] = "prune" =>
                    mode[r] = "worktree" /\ worktrees[NameOf(r)].open \subseteq late

Exclusive ==
  \A r, s \in Runs : r # s /\ HasWorktree(r) /\ HasWorktree(s) => id[r] # id[s]

WInv == RunTypes /\ RefTypes /\ Owned /\ PrunedAreClean /\ Exclusive

LEMMA ExclusiveWorktrees == WInv => WorktreesAreExclusive
BY DEF WInv, WorktreesAreExclusive, Exclusive, HasWorktree

\* A step that touches no worktree and makes no owner.
LEMMA KeepsWorktrees ==
  ASSUME WInv, RunTypes', UNCHANGED refs, late \subseteq late',
         \A r \in Runs : HasWorktree(r)' => HasWorktree(r) /\ id'[r] = id[r],
         \A r \in Runs : phase'[r] = "prune" =>
            mode'[r] = "worktree" /\ (phase[r] = "prune" \/ worktrees[NameOf(r)].open = {})
  PROVE  WInv'
<1>1. RefTypes'
  BY DEF WInv, RefTypes
<1>2. \A r \in Runs : HasWorktree(r)' => mode[r] = "worktree" /\ mode'[r] = "worktree"
  BY DEF HasWorktree
<1>3. \A r \in Runs : HasWorktree(r)' => NameOf(r)' = NameOf(r)
  BY <1>2 DEF NameOf
<1>4. Owned' /\ Exclusive'
  BY <1>3 DEF WInv, Owned, Exclusive
<1>5. PrunedAreClean'
  BY <1>3 DEF WInv, PrunedAreClean, HasWorktree, Working
<1> QED BY <1>1, <1>4, <1>5 DEF WInv

\* A step of one run that moves on without a worktree, or ends.
LEMMA MovesWithout ==
  ASSUME WInv, NEW r \in Runs, NEW to \in Phases, Move(r, to),
         to # "prune", to \in {"running", "teardown"} => HasWorktree(r) \/ mode[r] # "worktree",
         UNCHANGED <<refs, mode, id, late>>, RunTypes'
  PROVE  WInv'
<1>1. phase'[r] = to /\ \A q \in Runs : q # r => phase'[q] = phase[q]
  BY DEF WInv, RunTypes, Move
<1>2. \A q \in Runs : HasWorktree(q)' => HasWorktree(q) /\ id'[q] = id[q]
  BY <1>1 DEF HasWorktree, Phases, Working
<1>3. \A q \in Runs : phase'[q] = "prune" => mode'[q] = "worktree" /\ phase[q] = "prune"
  BY <1>1 DEF WInv, PrunedAreClean
<1> QED BY <1>2, <1>3, KeepsWorktrees

LEMMA RunTypesMove ==
  ASSUME WInv, NEW r \in Runs, NEW to \in Phases, Move(r, to),
         mode' = mode, clock' = clock, cancelled' = cancelled, id' \in [Runs -> 0..MaxClock],
         ok' \in [Runs -> BOOLEAN], stashRef' \in [Runs -> BOOLEAN],
         to \in {"add", "push", "commit"} => mode[r] # "worktree"
  PROVE  RunTypes'
<1>1. /\ phase' \in [Runs -> Phases] /\ phase'[r] = to
      /\ \A q \in Runs : q # r => phase'[q] = phase[q]
  BY DEF Move, WInv, RunTypes
<1> QED BY <1>1 DEF WInv, RunTypes

LEMMA RunTypesPrepare ==
  ASSUME WInv, NEW r \in Runs, Prepare(r)
  PROVE  RunTypes'
<1>1. CASE PrepareNone(r)
  BY <1>1, RunTypesMove DEF PrepareNone, WInv, RunTypes, Phases
<1>2. CASE PrepareOutsideGit(r)
  <2>1. /\ phase'[r] \in {"running", "ended"} /\ phase' \in [Runs -> Phases]
        /\ \A q \in Runs : q # r => phase'[q] = phase[q]
    BY <1>2 DEF PrepareOutsideGit, Move, WInv, RunTypes, Phases
  <2>2. mode' \in [Runs -> Modes \cup {"none"}] /\ \A q \in Runs : q # r => mode'[q] = mode[q]
    BY <1>2 DEF PrepareOutsideGit, WInv, RunTypes
  <2> QED BY <1>2, <2>1, <2>2 DEF PrepareOutsideGit, WInv, RunTypes
<1>3. CASE CreateBranch(r)
  <2>1. PICK to \in {"running", "ended"} : Move(r, to)
    BY <1>3 DEF CreateBranch
  <2>2. id' \in [Runs -> 0..MaxClock]
    BY <1>3 DEF CreateBranch, WInv, RunTypes
  <2> QED BY <1>3, <2>1, <2>2, RunTypesMove DEF CreateBranch, WInv, RunTypes, Phases
<1>4. CASE Inspect(r)
  <2>1. PICK to \in {"running", "add", "commit", "push"} : Move(r, to)
    BY <1>4 DEF Inspect
  <2> QED BY <1>4, <2>1, RunTypesMove DEF Inspect, WInv, RunTypes, Phases
<1>5. CASE AddAll(r)
  BY <1>5, RunTypesMove DEF AddAll, WInv, RunTypes, Phases
<1>6. CASE StashPush(r)
  <2>1. stashRef' \in [Runs -> BOOLEAN]
    BY <1>6 DEF StashPush, WInv, RunTypes
  <2> QED BY <1>6, <2>1, RunTypesMove DEF StashPush, WInv, RunTypes, Phases
<1>7. CASE Commit(r)
  BY <1>7, RunTypesMove DEF Commit, WInv, RunTypes, Phases
<1>8. CASE PrepareFails(r)
  <2>1. PICK to \in {"rollback", "ended"} : Move(r, to)
    BY <1>8 DEF PrepareFails
  <2> QED BY <1>8, <2>1, RunTypesMove DEF PrepareFails, WInv, RunTypes, Phases
<1>9. CASE Rollback(r)
  BY <1>9, RunTypesMove DEF Rollback, WInv, RunTypes, Phases
<1> QED BY <1>1, <1>2, <1>3, <1>4, <1>5, <1>6, <1>7, <1>8, <1>9 DEF Prepare

LEMMA RunTypesTeardown ==
  ASSUME WInv, NEW r \in Runs, Teardown(r)
  PROVE  RunTypes'
<1>1. PICK to \in {"ended", "prune"} : Move(r, to)
  BY DEF Teardown, TeardownNothing, TeardownStaged, TeardownWorktree, PruneWorktree, PruneFails
<1>2. UNCHANGED <<run, clock>>
  BY DEF Teardown, TeardownNothing, TeardownStaged, TeardownWorktree, PruneWorktree, PruneFails
<1> QED BY <1>1, <1>2, RunTypesMove DEF WInv, RunTypes, Phases

LEMMA RunTypesStep ==
  ASSUME WInv, [Next]_vars
  PROVE  RunTypes'
<1>1. ASSUME NEW r \in Runs, AgentReturns(r) PROVE RunTypes'
  <2>1. ok' \in [Runs -> BOOLEAN]
    BY <1>1 DEF AgentReturns, WInv, RunTypes
  <2> QED BY <1>1, <2>1, RunTypesMove DEF AgentReturns, WInv, RunTypes, Phases
<1>2. ASSUME NEW r \in Runs,
             AgentCommit(r) \/ Interrupt(r) \/ \E c \in Changes : AgentEdit(r, c)
      PROVE RunTypes'
  BY <1>2 DEF WInv, RunTypes, AgentCommit, Interrupt, AgentEdit
<1>3. CASE UserStash \/ UNCHANGED vars \/ \E c \in Changes : UserEdit(c)
  <2>1. UNCHANGED <<phase, run, clock>>
    BY <1>3 DEF UserStash, UserEdit
  <2> QED BY <2>1 DEF WInv, RunTypes
<1>4. CASE Tick
  BY <1>4, IsolationAssumption DEF WInv, RunTypes, Tick
<1> QED BY <1>1, <1>2, <1>3, <1>4, RunTypesPrepare, RunTypesTeardown DEF Next

LEMMA CreateBranchKeeps ==
  ASSUME WInv, NEW r \in Runs, CreateBranch(r), RunTypes'
  PROVE  WInv'
<1> DEFINE name == <<mode[r], clock>>
<1>1. CASE name \in branches
  <2>1. Move(r, "ended") /\ UNCHANGED refs
    BY <1>1 DEF CreateBranch, BranchIsFree
  <2>2. \A q \in Runs : HasWorktree(q)' => HasWorktree(q) /\ id'[q] = id[q]
    BY <2>1 DEF CreateBranch, Move, HasWorktree, Working, WInv, RunTypes
  <2>3. \A q \in Runs : phase'[q] = "prune" => mode'[q] = "worktree" /\ phase[q] = "prune"
    BY <2>1 DEF CreateBranch, Move, WInv, RunTypes, PrunedAreClean
  <2>4. late \subseteq late'
    BY DEF CreateBranch
  <2> QED BY <2>1, <2>2, <2>3, <2>4, KeepsWorktrees
<1>2. CASE name \notin branches
  <2>1. /\ phase'[r] = "running" /\ \A q \in Runs : q # r => phase'[q] = phase[q]
        /\ id'[r] = clock /\ \A q \in Runs : q # r => id'[q] = id[q]
        /\ mode' = mode /\ mode[r] \in {"worktree", "branch"} /\ branches' = branches \cup {name}
        /\ worktrees' = IF mode[r] = "branch" THEN worktrees
                        ELSE [n \in DOMAIN worktrees \cup {name} |->
                                IF n = name THEN Tree({}, {}) ELSE worktrees[n]]
    BY <1>2 DEF CreateBranch, BranchIsFree, Move, WInv, RunTypes
  <2>2. name \in Names
    BY <2>1 DEF Names, WInv, RunTypes
  <2>3. \A n \in DOMAIN worktrees : n \in DOMAIN worktrees' /\ worktrees'[n] = worktrees[n]
    BY <1>2, <2>1 DEF WInv, RefTypes
  <2>4. Tree({}, {}) \in Trees
    BY DEF Tree, Trees
  <2>5. RefTypes'
    BY <2>1, <2>2, <2>4 DEF WInv, RefTypes
  <2>6. \A q \in Runs : q # r => (HasWorktree(q)' <=> HasWorktree(q)) /\ NameOf(q)' = NameOf(q)
    BY <2>1 DEF HasWorktree, NameOf
  <2>7. HasWorktree(r)' => name \in DOMAIN worktrees' /\ NameOf(r)' = name
    BY <2>1 DEF HasWorktree, NameOf
  <2>8. Owned'
    BY <2>3, <2>6, <2>7 DEF WInv, Owned
  <2>9. PrunedAreClean'
    <3>1. SUFFICES ASSUME NEW q \in Runs, phase'[q] = "prune"
                   PROVE  mode'[q] = "worktree" /\ worktrees'[NameOf(q)'].open \subseteq late'
      BY DEF PrunedAreClean
    <3>2. q # r /\ phase[q] = "prune" /\ HasWorktree(q)
      BY <2>1, <3>1 DEF WInv, PrunedAreClean, HasWorktree, Working
    <3>3. late' = late
      BY DEF CreateBranch
    <3> QED BY <2>1, <2>3, <2>6, <3>2, <3>3 DEF WInv, PrunedAreClean, Owned
  <2>10. \A q \in Runs : q # r /\ HasWorktree(q) /\ HasWorktree(r)' => id[q] # clock
    BY <1>2, <2>1 DEF WInv, Owned, RefTypes, HasWorktree, NameOf
  <2>11. Exclusive'
    BY <2>1, <2>6, <2>10 DEF WInv, Exclusive
  <2> QED BY <2>5, <2>8, <2>9, <2>11 DEF WInv
<1> QED BY <1>1, <1>2

\* An edit, or a commit, in the worktree of a run: what comes after the status was
\* read is late.
LEMMA WorkKeeps ==
  ASSUME WInv, NEW r \in Runs, AgentCommit(r) \/ \E c \in Changes : AgentEdit(r, c), RunTypes'
  PROVE  WInv'
<1>1. /\ phase' = phase /\ mode' = mode /\ id' = id /\ branches' = branches
      /\ phase[r] \in Working /\ late \subseteq late'
  BY DEF AgentCommit, AgentEdit
<1>2. CASE UNCHANGED worktrees
  BY <1>1, <1>2, KeepsWorktrees DEF HasWorktree, WInv, PrunedAreClean
<1>3. ASSUME mode[r] = "worktree",
             NEW t \in Trees, worktrees' = [worktrees EXCEPT ![NameOf(r)] = t],
             phase[r] = "prune" => t.open \subseteq late'
      PROVE WInv'
  <2>1. \A q \in Runs : NameOf(q)' = NameOf(q) /\ (HasWorktree(q)' <=> HasWorktree(q))
    BY <1>1 DEF NameOf, HasWorktree
  <2>2. RefTypes'
    BY <1>1, <1>3 DEF WInv, RefTypes
  <2>3. Owned' /\ Exclusive'
    BY <1>1, <1>3, <2>1 DEF WInv, Owned, Exclusive
  <2>4. HasWorktree(r)
    BY <1>1, <1>3 DEF HasWorktree
  <2>5. PrunedAreClean'
    <3>1. SUFFICES ASSUME NEW q \in Runs, phase[q] = "prune"
                   PROVE  mode[q] = "worktree" /\ worktrees'[NameOf(q)].open \subseteq late'
      BY <1>1, <2>1 DEF PrunedAreClean
    <3>2. HasWorktree(q)
      BY <3>1 DEF WInv, PrunedAreClean, HasWorktree, Working
    <3>3. CASE q = r
      BY <1>3, <2>4, <3>1, <3>3 DEF WInv, Owned
    <3>4. CASE q # r
      <4>1. NameOf(q) # NameOf(r)
        BY <2>4, <3>2, <3>4 DEF WInv, Exclusive, NameOf
      <4> QED BY <1>1, <1>3, <3>1, <3>2, <4>1 DEF WInv, PrunedAreClean, Owned
    <3> QED BY <3>3, <3>4
  <2> QED BY <2>2, <2>3, <2>5 DEF WInv
<1>4. mode[r] = "worktree" => worktrees[NameOf(r)] \in Trees
  BY <1>1 DEF WInv, Owned, RefTypes, HasWorktree
<1>5. CASE AgentCommit(r)
  <2>1. /\ Tree({}, worktrees[NameOf(r)].done \cup worktrees[NameOf(r)].open) \in Trees
        /\ Tree({}, worktrees[NameOf(r)].done \cup worktrees[NameOf(r)].open).open = {}
    BY <1>4, <1>5 DEF Trees, Tree, AgentCommit
  <2> QED BY <1>3, <1>5, <2>1 DEF AgentCommit
<1>6. ASSUME NEW c \in Changes, AgentEdit(r, c) PROVE WInv'
  <2>1. CASE mode[r] = "worktree"
    <3> DEFINE t == [worktrees[NameOf(r)] EXCEPT !.open = @ \cup {c}]
    <3>1. t \in Trees /\ t.open = worktrees[NameOf(r)].open \cup {c}
      BY <1>4, <2>1 DEF Trees
    <3>2. phase[r] = "prune" => t.open \subseteq late'
      BY <1>6, <3>1 DEF AgentEdit, WInv, PrunedAreClean
    <3>3. worktrees' = [worktrees EXCEPT ![NameOf(r)] = t]
      BY <1>6, <2>1 DEF AgentEdit
    <3> HIDE DEF t
    <3> QED BY <1>3, <2>1, <3>1, <3>2, <3>3
  <2> QED BY <1>2, <1>6, <2>1 DEF AgentEdit
<1> QED BY <1>5, <1>6

\* A worktree is removed by its owner.
LEMMA PruneKeeps ==
  ASSUME WInv, NEW r \in Runs, PruneWorktree(r), RunTypes'
  PROVE  WInv'
<1>1. /\ phase[r] = "prune" /\ phase'[r] = "ended"
      /\ \A q \in Runs : q # r => phase'[q] = phase[q]
      /\ mode' = mode /\ id' = id /\ branches' = branches \ {NameOf(r)}
      /\ worktrees' = [n \in DOMAIN worktrees \ {NameOf(r)} |-> worktrees[n]]
  BY DEF PruneWorktree, Move, WInv, RunTypes
<1>2. HasWorktree(r)
  BY <1>1 DEF WInv, PrunedAreClean, HasWorktree, Working
<1>3. \A q \in Runs : HasWorktree(q)' => q # r /\ HasWorktree(q)
  BY <1>1 DEF HasWorktree, Working
<1>4. \A q \in Runs : NameOf(q)' = NameOf(q)
  BY <1>1 DEF NameOf
<1>5. \A q \in Runs : HasWorktree(q)' => NameOf(q) # NameOf(r)
  BY <1>2, <1>3 DEF WInv, Exclusive, NameOf
<1>6. RefTypes'
  BY <1>1 DEF WInv, RefTypes
<1>7. Owned'
  BY <1>1, <1>3, <1>4, <1>5 DEF WInv, Owned
<1>8. Exclusive'
  BY <1>1, <1>3 DEF WInv, Exclusive
<1>9. PrunedAreClean'
  <2>1. SUFFICES ASSUME NEW q \in Runs, phase'[q] = "prune"
                 PROVE  mode[q] = "worktree" /\ worktrees'[NameOf(q)].open \subseteq late'
    BY <1>1, <1>4 DEF PrunedAreClean
  <2>2. phase[q] = "prune" /\ HasWorktree(q)'
    BY <1>1, <2>1 DEF WInv, PrunedAreClean, HasWorktree, Working
  <2>3. late' = late
    BY DEF PruneWorktree
  <2> QED BY <1>1, <1>3, <1>5, <2>2, <2>3 DEF WInv, PrunedAreClean, Owned
<1> QED BY <1>6, <1>7, <1>8, <1>9 DEF WInv

LEMMA WorktreesInitially == Init => WInv
<1> SUFFICES ASSUME Init PROVE WInv
  OBVIOUS
<1>1. RunTypes
  BY IsolationAssumption DEF Init, RunTypes, Phases
<1>2. DOMAIN worktrees = {}
  BY DEF Init
<1>3. RefTypes
  BY <1>2 DEF Init, RefTypes
<1>4. Owned /\ PrunedAreClean /\ Exclusive
  BY DEF Init, Owned, PrunedAreClean, Exclusive, HasWorktree, Working
<1> QED BY <1>1, <1>3, <1>4 DEF WInv

LEMMA WorktreesPrepared ==
  ASSUME WInv, NEW r \in Runs, Prepare(r), RunTypes'
  PROVE  WInv'
<1>1. CASE PrepareNone(r)
  BY <1>1, MovesWithout DEF PrepareNone, Phases
<1>2. CASE PrepareOutsideGit(r)
  <2>1. \A q \in Runs : HasWorktree(q)' => HasWorktree(q) /\ id'[q] = id[q]
    BY <1>2 DEF PrepareOutsideGit, Move, HasWorktree, Working, WInv, RunTypes
  <2>2. \A q \in Runs : phase'[q] = "prune" => mode'[q] = "worktree" /\ phase[q] = "prune"
    BY <1>2 DEF PrepareOutsideGit, Move, WInv, RunTypes, PrunedAreClean
  <2> QED BY <1>2, <2>1, <2>2, KeepsWorktrees DEF PrepareOutsideGit
<1>3. CASE CreateBranch(r)
  BY <1>3, CreateBranchKeeps
<1>4. CASE Inspect(r)
  <2>1. PICK to \in {"running", "add", "commit", "push"} : Move(r, to)
    BY <1>4 DEF Inspect
  <2> QED BY <1>4, <2>1, MovesWithout DEF Inspect, Phases
<1>5. CASE AddAll(r)
  BY <1>5, MovesWithout DEF AddAll, Phases
<1>6. CASE StashPush(r)
  BY <1>6, MovesWithout DEF StashPush, Phases
<1>7. CASE Commit(r)
  <2>1. HasWorktree(r) \/ mode[r] # "worktree"
    BY <1>7 DEF Commit, WInv, RunTypes
  <2> QED BY <1>7, <2>1, MovesWithout DEF Commit, Phases
<1>8. CASE PrepareFails(r)
  <2>1. PICK to \in {"rollback", "ended"} : Move(r, to)
    BY <1>8 DEF PrepareFails
  <2> QED BY <1>8, <2>1, MovesWithout DEF PrepareFails, Phases
<1>9. CASE Rollback(r)
  BY <1>9, MovesWithout DEF Rollback, Phases
<1> QED BY <1>1, <1>2, <1>3, <1>4, <1>5, <1>6, <1>7, <1>8, <1>9 DEF Prepare

LEMMA WorktreesTornDown ==
  ASSUME WInv, NEW r \in Runs, Teardown(r), RunTypes'
  PROVE  WInv'
<1>1. CASE TeardownNothing(r)
  BY <1>1, MovesWithout DEF TeardownNothing, Phases
<1>2. CASE TeardownStaged(r)
  BY <1>2, MovesWithout DEF TeardownStaged, Phases
<1>3. CASE TeardownWorktree(r)
  <2>1. \A q \in Runs : HasWorktree(q)' => HasWorktree(q) /\ id'[q] = id[q]
    BY <1>3 DEF TeardownWorktree, Move, HasWorktree, Working, WInv, RunTypes
  <2>2. phase'[r] = "prune" => mode[r] = "worktree" /\ worktrees[NameOf(r)].open = {}
    BY <1>3 DEF TeardownWorktree, WorktreeHasChanges, Move, WInv, RunTypes
  <2>3. \A q \in Runs : q # r /\ phase'[q] = "prune" => mode[q] = "worktree" /\ phase[q] = "prune"
    BY <1>3 DEF TeardownWorktree, Move, WInv, RunTypes, PrunedAreClean
  <2> QED BY <1>3, <2>1, <2>2, <2>3, KeepsWorktrees DEF TeardownWorktree
<1>4. CASE PruneWorktree(r)
  BY <1>4, PruneKeeps
<1>5. CASE PruneFails(r)
  BY <1>5, MovesWithout DEF PruneFails, Phases
<1> QED BY <1>1, <1>2, <1>3, <1>4, <1>5 DEF Teardown

LEMMA WorktreesInductive == WInv /\ [Next]_vars => WInv'
<1> SUFFICES ASSUME WInv, [Next]_vars PROVE WInv'
  OBVIOUS
<1>1. RunTypes'
  BY RunTypesStep
<1>2. ASSUME UNCHANGED <<refs, phase, mode, id, late>> PROVE WInv'
  BY <1>1, <1>2, KeepsWorktrees DEF HasWorktree, WInv, PrunedAreClean
<1>3. ASSUME NEW r \in Runs, AgentReturns(r) PROVE WInv'
  <2>1. HasWorktree(r) \/ mode[r] # "worktree"
    BY <1>3 DEF AgentReturns, HasWorktree, Working
  <2> QED BY <1>1, <1>3, <2>1, MovesWithout DEF AgentReturns, Phases
<1>4. ASSUME NEW r \in Runs, Interrupt(r) PROVE WInv'
  BY <1>2, <1>4 DEF Interrupt
<1>5. CASE UserStash \/ Tick \/ UNCHANGED vars \/ \E c \in Changes : UserEdit(c)
  BY <1>2, <1>5 DEF UserStash, Tick, UserEdit
<1> QED BY <1>1, <1>3, <1>4, <1>5, WorktreesPrepared, WorktreesTornDown, WorkKeeps DEF Next

\* Every reachable state of the isolation machinery is well typed, for any
\* number of squad processes on one repository.
THEOREM TypeCorrect == Spec => []TypeOK
<1>1. IInv /\ WInv => TypeOK
  BY DEF IInv, WInv, RunTypes, RefTypes, TypeOK, Entries, Trees
<1> QED BY <1>1, Initially, Inductive, WorktreesInitially, WorktreesInductive, PTL DEF Spec

\* No two live runs are given one worktree: the name has a granularity of a
\* second, and git refuses the branch of the second run.
THEOREM WorktreesExclusive == Spec => []WorktreesAreExclusive
BY ExclusiveWorktrees, WorktreesInitially, WorktreesInductive, PTL DEF Spec

\* A worktree with work that was uncommitted when git status read it is never
\* removed, also when the background tasks and commands of the run go on writing
\* until worktree remove --force.
THEOREM UncommittedWorkKept == Spec => UncommittedWorkIsKept
<1> DEFINE Kept == \A n \in DOMAIN worktrees : worktrees[n].open \ late # {} => n \in DOMAIN worktrees'
<1>1. ASSUME WInv, [Next]_vars PROVE [Kept]_vars
  <2>1. CASE UNCHANGED vars
    BY <2>1
  <2>2. ASSUME NEW r \in Runs, CreateBranch(r) PROVE Kept
    BY <2>2 DEF CreateBranch
  <2>3. ASSUME NEW r \in Runs, PruneWorktree(r) PROVE Kept
    BY <1>1, <2>3 DEF PruneWorktree, WInv, PrunedAreClean
  <2>4. ASSUME NEW r \in Runs, AgentCommit(r) \/ \E c \in Changes : AgentEdit(r, c) PROVE Kept
    BY <2>4 DEF AgentCommit, AgentEdit
  <2>5. ASSUME UNCHANGED worktrees PROVE Kept
    BY <2>5
  <2>6. ASSUME NEW r \in Runs, Prepare(r) PROVE Kept
    BY <2>2, <2>5, <2>6
    DEF Prepare, PrepareNone, PrepareOutsideGit, Inspect, AddAll, StashPush, Commit,
        PrepareFails, Rollback
  <2>7. ASSUME NEW r \in Runs, Teardown(r) PROVE Kept
    BY <2>3, <2>5, <2>7 DEF Teardown, TeardownNothing, TeardownStaged, TeardownWorktree, PruneFails
  <2>8. ASSUME NEW r \in Runs, AgentReturns(r) \/ Interrupt(r) PROVE Kept
    BY <2>5, <2>8 DEF AgentReturns, Interrupt
  <2>9. CASE UserStash \/ Tick \/ \E c \in Changes : UserEdit(c)
    BY <2>5, <2>9 DEF UserStash, Tick, UserEdit
  <2> QED BY <1>1, <2>1, <2>4, <2>6, <2>7, <2>8, <2>9 DEF Next
<1> QED BY <1>1, WorktreesInitially, WorktreesInductive, PTL DEF Spec, UncommittedWorkIsKept

(***************************************************************************)
(* The stash of a run that nobody disturbs.                                *)
(***************************************************************************)

InitialWork == Staged0 \cup Unstaged0

\* The run has nothing in the stash, and nobody else has.
NoStash(r) == stashes = <<>> /\ ~stashRef[r]

\* The run's entry, if there was anything to save, is the only one, and none of
\* its files is changed in the tree, the index or the history.
Held(r) ==
  /\ mode[r] = "staged" /\ stashRef[r]
  /\ stashes = <<>> \/ \E work \in SUBSET Unstaged0 : stashes = <<Entry(r, work)>>
  /\ \A c \in unstaged : Author[c] = r
  /\ staged \cup committed \subseteq Staged0

AloneAt(r) ==
  /\ phase[r] \in {"ready", "push"} =>
       /\ NoStash(r)
       /\ staged \cup committed \subseteq Staged0 /\ unstaged \subseteq Unstaged0
  /\ phase[r] = "push" => mode[r] = "staged"
  /\ phase[r] \in {"add", "prune"} => NoStash(r)
  /\ phase[r] \in {"commit", "running", "teardown"} => NoStash(r) \/ Held(r)
  /\ phase[r] = "rollback" => Held(r)
  /\ phase[r] = "ended" => stashes = <<>>

AloneInv == InitialWork \subseteq made /\ \A r \in Runs : Alone(r) => AloneAt(r)

\* Once a run is disturbed it stays so.
LEMMA DisturbancesRemain ==
  ASSUME IInv, [Next]_vars
  PROVE  /\ cancelled \subseteq cancelled' /\ made \subseteq made'
         /\ userStashed => userStashed'
         /\ \A q \in Runs : phase'[q] = "ready" => phase[q] = "ready"
<1>1. ASSUME NEW r \in Runs, NEW to \in Phases \ {"ready"}, Move(r, to)
      PROVE  \A q \in Runs : phase'[q] = "ready" => phase[q] = "ready"
  BY <1>1 DEF Move, IInv
<1>2. ASSUME NEW r \in Runs, Prepare(r)
      PROVE  \E to \in Phases \ {"ready"} : Move(r, to) /\ UNCHANGED <<cancelled, history>>
  <2>1. ASSUME PrepareOutsideGit(r) \/ CreateBranch(r)
        PROVE  \E to \in {"running", "ended"} : Move(r, to) /\ UNCHANGED <<cancelled, history>>
    BY <2>1 DEF PrepareOutsideGit, CreateBranch
  <2>2. ASSUME Inspect(r) \/ PrepareFails(r)
        PROVE  \E to \in Phases \ {"ready"} : Move(r, to) /\ UNCHANGED <<cancelled, history>>
    BY <2>2 DEF Inspect, PrepareFails, Phases
  <2> QED BY <1>2, <2>1, <2>2
      DEF Prepare, PrepareNone, AddAll, StashPush, Commit, Rollback, Phases
<1>3. ASSUME NEW r \in Runs, Teardown(r) \/ AgentReturns(r)
      PROVE  \E to \in Phases \ {"ready"} : Move(r, to) /\ UNCHANGED <<cancelled, history>>
  BY <1>3 DEF Teardown, TeardownNothing, TeardownStaged, TeardownWorktree, PruneWorktree,
              PruneFails, AgentReturns, Phases
<1>4. ASSUME NEW r \in Runs, Interrupt(r) \/ AgentCommit(r) \/ \E c \in Changes : AgentEdit(r, c)
      PROVE  /\ cancelled \subseteq cancelled' /\ made \subseteq made'
             /\ UNCHANGED <<userStashed, phase>>
  BY <1>4 DEF Interrupt, AgentCommit, AgentEdit
<1>5. ASSUME UserStash \/ Tick \/ UNCHANGED vars \/ \E c \in Changes : UserEdit(c)
      PROVE  /\ UNCHANGED <<cancelled, phase>> /\ made \subseteq made'
             /\ userStashed => userStashed'
  BY <1>5 DEF UserStash, Tick, UserEdit
<1> QED BY <1>1, <1>2, <1>3, <1>4, <1>5 DEF Next

LEMMA AloneBefore ==
  ASSUME IInv, [Next]_vars, NEW r \in Runs, Alone(r)'
  PROVE  Alone(r)
BY DisturbancesRemain DEF Alone

\* While a run is alone the others only wait.
LEMMA OthersWait ==
  ASSUME IInv, NEW r \in Runs, Alone(r), Alone(r)', NEW q \in Runs, q # r
  PROVE  ~ (Prepare(q) \/ AgentCommit(q) \/ AgentReturns(q) \/ Teardown(q)
            \/ \E c \in Changes : AgentEdit(q, c))
<1>1. phase[q] = "ready" /\ phase'[q] = "ready"
  BY DEF Alone
<1>2. ASSUME NEW to \in Phases \ {"ready"}, Move(q, to) PROVE FALSE
  BY <1>1, <1>2 DEF Move, IInv
<1>3. ASSUME Prepare(q) PROVE FALSE
  <2>1. CASE PrepareNone(q)
    BY <1>2, <2>1 DEF PrepareNone, Phases
  <2>2. CASE PrepareOutsideGit(q) \/ CreateBranch(q)
    <3>1. PICK to \in {"running", "ended"} : Move(q, to)
      BY <2>2 DEF PrepareOutsideGit, CreateBranch
    <3> QED BY <1>2, <3>1 DEF Phases
  <2>3. CASE Inspect(q)
    <3>1. PICK to \in {"running", "add", "commit", "push"} : Move(q, to)
      BY <2>3 DEF Inspect
    <3> QED BY <1>2, <3>1 DEF Phases
  <2> QED BY <1>1, <1>3, <2>1, <2>2, <2>3
      DEF Prepare, AddAll, StashPush, Commit, PrepareFails, Rollback
<1> QED BY <1>1, <1>3 DEF AgentCommit, AgentReturns, AgentEdit, Working, Teardown, TeardownNothing,
                          TeardownStaged, TeardownWorktree, PruneWorktree, PruneFails

LEMMA AloneUnmoved ==
  ASSUME NEW r \in Runs, AloneAt(r), UNCHANGED <<phase, mode, stashRef, tree, stashes>>
  PROVE  AloneAt(r)'
BY DEF AloneAt, NoStash, Held

\* git neither refuses the pop nor finds a conflict.
LEMMA PopsAlone ==
  ASSUME NEW r \in Runs, IInv, Alone(r), Held(r), Pop(r)
  PROVE  stashes' = <<>>
<1>1. CASE stashes = <<>>
  BY <1>1 DEF Pop, PopRestores, PopFails
<1>2. ASSUME NEW work \in SUBSET Unstaged0, stashes = <<Entry(r, work)>>
      PROVE  stashes' = <<>>
  <2>1. stashes # <<>> /\ Head(stashes) = Entry(r, work) /\ Tail(stashes) = <<>>
    BY <1>2
  <2>2. Head(stashes).changes = work
    BY <2>1 DEF Entry
  <2>3. ~PopRefused(Head(stashes))
    <3>1. unstaged \subseteq {c \in Changes : Author[c] = r}
      BY DEF Held, IInv
    <3>2. FilesOf(unstaged) \subseteq FilesOf({c \in Changes : Author[c] = r})
      BY <3>1 DEF FilesOf
    <3>3. FilesOf(work) \subseteq FilesOf(Staged0 \cup Unstaged0)
      BY <1>2 DEF FilesOf
    <3> QED BY <2>2, <3>2, <3>3 DEF PopRefused, Alone
  <2>4. ~PopMayConflict(Head(stashes))
    <3>1. FilesOf(staged \cup committed) \subseteq FilesOf(Staged0)
      BY DEF Held, FilesOf
    <3>2. FilesOf(work) \subseteq FilesOf(Unstaged0)
      BY <1>2 DEF FilesOf
    <3> QED BY <2>2, <3>1, <3>2 DEF PopMayConflict, Alone
  <2>5. ~PopFails(r)
    BY <2>1, <2>3, <2>4 DEF PopFails, Alone
  <2> QED BY <2>1, <2>5 DEF Pop, PopRestores
<1> QED BY <1>1, <1>2 DEF Held

LEMMA AlonePrepares ==
  ASSUME IInv, stashRef \in [Runs -> BOOLEAN], NEW r \in Runs, Alone(r), AloneAt(r), Prepare(r)
  PROVE  AloneAt(r)'
<1>1. r \notin cancelled /\ phase \in [Runs -> Phases]
  BY DEF Alone, IInv
<1>2. ASSUME NEW to, Move(r, to) PROVE phase'[r] = to
  BY <1>1, <1>2 DEF Move
<1>3. CASE PrepareNone(r)
  <2>1. phase'[r] = "running" /\ NoStash(r)'
    BY <1>2, <1>3 DEF PrepareNone, AloneAt, NoStash
  <2> QED BY <2>1 DEF AloneAt
<1>4. CASE PrepareOutsideGit(r)
  BY <1>1, <1>4 DEF PrepareOutsideGit
<1>5. CASE CreateBranch(r)
  <2>1. phase'[r] \in {"running", "ended"} /\ NoStash(r)'
    BY <1>2, <1>5 DEF CreateBranch, AloneAt, NoStash
  <2> QED BY <2>1 DEF AloneAt, NoStash
<1>6. CASE Inspect(r)
  <2>1. /\ phase'[r] \in {"running", "add", "commit", "push"} /\ NoStash(r)'
        /\ phase'[r] = "push" => mode[r] = "staged"
        /\ phase[r] = "ready" /\ UNCHANGED <<mode, tree>>
    BY <1>2, <1>6 DEF Inspect, AloneAt, NoStash
  <2> QED BY <2>1 DEF AloneAt
<1>7. CASE AddAll(r)
  <2>1. phase'[r] = "commit" /\ NoStash(r)'
    BY <1>2, <1>7 DEF AddAll, AloneAt, NoStash
  <2> QED BY <2>1 DEF AloneAt
<1>8. CASE StashPush(r)
  <2>1. /\ phase'[r] = "commit" /\ stashes = <<>> /\ mode'[r] = "staged" /\ stashRef'[r]
        /\ unstaged' = {} /\ staged' = staged /\ committed' = committed
        /\ staged \cup committed \subseteq Staged0 /\ unstaged \in SUBSET Unstaged0
    BY <1>2, <1>8 DEF StashPush, AloneAt, NoStash
  <2>2. stashes' = <<>> \/ stashes' = <<Entry(r, unstaged)>> \o <<>>
    BY <1>8, <2>1 DEF StashPush
  <2>3. <<Entry(r, unstaged)>> \o <<>> = <<Entry(r, unstaged)>>
    OBVIOUS
  <2>4. Held(r)'
    BY <2>1, <2>2, <2>3 DEF Held
  <2> QED BY <2>1, <2>4 DEF AloneAt
<1>9. CASE Commit(r)
  <2>1. /\ phase'[r] = "running" /\ (NoStash(r) \/ Held(r))
        /\ committed' = committed \cup staged /\ staged' = {}
        /\ UNCHANGED <<stashes, stashRef, mode, unstaged>>
    BY <1>2, <1>9 DEF Commit, AloneAt
  <2>2. NoStash(r)' \/ Held(r)'
    BY <2>1 DEF NoStash, Held
  <2> QED BY <2>1, <2>2 DEF AloneAt
<1>10. CASE PrepareFails(r)
  <2>1. /\ phase'[r] = IF stashRef[r] THEN "rollback" ELSE "ended"
        /\ phase[r] = "commit" /\ UNCHANGED <<stashes, stashRef, mode, tree>>
    BY <1>1, <1>2, <1>10 DEF PrepareFails
  <2>2. NoStash(r) \/ Held(r)
    BY <2>1 DEF AloneAt
  <2> QED BY <2>1, <2>2 DEF AloneAt, NoStash, Held
<1>11. CASE Rollback(r)
  <2>1. phase'[r] = "ended" /\ Held(r) /\ Pop(r)
    BY <1>2, <1>11 DEF Rollback, AloneAt
  <2>2. stashes' = <<>>
    BY <2>1, PopsAlone
  <2> QED BY <2>1, <2>2 DEF AloneAt
<1> QED BY <1>3, <1>4, <1>5, <1>6, <1>7, <1>8, <1>9, <1>10, <1>11 DEF Prepare

LEMMA AloneWorks ==
  ASSUME IInv, NEW r \in Runs, Alone(r), AloneAt(r),
         AgentCommit(r) \/ AgentReturns(r) \/ Teardown(r) \/ \E c \in Changes : AgentEdit(r, c)
  PROVE  AloneAt(r)'
<1>1. phase \in [Runs -> Phases]
  BY DEF IInv
<1>2. ASSUME NEW to, Move(r, to) PROVE phase'[r] = to
  BY <1>1, <1>2 DEF Move
<1>3. CASE AgentCommit(r)
  BY <1>3, AloneUnmoved DEF AgentCommit
<1>4. CASE AgentReturns(r)
  <2>1. /\ phase[r] = "running" /\ phase'[r] = "teardown"
        /\ UNCHANGED <<mode, stashRef, tree, stashes>>
    BY <1>2, <1>4 DEF AgentReturns
  <2> QED BY <2>1 DEF AloneAt, NoStash, Held
<1>5. ASSUME NEW c \in Changes, AgentEdit(r, c) PROVE AloneAt(r)'
  <2>1. /\ phase[r] \in Working /\ phase' = phase /\ Author[c] = r
        /\ UNCHANGED <<mode, stashRef, staged, committed, stashes>>
        /\ unstaged' \subseteq unstaged \cup {c}
    BY <1>5 DEF AgentEdit
  <2> QED BY <2>1 DEF AloneAt, NoStash, Held, Working
<1>6. CASE TeardownNothing(r)
  <2>1. /\ phase[r] = "teardown" /\ phase'[r] = "ended" /\ ~stashRef[r]
        /\ UNCHANGED stashes
    BY <1>2, <1>6 DEF TeardownNothing
  <2> QED BY <2>1 DEF AloneAt, NoStash, Held
<1>7. CASE TeardownStaged(r)
  <2>1. phase'[r] = "ended" /\ Held(r) /\ Pop(r)
    BY <1>2, <1>7 DEF TeardownStaged, AloneAt, NoStash
  <2>2. stashes' = <<>>
    BY <2>1, PopsAlone
  <2> QED BY <2>1, <2>2 DEF AloneAt
<1>8. CASE TeardownWorktree(r)
  <2>1. /\ phase'[r] \in {"ended", "prune"} /\ phase[r] = "teardown" /\ mode[r] = "worktree"
        /\ UNCHANGED <<stashes, stashRef>>
    BY <1>2, <1>8 DEF TeardownWorktree
  <2>2. NoStash(r)
    BY <2>1 DEF AloneAt, Held
  <2> QED BY <2>1, <2>2 DEF AloneAt, NoStash
<1>9. CASE PruneWorktree(r) \/ PruneFails(r)
  <2>1. phase'[r] = "ended" /\ phase[r] = "prune" /\ UNCHANGED stashes
    BY <1>2, <1>9 DEF PruneWorktree, PruneFails
  <2> QED BY <2>1 DEF AloneAt, NoStash
<1> QED BY <1>3, <1>4, <1>5, <1>6, <1>7, <1>8, <1>9 DEF Teardown

LEMMA AloneStep ==
  ASSUME IInv, WInv, AloneInv, [Next]_vars
  PROVE  AloneInv'
<1>1. InitialWork \subseteq made'
  BY DisturbancesRemain DEF AloneInv
<1>2. ASSUME NEW r \in Runs, Alone(r)' PROVE AloneAt(r)'
  <2>1. Alone(r) /\ AloneAt(r)
    BY <1>2, AloneBefore DEF AloneInv
  <2>2. ASSUME NEW q \in Runs, Prepare(q) PROVE AloneAt(r)'
    BY <1>2, <2>1, <2>2, OthersWait, AlonePrepares DEF WInv, RunTypes
  <2>3. ASSUME NEW q \in Runs,
               AgentCommit(q) \/ AgentReturns(q) \/ Teardown(q) \/ \E c \in Changes : AgentEdit(q, c)
        PROVE  AloneAt(r)'
    BY <1>2, <2>1, <2>3, OthersWait, AloneWorks
  <2>4. ASSUME Tick \/ UNCHANGED vars \/ \E q \in Runs : Interrupt(q) PROVE AloneAt(r)'
    <3>1. UNCHANGED <<phase, mode, stashRef, tree, stashes>>
      BY <2>4 DEF Tick, Interrupt
    <3> QED BY <2>1, <3>1, AloneUnmoved
  <2>5. ~UserStash
    BY <1>2 DEF UserStash, Alone
  <2>6. ASSUME NEW c \in Changes, UserEdit(c) PROVE FALSE
    <3>1. c \in made' /\ Author[c] = User /\ c \notin made
      BY <2>6 DEF UserEdit
    <3>2. c \in InitialWork
      BY <1>2, <3>1 DEF Alone, InitialWork
    <3> QED BY <3>1, <3>2 DEF AloneInv
  <2> QED BY <2>2, <2>3, <2>4, <2>5, <2>6 DEF Next
<1> QED BY <1>1, <1>2 DEF AloneInv, InitialWork

\* The user's unstaged work is back in the tree when a run ends that nobody
\* disturbed, also when the agent failed or the commit was rejected
\* (prepareStaged's rollback, teardownStaged).
THEOREM RestoredSound == Spec => []RestoredWhenAlone
<1>1. Init => AloneInv
  BY DEF Init, AloneInv, AloneAt, NoStash, InitialWork
<1>2. IInv /\ WInv /\ AloneInv /\ [Next]_vars => AloneInv'
  BY AloneStep
<1>3. AloneInv => RestoredWhenAlone
  BY DEF AloneInv, AloneAt, RestoredWhenAlone, StashHas
<1> QED
  BY <1>1, <1>2, <1>3, Initially, Inductive, WorktreesInitially, WorktreesInductive, PTL DEF Spec

-----------------------------------------------------------------------------
(***************************************************************************)
(* What a run is told of its commands: Commands, for every set of commands  *)
(* and of executors and any number of calls.                                *)
(***************************************************************************)
CONSTANTS Commands, Kinds, MaxCalls
VARIABLES kind, executor, box, loop, blocked, interrupted

Co == INSTANCE Commands WITH cancelled <- interrupted

JobRecords ==
  [cmd : Commands, fg : BOOLEAN, done : BOOLEAN, child : BOOLEAN,
   at : {"begin", "attached", "ended", "returned"},
   proc : {"none", "running", "exited", "killed"},
   out : {"none", "part", "whole"}, err : BOOLEAN]

\* What a job's record says agrees with where its goroutine is.  A process is
\* killed by a local executor, or by a container that is gone.
Settled(r) ==
  /\ r.done <=> r.at = "returned"
  /\ r.at \in {"attached", "ended"} => r.proc # "none"
  /\ r.at = "ended" => r.proc # "running" /\ ~r.child
  /\ r.proc = "killed" => kind = "local" \/ (kind = "docker" /\ box = "removed")
  /\ r.done /\ ~r.err => r.proc = "exited" /\ r.out = "whole"

Succeeded(r) == r.done /\ ~r.err

\* A success that was reported is one the registry has.
AnswerIsKnown ==
  last.status = "completed" =>
    /\ last.job \in DOMAIN jobs
    /\ Succeeded(jobs[last.job]) /\ last.out = jobs[last.job].out

CommandInv ==
  /\ jobs \in Seq(JobRecords)
  /\ executor \in {"none", "created"} => jobs = <<>>
  /\ \A j \in DOMAIN jobs : Settled(jobs[j])
  /\ loop.at = "wait" => loop.job \in DOMAIN jobs
  /\ AnswerIsKnown

\* Everything the invariant says of the records carries over to the next state.
JobsCarryOver ==
  /\ jobs' \in Seq(JobRecords)
  /\ (\A j \in DOMAIN jobs : Settled(jobs[j]))'
  /\ DOMAIN jobs \subseteq DOMAIN jobs'
  /\ \A j \in DOMAIN jobs : Succeeded(jobs[j]) =>
       Succeeded(jobs'[j]) /\ jobs'[j].out = jobs[j].out

LEMMA CarryOver ==
  ASSUME CommandInv, JobsCarryOver,
         (executor \in {"none", "created"})' => jobs' = <<>>,
         AnswerIsKnown' \/ UNCHANGED last,
         loop'.at = "wait" => loop'.job \in DOMAIN jobs
  PROVE  CommandInv'
<1>1. AnswerIsKnown'
  BY DEF CommandInv, JobsCarryOver, AnswerIsKnown
<1>2. loop'.at = "wait" => loop'.job \in DOMAIN jobs'
  BY DEF JobsCarryOver
<1> QED BY <1>1, <1>2 DEF CommandInv, JobsCarryOver

LEMMA JobStep ==
  ASSUME CommandInv, NEW j \in DOMAIN jobs, NEW r \in JobRecords,
         jobs' = [jobs EXCEPT ![j] = r], UNCHANGED <<kind, box>>, Settled(r),
         Succeeded(jobs[j]) => Succeeded(r) /\ r.out = jobs[j].out
  PROVE  JobsCarryOver
<1>1. jobs \in Seq(JobRecords) /\ jobs' \in Seq(JobRecords) /\ DOMAIN jobs' = DOMAIN jobs
  BY DEF CommandInv
<1>2. jobs'[j] = r /\ \A i \in DOMAIN jobs : i # j => jobs'[i] = jobs[i]
  BY <1>1
<1>3. (\A i \in DOMAIN jobs : Settled(jobs[i]))'
  <2>1. \A i \in DOMAIN jobs : Settled(jobs'[i])
    BY <1>2 DEF CommandInv
  <2> QED BY <1>1, <2>1 DEF Settled
<1> QED BY <1>1, <1>2, <1>3 DEF JobsCarryOver

LEMMA JobsSame ==
  ASSUME CommandInv, UNCHANGED <<jobs, kind, box>>
  PROVE  JobsCarryOver
BY DEF CommandInv, JobsCarryOver, Settled

LEMMA JobIsRecord ==
  ASSUME CommandInv, NEW j \in DOMAIN jobs
  PROVE  jobs[j] \in JobRecords /\ Settled(jobs[j])
BY DEF CommandInv

\* A goroutine starts its process, or sees it killed, or reaches the end of the
\* output: it has not returned.
LEMMA JobMoves ==
  ASSUME CommandInv, NEW j \in DOMAIN jobs, UNCHANGED <<kind, box>>,
         \/ Co!Starts(j) /\ jobs[j].at = "begin"
         \/ /\ jobs[j].at = "attached" /\ kind = "local"
            /\ jobs' = [jobs EXCEPT ![j].proc = "killed"]
         \/ /\ jobs[j].at = "attached" /\ Co!Quiet(j)
            /\ jobs' = [jobs EXCEPT ![j].at = "ended"]
  PROVE  JobsCarryOver
<1> DEFINE r == jobs[j]
<1>1. r \in JobRecords /\ Settled(r)
  BY JobIsRecord
<1>2. ASSUME Co!Starts(j), r.at = "begin" PROVE JobsCarryOver
  <2> DEFINE q == [r EXCEPT !.at = "attached", !.proc = "running",
                            !.child = r.cmd.child # "none"]
  <2>1. q \in JobRecords /\ Settled(q) /\ ~Succeeded(r)
    BY <1>1, <1>2 DEF JobRecords, Settled, Succeeded
  <2>2. jobs' = [jobs EXCEPT ![j] = q]
    BY <1>2 DEF Co!Starts
  <2> HIDE DEF q, r
  <2> QED BY <2>1, <2>2, JobStep DEF r
<1>3. ASSUME r.at = "attached", kind = "local", jobs' = [jobs EXCEPT ![j].proc = "killed"]
      PROVE  JobsCarryOver
  <2> DEFINE q == [r EXCEPT !.proc = "killed"]
  <2>1. q \in JobRecords /\ Settled(q) /\ ~Succeeded(r)
    BY <1>1, <1>3 DEF JobRecords, Settled, Succeeded
  <2>2. jobs' = [jobs EXCEPT ![j] = q]
    BY <1>3
  <2> HIDE DEF q, r
  <2> QED BY <2>1, <2>2, JobStep DEF r
<1>4. ASSUME r.at = "attached", Co!Quiet(j), jobs' = [jobs EXCEPT ![j].at = "ended"]
      PROVE  JobsCarryOver
  <2> DEFINE q == [r EXCEPT !.at = "ended"]
  <2>1. q \in JobRecords /\ Settled(q) /\ ~Succeeded(r)
    BY <1>1, <1>4 DEF JobRecords, Settled, Succeeded, Co!Quiet
  <2>2. jobs' = [jobs EXCEPT ![j] = q]
    BY <1>4
  <2> HIDE DEF q, r
  <2> QED BY <2>1, <2>2, JobStep DEF r
<1> QED BY <1>2, <1>3, <1>4

\* A goroutine returns: an answer without an error is whole and of a process
\* that has ended by itself.
LEMMA JobReturns ==
  ASSUME CommandInv, NEW j \in DOMAIN jobs, UNCHANGED <<kind, box, executor>>,
         jobs[j].at # "returned",
         NEW out \in {"none", "part", "whole"}, NEW err \in BOOLEAN, Co!Returns(j, out, err),
         ~err => jobs[j].proc = "exited" /\ out = "whole"
  PROVE  CommandInv'
<1> DEFINE r == jobs[j]
           q == [r EXCEPT !.at = "returned", !.out = out, !.err = err, !.done = TRUE]
<1>1. r \in JobRecords /\ Settled(r)
  BY JobIsRecord
<1>2. q \in JobRecords /\ Settled(q) /\ ~Succeeded(r)
  BY <1>1 DEF JobRecords, Settled, Succeeded
<1>3. jobs' = [jobs EXCEPT ![j] = q]
  BY DEF Co!Returns, Co!Store
<1>4. JobsCarryOver
  <2> HIDE DEF q, r
  <2> QED BY <1>2, <1>3, JobStep DEF r
<1>5. jobs \in Seq(JobRecords) /\ jobs'[j] = q /\ j \in DOMAIN jobs'
  BY <1>3 DEF CommandInv
<1>6. CASE r.fg
  <2>1. last' = [job |-> j, status |-> Co!Status(err), out |-> out]
    BY <1>6 DEF Co!Returns
  <2>2. q.out = out /\ q.err = err /\ q.done
    BY <1>1 DEF JobRecords
  <2>3. last'.status = "completed" => ~err
    BY <2>1 DEF Co!Status
  <2>4. AnswerIsKnown'
    BY <1>5, <2>1, <2>2, <2>3 DEF AnswerIsKnown, Succeeded
  <2>5. jobs # <<>> /\ executor' = executor
    BY <1>5
  <2>6. loop'.at # "wait"
    BY <1>6 DEF Co!Returns, Co!Idle
  <2> QED BY <1>4, <2>4, <2>5, <2>6, CarryOver DEF CommandInv
<1>7. CASE ~r.fg
  <2>1. UNCHANGED <<last, loop>>
    BY <1>7 DEF Co!Returns
  <2>2. jobs # <<>> /\ executor' = executor
    BY <1>5
  <2> QED BY <1>4, <2>1, <2>2, CarryOver DEF CommandInv
<1> QED BY <1>6, <1>7

LEMMA ExecuteStep ==
  ASSUME CommandInv, NEW j \in DOMAIN jobs, Co!Execute(j)
  PROVE  CommandInv'
<1>1. jobs[j] \in JobRecords /\ Settled(jobs[j]) /\ UNCHANGED <<kind, executor, box>>
  BY JobIsRecord DEF Co!Execute
<1>2. jobs # <<>> /\ Co!Output(j) \in {"none", "part", "whole"}
  BY DEF CommandInv, Co!Output
<1>3. ASSUME JobsCarryOver, UNCHANGED <<last, loop>> PROVE CommandInv'
  BY <1>1, <1>2, <1>3, CarryOver DEF CommandInv
<1>4. ASSUME jobs[j].at # "returned", NEW out \in {"none", "part", "whole"}, Co!Returns(j, out, TRUE)
      PROVE  CommandInv'
  BY <1>1, <1>4, JobReturns
<1>5. ASSUME jobs[j].at # "returned", NEW out \in {"none", "part", "whole"},
             NEW err \in BOOLEAN, Co!Returns(j, out, err),
             jobs[j].proc = "exited", out = "whole"
      PROVE  CommandInv'
  BY <1>1, <1>5, JobReturns
<1>6. Co!Quiet(j) /\ jobs[j].proc # "killed" => jobs[j].proc = "exited" /\ Co!Output(j) = "whole"
  BY DEF Co!Quiet, Co!Output
<1>7. (jobs[j].cmd.exit # 0) \in BOOLEAN
  OBVIOUS
<1>8. CASE kind = "local" /\ Co!Local(j)
  <2>1. CASE jobs[j].at = "begin" /\ interrupted
    <3>1. Co!Returns(j, "none", TRUE)
      BY <1>8, <2>1 DEF Co!Local
    <3> QED BY <1>4, <2>1, <3>1
  <2>2. CASE jobs[j].at = "begin" /\ ~interrupted
    <3>1. Co!Starts(j) /\ UNCHANGED <<last, loop>>
      BY <1>8, <2>2 DEF Co!Local
    <3> QED BY <1>1, <1>3, <2>2, <3>1, JobMoves
  <2>3. CASE jobs[j].at = "attached" /\ ~Co!Quiet(j)
    <3>1. jobs' = [jobs EXCEPT ![j].proc = "killed"] /\ UNCHANGED <<last, loop>>
      BY <1>8, <2>3 DEF Co!Local
    <3> QED BY <1>1, <1>3, <1>8, <2>3, <3>1, JobMoves
  <2>4. CASE jobs[j].at = "attached" /\ Co!Quiet(j)
    <3>1. Co!Returns(j, Co!Output(j), jobs[j].proc = "killed" \/ jobs[j].cmd.exit # 0)
      BY <1>8, <2>4 DEF Co!Local, Co!Quiet
    <3>2. CASE jobs[j].proc = "killed"
      <4>1. Co!Returns(j, Co!Output(j), TRUE)
        BY <3>1, <3>2
      <4> QED BY <1>2, <1>4, <2>4, <4>1
    <3>3. CASE jobs[j].proc # "killed"
      <4>1. Co!Returns(j, Co!Output(j), jobs[j].cmd.exit # 0)
        BY <3>1, <3>3
      <4> QED BY <1>2, <1>5, <1>6, <1>7, <2>4, <3>3, <4>1
    <3> QED BY <3>2, <3>3
  <2> QED BY <1>8, <2>1, <2>2, <2>3, <2>4 DEF Co!Local
<1>9. CASE kind = "docker" /\ Co!DockerAttach(j)
  <2>1. jobs[j].at = "begin"
    BY <1>9 DEF Co!DockerAttach
  <2>2. CASE Co!Starts(j) /\ UNCHANGED <<loop, last>>
    BY <1>1, <1>3, <2>1, <2>2, JobMoves
  <2>3. CASE Co!Returns(j, "none", TRUE)
    BY <1>4, <2>1, <2>3
  <2> QED BY <1>9, <2>2, <2>3 DEF Co!DockerAttach
<1>10. CASE kind = "docker" /\ Co!DockerCopy(j)
  <2>1. CASE jobs[j].at = "attached"
    <3>1. Co!Quiet(j) /\ jobs' = [jobs EXCEPT ![j].at = "ended"] /\ UNCHANGED <<loop, last>>
      BY <1>10, <2>1 DEF Co!DockerCopy
    <3> QED BY <1>1, <1>3, <2>1, <3>1, JobMoves
  <2>2. CASE jobs[j].at = "ended" /\ Co!Returns(j, Co!Output(j), TRUE)
    BY <1>2, <1>4, <2>2
  <2>3. CASE jobs[j].at = "ended" /\ box = "running" /\ Co!Returns(j, Co!Output(j), jobs[j].cmd.exit # 0)
    <3>1. jobs[j].proc # "killed" /\ Co!Quiet(j)
      BY <1>1, <1>10, <2>3 DEF Settled, Co!Quiet, JobRecords
    <3> QED BY <1>2, <1>5, <1>6, <1>7, <2>3, <3>1
  <2> QED BY <1>10, <2>1, <2>2, <2>3 DEF Co!DockerCopy
<1>11. CASE kind = "ssm" /\ Co!SSMSend(j)
  <2>1. jobs[j].at = "begin"
    BY <1>11 DEF Co!SSMSend
  <2>2. CASE Co!Starts(j) /\ UNCHANGED <<loop, last>>
    BY <1>1, <1>3, <2>1, <2>2, JobMoves
  <2>3. CASE Co!Returns(j, "none", TRUE)
    BY <1>4, <2>1, <2>3
  <2> QED BY <1>11, <2>2, <2>3 DEF Co!SSMSend
<1>12. CASE kind = "ssm" /\ Co!SSMPoll(j)
  <2>1. jobs[j].at = "attached"
    BY <1>12 DEF Co!SSMPoll
  <2>2. CASE Co!Polled(j) /\ Co!Returns(j, "whole", FALSE)
    <3>1. jobs[j].proc = "exited"
      BY <1>1, <1>12, <2>1, <2>2 DEF Settled, Co!Polled, JobRecords
    <3> QED BY <1>5, <2>1, <2>2, <3>1
  <2>3. CASE Co!Returns(j, "none", TRUE)
    BY <1>4, <2>1, <2>3
  <2> QED BY <1>12, <2>2, <2>3 DEF Co!SSMPoll
<1>13. CASE kind = "kubectl" /\ Co!KubeStream(j)
  <2>1. CASE jobs[j].at = "begin" /\ Co!Starts(j) /\ UNCHANGED <<loop, last>>
    BY <1>1, <1>3, <2>1, JobMoves
  <2>2. CASE jobs[j].at \in {"begin", "attached"} /\ \E out \in {"none", "part"} : Co!Returns(j, out, TRUE)
    BY <1>4, <2>2
  <2>3. CASE jobs[j].at = "attached" /\ Co!Quiet(j) /\ Co!Returns(j, Co!Output(j), jobs[j].cmd.exit # 0)
    <3>1. jobs[j].proc # "killed"
      BY <1>1, <1>13 DEF Settled
    <3> QED BY <1>2, <1>5, <1>6, <1>7, <2>3, <3>1
  <2> QED BY <1>13, <2>1, <2>2, <2>3 DEF Co!KubeStream
<1> QED BY <1>8, <1>9, <1>10, <1>11, <1>12, <1>13 DEF Co!Execute

\* A new command has not begun.
LEMMA JobAdded ==
  ASSUME CommandInv, NEW r \in JobRecords, jobs' = Append(jobs, r), UNCHANGED <<kind, box>>,
         r.at = "begin", ~r.done, r.proc = "none"
  PROVE  JobsCarryOver
<1>1. jobs \in Seq(JobRecords) /\ jobs' \in Seq(JobRecords)
  BY DEF CommandInv
<1>2. Len(jobs') = Len(jobs) + 1 /\ jobs'[Len(jobs) + 1] = r
  BY <1>1
<1>3. \A i \in DOMAIN jobs : i \in DOMAIN jobs' /\ jobs'[i] = jobs[i]
  BY <1>1
<1>4. (\A i \in DOMAIN jobs : Settled(jobs[i]))'
  <2>1. \A i \in DOMAIN jobs' : i \in DOMAIN jobs \/ i = Len(jobs) + 1
    BY <1>1, <1>2
  <2>2. Settled(r)
    BY DEF Settled
  <2>3. \A i \in DOMAIN jobs' : Settled(jobs'[i])
    BY <1>2, <1>3, <2>1, <2>2 DEF CommandInv
  <2> QED BY <2>3 DEF Settled
<1> QED BY <1>1, <1>3, <1>4 DEF JobsCarryOver

\* A call answers with the state of its job.
LEMMA JobAnswers ==
  ASSUME CommandInv, NEW j \in DOMAIN jobs, Co!Answer(j), UNCHANGED jobs
  PROVE  AnswerIsKnown'
<1>1. last'.job = j
  BY DEF Co!Answer
<1>2. ASSUME last'.status = "completed" PROVE Succeeded(jobs[j]) /\ last'.out = jobs[j].out
  <2>1. jobs[j].done
    BY <1>2 DEF Co!Answer
  <2>2. ~jobs[j].err
    BY <1>2, <2>1 DEF Co!Answer, Co!Status
  <2> QED BY <2>1, <2>2 DEF Co!Answer, Succeeded
<1> QED BY <1>1, <1>2 DEF AnswerIsKnown

\* A container that is removed kills what runs in it; a local process, and one
\* in a container that stays, go on.
LEMMA CloseStep ==
  ASSUME CommandInv, Co!Close, UNCHANGED kind
  PROVE  JobsCarryOver
<1>1. CASE UNCHANGED <<box, jobs>>
  BY <1>1, JobsSame
<1>2. ASSUME kind = "docker", box' = "removed",
             jobs' = [j \in DOMAIN jobs |->
               [jobs[j] EXCEPT !.child = FALSE,
                               !.proc = IF @ = "running" THEN "killed" ELSE @]]
      PROVE  JobsCarryOver
  <2> DEFINE Closed(r) == [r EXCEPT !.child = FALSE,
                                    !.proc = IF @ = "running" THEN "killed" ELSE @]
  <2>1. \A r \in JobRecords : Closed(r) \in JobRecords
    BY DEF JobRecords
  <2>2. DOMAIN jobs' = DOMAIN jobs /\ \A j \in DOMAIN jobs : jobs'[j] = Closed(jobs[j])
    BY <1>2
  <2>3. \A j \in DOMAIN jobs : jobs[j] \in JobRecords
    BY JobIsRecord
  <2>4. jobs' \in Seq(JobRecords)
    <3>1. jobs \in Seq(JobRecords) /\ DOMAIN jobs = 1..Len(jobs) /\ Len(jobs) \in Nat
      BY DEF CommandInv
    <3>2. jobs' = [j \in DOMAIN jobs |-> Closed(jobs[j])]
      BY <1>2
    <3> HIDE DEF Closed
    <3>3. jobs' \in [1..Len(jobs) -> JobRecords]
      BY <2>1, <2>3, <3>1, <3>2
    <3> QED BY <3>1, <3>3
  <2>6. (\A j \in DOMAIN jobs : Settled(jobs[j]))'
    <3>1. ASSUME NEW r \in JobRecords, Settled(r), NEW s, s = Closed(r)
          PROVE  /\ s.done <=> s.at = "returned"
                 /\ s.at \in {"attached", "ended"} => s.proc # "none"
                 /\ s.at = "ended" => s.proc # "running" /\ ~s.child
                 /\ s.done /\ ~s.err => s.proc = "exited" /\ s.out = "whole"
      BY <3>1 DEF Settled, JobRecords
    <3> HIDE DEF Closed
    <3>2. \A j \in DOMAIN jobs : Settled(jobs[j])
      BY JobIsRecord
    <3>3. kind' = "docker" /\ box' = "removed"
      BY <1>2
    <3> QED BY <2>2, <2>3, <3>1, <3>2, <3>3 DEF Settled
  <2>5. \A j \in DOMAIN jobs : Succeeded(jobs[j]) =>
          Succeeded(jobs'[j]) /\ jobs'[j].out = jobs[j].out
    BY <2>2, <2>3, JobIsRecord DEF Settled, Succeeded, JobRecords
  <2> HIDE DEF Closed
  <2> QED BY <2>2, <2>4, <2>5, <2>6 DEF JobsCarryOver
<1> QED BY <1>1, <1>2 DEF Co!Close, Co!Jobs

LEMMA CommandsNext ==
  ASSUME CommandInv, Co!Next \/ UNCHANGED Co!vars
  PROVE  CommandInv'
<1> USE DEF Co!Jobs
<1>0. /\ jobs \in Seq(JobRecords)
      /\ executor \in {"none", "created"} => jobs = <<>>
      /\ loop.at = "wait" => loop.job \in DOMAIN jobs
  BY DEF CommandInv
\* An action that leaves the jobs and their executor.
<1>1. ASSUME UNCHANGED <<jobs, kind, box, executor>>, AnswerIsKnown' \/ UNCHANGED last,
             loop'.at = "wait" => loop'.job \in DOMAIN jobs
      PROVE  CommandInv'
  <2>1. JobsCarryOver
    BY <1>1, JobsSame
  <2> QED BY <1>0, <1>1, <2>1, CarryOver
\* A command is started.
<1>2. ASSUME NEW r \in JobRecords, jobs' = Append(jobs, r), UNCHANGED <<kind, box, executor, last>>,
             executor = "open", loop'.at # "wait" \/ loop' = loop,
             r.at = "begin", ~r.done, r.proc = "none"
      PROVE  CommandInv'
  <2>1. JobsCarryOver
    BY <1>2, JobAdded
  <2>2. loop'.at = "wait" => loop'.job \in DOMAIN jobs
    BY <1>0, <1>2
  <2>3. executor' \notin {"none", "created"}
    BY <1>2
  <2> QED BY <1>2, <2>1, <2>2, <2>3, CarryOver
<1>3. ASSUME NEW c \in Commands
      PROVE  /\ Co!Spawn(c) \in JobRecords /\ [Co!Spawn(c) EXCEPT !.fg = TRUE] \in JobRecords
             /\ Co!Spawn(c).at = "begin" /\ ~Co!Spawn(c).done /\ Co!Spawn(c).proc = "none"
             /\ [Co!Spawn(c) EXCEPT !.fg = TRUE].at = "begin"
             /\ ~[Co!Spawn(c) EXCEPT !.fg = TRUE].done
             /\ [Co!Spawn(c) EXCEPT !.fg = TRUE].proc = "none"
  BY DEF Co!Spawn, JobRecords
<1>4. CASE Co!New
  <2>1. jobs = <<>> /\ UNCHANGED <<kind, jobs, last>>
    BY <1>0, <1>4 DEF Co!New, Co!newDockerExecutor, Co!newSSMExecutor, Co!NewKubeExecutor
  <2>2. loop'.at = "wait" => loop' = loop
    BY <1>4 DEF Co!New, Co!Idle
  <2>3. JobsCarryOver
    BY <2>1 DEF JobsCarryOver
  <2> QED BY <1>0, <2>1, <2>2, <2>3, CarryOver
<1>5. CASE Co!bashTool
  <2>1. PICK c \in Commands : jobs' = Append(jobs, [Co!Spawn(c) EXCEPT !.fg = TRUE])
    BY <1>5 DEF Co!bashTool
  <2>2. executor = "open" /\ loop'.at # "wait" /\ UNCHANGED <<kind, box, executor, last>>
    BY <1>5 DEF Co!bashTool, Co!MayCall
  <2> QED BY <1>2, <1>3, <2>1, <2>2
<1>6. CASE Co!bashBackgroundTool
  <2>1. PICK c \in Commands : jobs' = Append(jobs, Co!Spawn(c))
    BY <1>6 DEF Co!bashBackgroundTool
  <2>2. executor = "open" /\ loop' = loop /\ UNCHANGED <<kind, box, executor, last>>
    BY <1>6 DEF Co!bashBackgroundTool, Co!MayCall
  <2> QED BY <1>2, <1>3, <2>1, <2>2
<1>7. CASE Co!bashOutputTool
  <2>1. PICK j \in DOMAIN jobs : \/ Co!Answer(j) /\ UNCHANGED loop
                                 \/ loop' = [at |-> "wait", job |-> j] /\ UNCHANGED last
    BY <1>7 DEF Co!bashOutputTool
  <2>2. UNCHANGED <<kind, executor, box, jobs>>
    BY <1>7 DEF Co!bashOutputTool
  <2>3. CASE Co!Answer(j) /\ UNCHANGED loop
    BY <1>0, <1>1, <2>2, <2>3, JobAnswers
  <2>4. CASE loop' = [at |-> "wait", job |-> j] /\ UNCHANGED last
    BY <1>1, <2>2, <2>4
  <2> QED BY <2>1, <2>3, <2>4
<1>8. CASE Co!WaitEnds
  <2>1. loop.job \in DOMAIN jobs /\ Co!Answer(loop.job) /\ loop'.at # "wait"
    BY <1>0, <1>8 DEF Co!WaitEnds, Co!Idle
  <2>2. UNCHANGED <<kind, executor, box, jobs>>
    BY <1>8 DEF Co!WaitEnds
  <2> QED BY <1>1, <2>1, <2>2, JobAnswers
<1>9. CASE Co!LoopReturns
  <2>1. JobsCarryOver
    BY <1>9, CloseStep DEF Co!LoopReturns
  <2>2. executor' = "closed" /\ loop'.at # "wait" /\ UNCHANGED last
    BY <1>9 DEF Co!LoopReturns, Co!Idle
  <2> QED BY <2>1, <2>2, CarryOver
<1>10. CASE Co!Executing
  BY <1>10, ExecuteStep DEF Co!Executing
<1>11. CASE Co!World
  <2>1. UNCHANGED <<kind, executor, box, loop, last>>
    BY <1>11 DEF Co!World
  <2>2. PICK j \in DOMAIN jobs :
          \/ jobs[j].proc = "running" /\ jobs' = [jobs EXCEPT ![j].proc = "exited"]
          \/ jobs[j].child /\ jobs' = [jobs EXCEPT ![j].child = FALSE]
    BY <1>11 DEF Co!World
  <2>3. jobs[j] \in JobRecords /\ Settled(jobs[j])
    BY JobIsRecord
  <2>4. ASSUME jobs[j].proc = "running", jobs' = [jobs EXCEPT ![j].proc = "exited"]
        PROVE  JobsCarryOver
    <3> DEFINE r == jobs[j]
               q == [r EXCEPT !.proc = "exited"]
    <3>1. q \in JobRecords /\ Settled(q) /\ ~Succeeded(r)
      BY <2>3, <2>4 DEF JobRecords, Settled, Succeeded
    <3>2. jobs' = [jobs EXCEPT ![j] = q]
      BY <2>4
    <3> HIDE DEF q, r
    <3> QED BY <2>1, <3>1, <3>2, JobStep DEF r
  <2>5. ASSUME jobs[j].child, jobs' = [jobs EXCEPT ![j].child = FALSE]
        PROVE  JobsCarryOver
    <3> DEFINE r == jobs[j]
               q == [r EXCEPT !.child = FALSE]
    <3>1. q \in JobRecords /\ Settled(q) /\ (Succeeded(r) => Succeeded(q)) /\ q.out = r.out
      BY <2>3, <2>5 DEF JobRecords, Settled, Succeeded
    <3>2. jobs' = [jobs EXCEPT ![j] = q]
      BY <2>5
    <3> HIDE DEF q, r
    <3> QED BY <2>1, <3>1, <3>2, JobStep DEF r
  <2>6. jobs # <<>>
    BY <1>0
  <2> QED BY <1>0, <2>1, <2>2, <2>4, <2>5, <2>6, CarryOver
<1>12. CASE Co!Breaks
  <2>1. PICK j \in DOMAIN jobs : jobs[j].at = "attached" /\ Co!Returns(j, "none", TRUE)
    BY <1>12 DEF Co!Breaks
  <2>2. UNCHANGED <<kind, executor, box>>
    BY <1>12 DEF Co!Breaks
  <2> QED BY <2>1, <2>2, JobReturns
<1>13. CASE Co!Enforce \/ Co!Interrupt \/ UNCHANGED Co!vars
  <2>1. UNCHANGED <<kind, executor, box, jobs, loop, last>>
    BY <1>13 DEF Co!Enforce, Co!Interrupt, Co!vars
  <2> QED BY <1>0, <1>1, <2>1
<1> QED BY <1>4, <1>5, <1>6, <1>7, <1>8, <1>9, <1>10, <1>11, <1>12, <1>13 DEF Co!Next

\* A command that a run is told is completed has ended by itself and was reported
\* whole, for all four executors, whatever is killed, broken off, closed or
\* interrupted, and whoever waits (tools/bgcmd.go Spawn, executor/).
THEOREM AnswersSound == Co!Spec => []AnswersAreFinal
<1>1. Co!Init => CommandInv
  BY DEF Co!Init, CommandInv, AnswerIsKnown, NoAnswer, Co!NoAnswer, Co!Idle
<1>2. CommandInv /\ [Co!Next]_(Co!vars) => CommandInv'
  BY CommandsNext
<1>3. CommandInv => AnswersAreFinal
  BY DEF CommandInv, AnswerIsKnown, AnswersAreFinal, Succeeded, Settled
<1> QED BY <1>1, <1>2, <1>3, PTL DEF Co!Spec

-----------------------------------------------------------------------------
(***************************************************************************)
(* What a run may do that another started: Delegation, for every manifest,  *)
(* command line, config file and environment, and chains of any length.     *)
(***************************************************************************)
CONSTANTS Manifest, Stages, Flags, Configs, Envs, TaskModes, MaxDepth
VARIABLES env, config, attempt

De == INSTANCE Delegation WITH Modes <- TaskModes, last <- attempt

\* What the arguments below look at of a run's options and of its bundle.
IsOptions(o) ==
  /\ {"mode", "iter", "explicit"} \subseteq DOMAIN o
  /\ o.iter \in Int /\ o.explicit \in BOOLEAN

IsBundle(b) ==
  /\ {"models", "iter", "caps", "comments"} \subseteq DOMAIN b
  /\ b.models \in Seq(Range(b.models))
  /\ b.iter \in Int /\ b.comments \in BOOLEAN
  /\ \A c \in DOMAIN b.caps : b.caps[c] \in Int

IsFrame(fr) ==
  /\ IsOptions(fr.opts) /\ fr.opts.iter > 0
  /\ IsBundle(fr.bundle)
  /\ fr.limits \in [readonly : BOOLEAN, comments : BOOLEAN]
  /\ ~IsAgenticCLI(fr.provider) /\ fr.opts.explicit => fr.cap = fr.opts.iter

\* The runs from the i-th on start a child that they have no cap for, up to the j-th.
Uncapped(s, i, j) ==
  \A k \in i..(j - 1) : ChildMaxIterations(s[k].bundle, s[k + 1].agent) = 0

\* A run below another has its limits, and its cap where no budget replaces it.
Below(s, i, j) ==
  /\ s[i].limits.readonly => s[j].limits.readonly
  /\ s[i].limits.comments => s[j].limits.comments
  /\ s[i].opts.explicit /\ Uncapped(s, i, j) =>
       s[j].opts.explicit /\ s[j].opts.iter <= s[i].opts.iter

\* A chain of invocations; a CLI starts none.
IsChain(s) ==
  /\ s \in Seq(Range(s))
  /\ \A i \in DOMAIN s : IsFrame(s[i]) /\ (IsAgenticCLI(s[i].provider) => i = Len(s))
  /\ \A i, j \in DOMAIN s : i < j => Below(s, i, j)

DelegationInv ==
  /\ config \in Configs
  /\ IsChain(frames)
  /\ frames # <<>> =>
       IsAgenticCLI(Last(frames).provider) \/ Allowed(Last(frames), edit)

LEMMA Appended ==
  ASSUME NEW s, s \in Seq(Range(s)), NEW x
  PROVE  /\ Append(s, x) \in Seq(Range(Append(s, x)))
         /\ Len(s) \in Nat /\ DOMAIN s = 1..Len(s)
         /\ Len(Append(s, x)) = Len(s) + 1 /\ DOMAIN Append(s, x) = 1..(Len(s) + 1)
         /\ Append(s, x)[Len(s) + 1] = x
         /\ \A i \in DOMAIN s : Append(s, x)[i] = s[i]
<1> DEFINE T == Range(s) \cup {x}
           t == Append(s, x)
<1>1. s \in Seq(T)
  OBVIOUS
<1>2. Len(s) \in Nat /\ DOMAIN s = 1..Len(s) /\ t \in Seq(T)
  <2> HIDE DEF T
  <2> QED BY <1>1 DEF T
<1>3. Len(t) = Len(s) + 1 /\ DOMAIN t = 1..(Len(s) + 1) /\ t[Len(s) + 1] = x
      /\ \A i \in DOMAIN s : t[i] = s[i]
  BY <1>1
<1>4. t \in Seq(Range(t))
  <2> HIDE DEF t, T
  <2>1. t \in [1..Len(t) -> Range(t)] /\ Len(t) \in Nat
    BY <1>2 DEF Range
  <2> QED BY <2>1
<1> QED BY <1>2, <1>3, <1>4

LEMMA Fronted ==
  ASSUME NEW s, s \in Seq(Range(s)), s # <<>>
  PROVE  /\ Front(s) \in Seq(Range(Front(s)))
         /\ Len(s) \in Nat \ {0} /\ DOMAIN s = 1..Len(s)
         /\ Len(Front(s)) = Len(s) - 1 /\ DOMAIN Front(s) = 1..(Len(s) - 1)
         /\ \A i \in 1..(Len(s) - 1) : Front(s)[i] = s[i]
<1> DEFINE T == Range(s)
           t == Front(s)
<1>1. Len(s) \in Nat \ {0} /\ DOMAIN s = 1..Len(s)
  OBVIOUS
<1>2. Len(t) = Len(s) - 1 /\ DOMAIN t = 1..(Len(s) - 1) /\ t \in Seq(T)
      /\ \A i \in 1..(Len(s) - 1) : t[i] = s[i]
  BY <1>1 DEF Front
<1>3. t \in Seq(Range(t))
  <2> HIDE DEF t, T
  <2>1. t \in [1..Len(t) -> Range(t)] /\ Len(t) \in Nat
    BY <1>1, <1>2 DEF Range
  <2> QED BY <2>1
<1> QED BY <1>1, <1>2, <1>3

\* A child that is started under the last run of a chain.
LEMMA ChainExtends ==
  ASSUME NEW s, IsChain(s), NEW fr, IsFrame(fr),
         s # <<>> =>
           /\ ~IsAgenticCLI(Last(s).provider)
           /\ Last(s).limits.readonly => fr.limits.readonly
           /\ Last(s).limits.comments => fr.limits.comments
           /\ Last(s).opts.explicit /\ ChildMaxIterations(Last(s).bundle, fr.agent) = 0 =>
                fr.opts.explicit /\ fr.opts.iter <= Last(s).opts.iter
  PROVE  IsChain(Append(s, fr))
<1> DEFINE t == Append(s, fr)
           n == Len(s)
<1>1. /\ t \in Seq(Range(t)) /\ n \in Nat /\ DOMAIN s = 1..n
      /\ Len(t) = n + 1 /\ DOMAIN t = 1..(n + 1) /\ t[n + 1] = fr
      /\ \A i \in 1..n : t[i] = s[i]
  BY Appended DEF IsChain
<1> HIDE DEF t, n
<1>2. n # 0 => s # <<>> /\ Last(s) = s[n] /\ n \in DOMAIN s
  BY <1>1 DEF n, Last
<1>3. \A i \in 1..(n + 1) : i \in 1..n \/ i = n + 1
  BY <1>1
<1>4. ASSUME NEW i \in DOMAIN t PROVE IsFrame(t[i]) /\ (IsAgenticCLI(t[i].provider) => i = Len(t))
  <2>1. CASE i = n + 1
    BY <1>1, <2>1
  <2>2. CASE i \in 1..n
    <3>1. n # 0 /\ IsFrame(s[i]) /\ (IsAgenticCLI(s[i].provider) => i = n)
      BY <1>1, <2>2 DEF IsChain, n
    <3> QED BY <1>1, <1>2, <2>2, <3>1
  <2> QED BY <1>1, <1>3, <2>1, <2>2
<1>5. ASSUME NEW i \in 1..n, NEW j \in 1..n, i < j PROVE Below(t, i, j)
  <2>1. Below(s, i, j)
    BY <1>1, <1>5 DEF IsChain
  <2>2. \A k \in i..(j - 1) : k \in 1..n /\ k + 1 \in 1..n
    BY <1>1
  <2>3. Uncapped(t, i, j) => Uncapped(s, i, j)
    BY <1>1, <2>2 DEF Uncapped
  <2> QED BY <1>1, <2>1, <2>3 DEF Below
<1>6. ASSUME NEW i \in 1..n PROVE Below(t, i, n + 1)
  <2>1. n # 0 /\ n \in 1..n
    BY <1>1
  <2>2. i = n \/ Below(s, i, n)
    <3>1. i = n \/ i < n
      BY <1>1
    <3>2. i \in DOMAIN s /\ n \in DOMAIN s
      BY <1>1, <2>1
    <3> QED BY <3>1, <3>2 DEF IsChain
  <2>3. /\ s[i].limits.readonly => s[n].limits.readonly
        /\ s[i].limits.comments => s[n].limits.comments
    BY <2>2 DEF Below
  <2>4. /\ s[i].limits.readonly => fr.limits.readonly
        /\ s[i].limits.comments => fr.limits.comments
    BY <1>2, <2>1, <2>3
  <2>5. ASSUME s[i].opts.explicit, Uncapped(t, i, n + 1)
        PROVE  fr.opts.explicit /\ fr.opts.iter <= s[i].opts.iter
    <3>1. \A k \in i..(n - 1) : k \in i..n /\ k \in 1..n /\ k + 1 \in 1..n
      BY <1>1
    <3>2. n \in i..((n + 1) - 1) /\ (n + 1) - 1 = n
      BY <1>1
    <3>3. Uncapped(s, i, n)
      BY <1>1, <2>5, <3>1, <3>2 DEF Uncapped
    <3>4. s[n].opts.explicit /\ s[n].opts.iter <= s[i].opts.iter
      <4>1. CASE i = n
        <5>1. s[n].opts.iter \in Int
          BY <1>1, <2>1 DEF IsChain, IsFrame, IsOptions
        <5> QED BY <2>5, <4>1, <5>1
      <4>2. CASE i # n
        BY <2>2, <2>5, <3>3, <4>2 DEF Below
      <4> QED BY <4>1, <4>2
    <3>5. ChildMaxIterations(s[n].bundle, fr.agent) = 0
      BY <1>1, <2>1, <2>5, <3>2 DEF Uncapped
    <3>6. fr.opts.explicit /\ fr.opts.iter <= s[n].opts.iter
      BY <1>2, <2>1, <3>4, <3>5
    <3>7. s[n].opts.iter \in Int /\ s[i].opts.iter \in Int /\ fr.opts.iter \in Int
      BY <1>1, <2>1 DEF IsChain, IsFrame, IsOptions
    <3> QED BY <3>4, <3>6, <3>7
  <2> QED BY <1>1, <2>4, <2>5 DEF Below
<1>7. ASSUME NEW i \in DOMAIN t, NEW j \in DOMAIN t, i < j PROVE Below(t, i, j)
  <2>1. i \in 1..n /\ (j \in 1..n \/ j = n + 1)
    BY <1>1, <1>7
  <2> QED BY <1>5, <1>6, <1>7, <2>1
<1>8. IsChain(t)
  BY <1>1, <1>4, <1>7 DEF IsChain
<1> QED BY <1>8 DEF t

LEMMA ChainFront ==
  ASSUME NEW s, IsChain(s), s # <<>>
  PROVE  IsChain(Front(s)) /\ \A i \in DOMAIN Front(s) : ~IsAgenticCLI(s[i].provider)
<1> DEFINE t == Front(s)
           n == Len(s) - 1
<1>1. /\ t \in Seq(Range(t)) /\ n \in Nat /\ Len(s) = n + 1 /\ DOMAIN s = 1..(n + 1)
      /\ Len(t) = n /\ DOMAIN t = 1..n
      /\ \A i \in 1..n : t[i] = s[i]
  BY Fronted DEF IsChain
<1> HIDE DEF t, n
<1>2. ASSUME NEW i \in 1..n
      PROVE  i \in DOMAIN s /\ IsFrame(s[i]) /\ ~IsAgenticCLI(s[i].provider)
  <2>1. i \in DOMAIN s /\ i # Len(s)
    BY <1>1
  <2> QED BY <2>1 DEF IsChain
<1>3. ASSUME NEW i \in 1..n, NEW j \in 1..n, i < j PROVE Below(t, i, j)
  <2>1. Below(s, i, j)
    BY <1>2, <1>3 DEF IsChain
  <2>2. \A k \in i..(j - 1) : k \in 1..n /\ k + 1 \in 1..n
    BY <1>1
  <2>3. Uncapped(t, i, j) => Uncapped(s, i, j)
    BY <1>1, <2>2 DEF Uncapped
  <2> QED BY <1>1, <2>1, <2>3 DEF Below
<1>4. IsChain(t)
  BY <1>1, <1>2, <1>3 DEF IsChain
<1> QED BY <1>1, <1>2, <1>4 DEF t

\* What a chain means for the last edit and for the caps.
LEMMA ChainKeepsPromises ==
  ASSUME DelegationInv
  PROVE  LimitsHold /\ CapsBind
<1> DEFINE n == Len(frames)
<1>1. frames \in Seq(Range(frames)) /\ n \in Nat /\ DOMAIN frames = 1..n
  BY DEF DelegationInv, IsChain
<1>2. ASSUME NEW i \in DOMAIN frames
      PROVE  IsAgenticCLI(Last(frames).provider) \/ Allowed(frames[i], edit)
  <2>1. frames # <<>> /\ n \in DOMAIN frames /\ Last(frames) = frames[n]
    BY <1>1 DEF Last
  <2>2. i = n \/ Below(frames, i, n)
    BY <1>1, <2>1 DEF DelegationInv, IsChain
  <2>3. frames[i].limits \in [readonly : BOOLEAN, comments : BOOLEAN]
    BY DEF DelegationInv, IsChain, IsFrame
  <2> QED BY <2>1, <2>2, <2>3 DEF DelegationInv, Below, Allowed
<1>3. ASSUME NEW i \in DOMAIN frames, NEW j \in DOMAIN frames, i < j,
             ~IsAgenticCLI(frames[j].provider), frames[i].opts.explicit,
             Uncapped(frames, i, j)
      PROVE  frames[j].cap <= frames[i].cap
  <2>1. frames[j].opts.explicit /\ frames[j].opts.iter <= frames[i].opts.iter
    BY <1>3 DEF DelegationInv, IsChain, Below
  <2>2. i # n
    BY <1>1, <1>3
  <2>3. IsFrame(frames[i]) /\ IsFrame(frames[j]) /\ ~IsAgenticCLI(frames[i].provider)
    BY <2>2 DEF DelegationInv, IsChain
  <2>4. frames[j].cap = frames[j].opts.iter /\ frames[i].cap = frames[i].opts.iter
    BY <1>3, <2>1, <2>3 DEF IsFrame
  <2> QED BY <2>1, <2>4
<1>4. LimitsHold
  BY <1>2 DEF LimitsHold
<1>5. CapsBind
  BY <1>3 DEF CapsBind, Uncapped
<1> QED BY <1>4, <1>5

-----------------------------------------------------------------------------
(* How options are filled in: neither the mode nor the cap is touched.      *)

KeepsBudget(o, r) ==
  r.iter = o.iter /\ r.explicit = o.explicit /\ r.mode = o.mode /\ DOMAIN r = DOMAIN o

\* One of the functions below resolves the model.
LEMMA ResolvesTo ==
  ASSUME NEW o, NEW b
  PROVE  \/ De!ResolveModelPrecedence(o, b) \in
              {De!applyExplicitModel(o, b), De!applyConfigDefault(o, b),
               De!applyConfigDefaultUnauthenticated(o, b),
               De!applyManifestTopUnauthenticated(o, b), De!applyLegacyBundleFallback(o, b)}
         \/ \E p : De!ResolveModelPrecedence(o, b) = De!applyAgenticCLIModel(o, b, p)
         \/ \E i : De!ResolveModelPrecedence(o, b) = De!UseEntry(o, b, i)
<1>1. CASE o.model # ""
  <2>1. De!ChosenByUser(o)
    BY <1>1 DEF De!ChosenByUser
  <2> QED BY <1>1, <2>1 DEF De!ResolveModelPrecedence
<1>2. CASE o.model = "" /\ De!ChosenByUser(o)
  BY <1>2 DEF De!ResolveModelPrecedence
<1>3. CASE o.model = "" /\ ~De!ChosenByUser(o)
  <2>1. CASE o.cmodel # "" /\ ~De!KeyMissing(o.cprovider, o.token)
    BY <1>3, <2>1 DEF De!ResolveModelPrecedence
  <2>2. CASE o.cmodel = "" \/ De!KeyMissing(o.cprovider, o.token)
    <3> DEFINE i == De!walkManifestForCreds(o, b)
    <3>1. De!ResolveModelPrecedence(o, b) =
            CASE i # 0 -> De!UseEntry(o, b, i)
              [] i = 0 /\ o.cmodel # "" -> De!applyConfigDefaultUnauthenticated(o, b)
              [] i = 0 /\ o.cmodel = "" /\ o.dry /\ b.models # <<>> ->
                   De!applyManifestTopUnauthenticated(o, b)
              [] OTHER -> De!applyLegacyBundleFallback(o, b)
      BY <1>3, <2>2 DEF De!ResolveModelPrecedence
    <3> HIDE DEF i
    <3> QED BY <3>1
  <2> QED BY <2>1, <2>2
<1> QED BY <1>1, <1>2, <1>3

LEMMA ResolveKeeps ==
  ASSUME NEW o, NEW b, {"mode", "iter", "explicit"} \subseteq DOMAIN o
  PROVE  KeepsBudget(o, De!ResolveModelPrecedence(o, b))
<1>1. KeepsBudget(o, De!applyExplicitModel(o, b))
  BY DEF KeepsBudget, De!applyExplicitModel
<1>2. \A p : KeepsBudget(o, De!applyAgenticCLIModel(o, b, p))
  BY DEF KeepsBudget, De!applyAgenticCLIModel
<1>3. KeepsBudget(o, De!UseConfig(o, b))
  BY DEF KeepsBudget, De!UseConfig
<1>4. KeepsBudget(o, De!applyConfigDefault(o, b))
  BY <1>3 DEF KeepsBudget, De!applyConfigDefault
<1>5. KeepsBudget(o, De!applyConfigDefaultUnauthenticated(o, b))
  BY <1>3 DEF KeepsBudget, De!applyConfigDefaultUnauthenticated
<1>6. \A i : KeepsBudget(o, De!UseEntry(o, b, i))
  BY DEF KeepsBudget, De!UseEntry
<1>7. KeepsBudget(o, De!applyManifestTopUnauthenticated(o, b))
  BY <1>6 DEF KeepsBudget, De!applyManifestTopUnauthenticated
<1>8. KeepsBudget(o, De!applyLegacyBundleFallback(o, b))
  BY DEF KeepsBudget, De!applyLegacyBundleFallback
<1> QED BY <1>1, <1>2, <1>4, <1>5, <1>6, <1>7, <1>8, ResolvesTo

LEMMA ChildModelKeeps ==
  ASSUME NEW o, NEW b, {"mode", "iter", "explicit"} \subseteq DOMAIN o
  PROVE  KeepsBudget(o, De!applyChildModelOverrides(o, b))
BY DEF KeepsBudget, De!applyChildModelOverrides

\* A child's cap is its parent's budget for it, or the options', or less.
LEMMA ChildCap ==
  ASSUME NEW o, IsOptions(o), o.iter > 0, NEW parent, IsBundle(parent), NEW b, IsBundle(b), NEW a
  PROVE  LET c == De!applyChildIterationCap(o, parent, b, a)
         IN  /\ IsOptions(c) /\ c.iter > 0 /\ c.mode = o.mode
             /\ o.explicit /\ ChildMaxIterations(parent, a) = 0 => c.explicit /\ c.iter <= o.iter
<1> DEFINE cap == ChildMaxIterations(parent, a)
           d == IF cap > 0 THEN [o EXCEPT !.iter = cap, !.explicit = TRUE] ELSE o
           c == IF b.iter > 0 /\ (d.iter <= 0 \/ b.iter < d.iter)
                THEN [d EXCEPT !.iter = b.iter, !.explicit = TRUE] ELSE d
<1>1. De!applyChildIterationCap(o, parent, b, a) = c
  BY DEF De!applyChildIterationCap, De!ChildMaxIterations, ChildMaxIterations
<1>2. cap \in Int
  BY DEF ChildMaxIterations, IsBundle
<1>3. IsOptions(d) /\ d.iter > 0 /\ d.mode = o.mode /\ (cap = 0 => d = o)
  <2> HIDE DEF cap
  <2>1. CASE cap > 0
    BY <1>2, <2>1 DEF IsOptions
  <2>2. CASE ~(cap > 0)
    BY <2>2
  <2> QED BY <2>1, <2>2
<1>4. IsOptions(c) /\ c.iter > 0 /\ c.mode = o.mode
  <2> HIDE DEF d
  <2> QED BY <1>3 DEF IsOptions, IsBundle
<1>5. d.explicit => c.explicit /\ c.iter <= d.iter
  <2> HIDE DEF d
  <2> QED BY <1>3 DEF IsOptions, IsBundle
<1>6. o.explicit /\ cap = 0 => c.explicit /\ c.iter <= o.iter
  <2> HIDE DEF d, c, cap
  <2> QED BY <1>3, <1>5
<1> HIDE DEF d, c
<1> QED BY <1>1, <1>4, <1>6

LEMMA Clamped ==
  ASSUME NEW n \in Int
  PROVE  De!clampInt(n, 10, 1000) \in Int /\ De!clampInt(n, 10, 1000) > 0
BY DEF De!clampInt

LEMMA StartOptions ==
  ASSUME De!DelegationAssumption, config \in Configs, NEW f \in Flags, NEW m
  PROVE  /\ IsOptions(De!newRunOptions(f)) /\ De!newRunOptions(f).iter > 0
         /\ IsOptions([De!newRunOptions(f) EXCEPT !.mode = m])
         /\ [De!newRunOptions(f) EXCEPT !.mode = m].iter > 0
         /\ IsOptions([De!buildComposedRunOpts(f) EXCEPT !.mode = m])
         /\ [De!buildComposedRunOpts(f) EXCEPT !.mode = m].iter > 0
<1> DEFINE n == IF f.explicit THEN f.iter ELSE config.iter
<1>1. n \in Int /\ f.explicit \in BOOLEAN
  BY DEF De!DelegationAssumption
<1>2. De!clampInt(n, 10, 1000) \in Int /\ De!clampInt(n, 10, 1000) > 0
  <2> HIDE DEF n
  <2> QED BY <1>1, Clamped
<1>3. /\ De!newRunOptions(f).iter = De!clampInt(n, 10, 1000)
      /\ De!newRunOptions(f).explicit = f.explicit
      /\ {"mode", "iter", "explicit", "dir"} \subseteq DOMAIN De!newRunOptions(f)
  BY DEF De!newRunOptions
<1> HIDE DEF n
<1> QED BY <1>1, <1>2, <1>3 DEF IsOptions, De!buildComposedRunOpts

LEMMA Bundles ==
  ASSUME De!DelegationAssumption
  PROVE  /\ \A a \in De!Agents : IsBundle(De!BuildBundle(a)) /\ IsBundle(De!BuildBundleInline(a))
         /\ IsBundle(De!BuildTransformBundle)
         /\ \A s \in Stages : IsBundle(De!buildAgentBundle(s))
<1>1. ASSUME NEW a \in De!Agents PROVE IsBundle(De!BuildBundle(a))
  BY <1>1 DEF De!DelegationAssumption, De!BuildBundle, IsBundle, De!Range, Range
<1>2. ASSUME NEW a \in De!Agents PROVE IsBundle(De!BuildBundleInline(a))
  <2> DEFINE ms == Manifest[a].models
             ns == [i \in DOMAIN ms |-> [ms[i] EXCEPT !.url = ""]]
  <2>1. ms \in Seq(Range(ms)) /\ Manifest[a].comments \in BOOLEAN
    BY <1>2 DEF De!DelegationAssumption, De!Range, Range
  <2> HIDE DEF ms
  <2>2. DOMAIN ms = 1..Len(ms) /\ Len(ms) \in Nat
    BY <2>1
  <2>3. ns \in [1..Len(ms) -> Range(ns)]
    BY <2>2 DEF Range
  <2> HIDE DEF ns
  <2>4. ns \in Seq(Range(ns))
    BY <2>2, <2>3
  <2>5. De!BuildBundleInline(a).models = ns
    BY DEF De!BuildBundleInline, ms, ns
  <2>6. /\ {"models", "iter", "caps", "comments"} \subseteq DOMAIN De!BuildBundleInline(a)
        /\ De!BuildBundleInline(a).iter = 0 /\ De!BuildBundleInline(a).caps = <<>>
        /\ De!BuildBundleInline(a).comments = Manifest[a].comments
    BY DEF De!BuildBundleInline
  <2> QED BY <2>1, <2>4, <2>5, <2>6 DEF IsBundle
<1>3. IsBundle(De!BuildTransformBundle)
  BY DEF De!BuildTransformBundle, IsBundle, Range
<1>4. \A s, b : IsBundle(b) => IsBundle(De!applyStageMCPOverride(s, b))
  BY DEF De!applyStageMCPOverride, IsBundle
<1>5. \A s \in Stages : s.agent \in De!Agents
  BY DEF De!DelegationAssumption
<1> QED BY <1>1, <1>2, <1>3, <1>4, <1>5 DEF De!buildAgentBundle

-----------------------------------------------------------------------------
(* The steps.                                                               *)

\* Where an invocation starts from: nothing waits, or a run that may delegate.
MayInvoke(a, o) ==
  frames = <<>> \/
    /\ ~IsAgenticCLI(Last(frames).provider)
    /\ Last(frames).opts.explicit /\ ChildMaxIterations(Last(frames).bundle, a) = 0 =>
         o.explicit /\ o.iter <= Last(frames).opts.iter

LEMMA InvokeStep ==
  ASSUME DelegationInv, NEW a, NEW f, NEW o, NEW b, IsOptions(o), o.iter > 0, IsBundle(b),
         MayInvoke(a, o), De!InvokeModel(a, f, o, b), UNCHANGED config, edit' = Nothing
  PROVE  DelegationInv'
<1> DEFINE p == De!normalizeProvider(o.provider)
           lim == De!applyEditRestrictions(De!applyReadOnlyMode(De!Limits, o.mode), b)
           cap == IF De!IsAgenticCLI(p) THEN 0 ELSE De!resolveIterationBudget(o, b)
           mcp == IF De!IsAgenticCLI(p) THEN {} ELSE b.mcp \cup o.mcp
           fr == [agent |-> a, flags |-> f, opts |-> o, bundle |-> b, provider |-> p,
                  limits |-> lim, cap |-> cap, mcp |-> mcp]
<1>1. UNCHANGED frames \/ frames' = Append(frames, fr)
  BY DEF De!InvokeModel, De!Push, De!Fails
<1>2. De!Limits \in [readonly : BOOLEAN, comments : BOOLEAN]
      /\ (frames # <<>> => De!Limits = Last(frames).limits)
  <2>1. CASE frames = <<>>
    BY <2>1 DEF De!Limits, De!NoLimits
  <2>2. CASE frames # <<>>
    <3>1. frames \in Seq(Range(frames))
      BY DEF DelegationInv, IsChain
    <3>2. Len(frames) \in DOMAIN frames
      BY <2>2, <3>1
    <3>3. De!Limits = frames[Len(frames)].limits
      BY <2>2 DEF De!Limits, De!Last
    <3> QED BY <2>2, <3>2, <3>3 DEF DelegationInv, IsChain, IsFrame, Last
  <2> QED BY <2>1, <2>2
<1>3. /\ lim \in [readonly : BOOLEAN, comments : BOOLEAN]
      /\ De!Limits.readonly => lim.readonly
      /\ De!Limits.comments => lim.comments
  BY <1>2 DEF De!applyEditRestrictions, De!applyReadOnlyMode, De!modeRestrictsEdits, IsBundle
<1>4. ~IsAgenticCLI(p) /\ o.explicit => cap = o.iter
  BY DEF IsAgenticCLI, De!IsAgenticCLI, AgenticCLIBinaries, De!AgenticCLIBinaries,
         De!resolveIterationBudget
<1> HIDE DEF p, lim, cap, mcp
<1>5. /\ fr.agent = a /\ fr.opts = o /\ fr.bundle = b /\ fr.provider = p
      /\ fr.limits = lim /\ fr.cap = cap
  OBVIOUS
<1> HIDE DEF fr
<1>6. IsFrame(fr)
  BY <1>3, <1>4, <1>5 DEF IsFrame
<1>7. CASE UNCHANGED frames
  BY <1>7 DEF DelegationInv, Allowed, Last
<1>8. CASE frames' = Append(frames, fr)
  <2>1. IsChain(Append(frames, fr))
    BY <1>2, <1>3, <1>5, <1>6, ChainExtends DEF DelegationInv, MayInvoke
  <2> QED BY <1>8, <2>1 DEF DelegationInv, Allowed
<1> QED BY <1>1, <1>7, <1>8

\* A call that is refused leaves the chain.
LEMMA RefusedStep ==
  ASSUME DelegationInv, NEW why, De!Fails(why), UNCHANGED config, edit' = Nothing
  PROVE  DelegationInv'
BY DEF DelegationInv, De!Fails, Allowed, Last

LEMMA DelegationNext ==
  ASSUME De!DelegationAssumption, DelegationInv, De!Next \/ UNCHANGED De!vars
  PROVE  DelegationInv'
<1> USE DEF De!Nothing, Nothing
<1>0. config \in Configs /\ IsChain(frames) /\ frames \in Seq(Range(frames))
  BY DEF DelegationInv, IsChain
<1>1. ASSUME NEW a \in De!Agents, NEW f \in Flags, De!ExecuteRun(a, f) PROVE DelegationInv'
  <2> DEFINE b == De!BuildBundle(a)
             o == De!newRunOptions(f)
             r == De!ResolveModelPrecedence(o, b)
  <2>1. frames = <<>> /\ UNCHANGED config /\ edit' = Nothing
    BY <1>1 DEF De!ExecuteRun
  <2>2. (\E why : De!Fails(why)) \/ De!InvokeModel(a, f, r, b)
    BY <1>1 DEF De!ExecuteRun
  <2>3. IsBundle(b) /\ IsOptions(o) /\ o.iter > 0
    BY <1>0, Bundles, StartOptions
  <2>4. IsOptions(r) /\ r.iter > 0
    <3> HIDE DEF b, o
    <3> QED BY <2>3, ResolveKeeps DEF IsOptions, KeepsBudget
  <2> HIDE DEF b, r
  <2> QED BY <2>1, <2>2, <2>3, <2>4, InvokeStep, RefusedStep DEF MayInvoke
<1>2. ASSUME NEW f \in Flags, De!Transform(f) PROVE DelegationInv'
  <2> DEFINE b == De!BuildTransformBundle
             o == [De!newRunOptions(f) EXCEPT !.mode = "readonly"]
             r == De!ResolveModelPrecedence(o, b)
  <2>1. frames = <<>> /\ UNCHANGED config /\ edit' = Nothing
    BY <1>2 DEF De!Transform
  <2>2. De!InvokeModel("transform", f, r, b)
    BY <1>2 DEF De!Transform
  <2>3. IsBundle(b) /\ IsOptions(o) /\ o.iter > 0
    BY <1>0, Bundles, StartOptions
  <2>4. IsOptions(r) /\ r.iter > 0
    <3> HIDE DEF b, o
    <3> QED BY <2>3, ResolveKeeps DEF IsOptions, KeepsBudget
  <2> HIDE DEF b, r
  <2> QED BY <2>1, <2>2, <2>3, <2>4, InvokeStep DEF MayInvoke
<1>3. ASSUME NEW s \in Stages, NEW f \in Flags, De!RunStage(s, f) PROVE DelegationInv'
  <2> DEFINE b == De!buildAgentBundle(s)
             o == [De!buildComposedRunOpts(f) EXCEPT !.mode = De!effectiveStageMode(f.mode, s.mode)]
             r == De!ResolveModelPrecedence(o, b)
  <2>1. frames = <<>> /\ UNCHANGED config /\ edit' = Nothing
    BY <1>3 DEF De!RunStage
  <2>2. (\E why : De!Fails(why)) \/ De!InvokeModel(s.agent, f, r, b)
    BY <1>3 DEF De!RunStage
  <2>3. IsBundle(b) /\ IsOptions(o) /\ o.iter > 0
    BY <1>0, Bundles, StartOptions
  <2>4. IsOptions(r) /\ r.iter > 0
    <3> HIDE DEF b, o
    <3> QED BY <2>3, ResolveKeeps DEF IsOptions, KeepsBudget
  <2> HIDE DEF b, r
  <2> QED BY <2>1, <2>2, <2>3, <2>4, InvokeStep, RefusedStep DEF MayInvoke
<1>4. ASSUME NEW a \in De!Agents, NEW m \in TaskModes, De!Task(a, m) PROVE DelegationInv'
  <2> DEFINE parent == De!Last(frames)
             b == De!BuildBundle(a)
             o == [parent.opts EXCEPT !.mode = m]
             c == De!applyChildIterationCap(o, parent.bundle, b, a)
             r == De!applyChildModelOverrides(c, b)
  <2>1. frames # <<>> /\ UNCHANGED config /\ edit' = Nothing /\ ~De!IsAgenticCLI(parent.provider)
    BY <1>4 DEF De!Task
  <2>2. (\E why : De!Fails(why)) \/ De!InvokeModel(a, parent.flags, r, b)
    BY <1>4 DEF De!Task
  <2>3. parent = Last(frames) /\ IsFrame(parent)
    <3>1. Len(frames) \in DOMAIN frames
      BY <1>0, <2>1
    <3> QED BY <3>1 DEF DelegationInv, IsChain, De!Last, Last
  <2>4. ~IsAgenticCLI(parent.provider)
    BY <2>1 DEF IsAgenticCLI, De!IsAgenticCLI, AgenticCLIBinaries, De!AgenticCLIBinaries
  <2>5. IsBundle(b) /\ IsBundle(parent.bundle)
    BY <2>3, Bundles DEF IsFrame
  <2> HIDE DEF parent, b
  <2>6. IsOptions(o) /\ o.iter > 0 /\ o.iter = parent.opts.iter /\ o.explicit = parent.opts.explicit
    BY <2>3 DEF IsFrame, IsOptions
  <2> HIDE DEF o
  <2>7. /\ IsOptions(c) /\ c.iter > 0
        /\ o.explicit /\ ChildMaxIterations(parent.bundle, a) = 0 => c.explicit /\ c.iter <= o.iter
    BY <2>5, <2>6, ChildCap
  <2> HIDE DEF c
  <2>8. KeepsBudget(c, r)
    BY <2>7, ChildModelKeeps DEF IsOptions
  <2>9. IsOptions(r) /\ r.iter > 0
    BY <2>7, <2>8 DEF IsOptions, KeepsBudget
  <2>10. MayInvoke(a, r)
    BY <2>3, <2>4, <2>6, <2>7, <2>8 DEF MayInvoke, KeepsBudget
  <2> HIDE DEF r
  <2> QED BY <2>1, <2>2, <2>5, <2>9, <2>10, InvokeStep, RefusedStep
<1>5. ASSUME NEW what, De!Edit(what) PROVE DelegationInv'
  <2>1. frames # <<>> /\ UNCHANGED <<config, frames>> /\ edit' = what
    BY <1>5 DEF De!Edit
  <2>2. IsAgenticCLI(Last(frames).provider) \/ Allowed(Last(frames), what)
    BY <1>5 DEF De!Edit, De!Last, Last, IsAgenticCLI, De!IsAgenticCLI, AgenticCLIBinaries,
                De!AgenticCLIBinaries, Allowed
  <2> QED BY <2>1, <2>2 DEF DelegationInv, Last
<1>6. CASE De!Return
  <2>1. frames # <<>> /\ UNCHANGED config /\ edit' = Nothing /\ frames' = Front(frames)
    BY <1>6 DEF De!Return, De!Front, Front
  <2>2. IsChain(Front(frames))
    BY <1>0, <2>1, ChainFront
  <2> QED BY <1>0, <2>1, <2>2 DEF DelegationInv, Allowed
<1>7. CASE UNCHANGED De!vars
  BY <1>7 DEF De!vars, DelegationInv, Last
<1> QED BY <1>1, <1>2, <1>3, <1>4, <1>5, <1>6, <1>7 DEF De!Next

LEMMA DelegationInductive ==
  ASSUME De!DelegationAssumption
  PROVE  De!Spec => []DelegationInv
<1>1. De!Init => DelegationInv
  BY DEF De!Init, DelegationInv, IsChain, Range
<1>2. DelegationInv /\ [De!Next]_(De!vars) => DelegationInv'
  BY DelegationNext
<1> QED BY <1>1, <1>2, PTL DEF De!Spec

\* What a readonly or a comments-only run may not edit, nothing that it started,
\* at whatever depth and in whatever mode, edits with squad's tools
\* (runner/model.go applyReadOnlyMode, applyEditRestrictions).
THEOREM LimitsSound ==
  ASSUME De!DelegationAssumption
  PROVE  De!Spec => []LimitsHold
<1>1. DelegationInv => LimitsHold
  BY ChainKeepsPromises
<1> QED BY <1>1, DelegationInductive, PTL

\* The cap of --max-iterations, of a manifest or of a budget bounds every run of
\* the tree below, but where a budget names another (runner/model.go
\* resolveIterationBudget, applyChildIterationCap).
THEOREM CapsSound ==
  ASSUME De!DelegationAssumption
  PROVE  De!Spec => []CapsBind
<1>1. DelegationInv => CapsBind
  BY ChainKeepsPromises
<1> QED BY <1>1, DelegationInductive, PTL

-----------------------------------------------------------------------------
(* Credentials.                                                             *)

LEMMA LessIsWellFounded ==
  IsWellFoundedOn({ss \in Nat \X Nat : ss[1] < ss[2]}, Nat)
BY ONLY NatLessThanWellFounded, Zenon DEF OpToRel

LEMMA LeastExists ==
  ASSUME NEW I \in SUBSET Nat, I # {}
  PROVE  Min(I) \in I
<1> DEFINE less == {ss \in Nat \X Nat : ss[1] < ss[2]}
<1>1. PICK x \in I : \A y \in I : ~(<<y, x>> \in less)
  <2> HIDE DEF less
  <2> QED BY LessIsWellFounded, WFMin DEF less
<1>2. \A y \in I : y < x => <<y, x>> \in less
  OBVIOUS
<1> HIDE DEF less
<1>3. \A y \in I : ~(y < x) /\ y \in Nat
  BY <1>1, <1>2
<1>4. \A y \in I : x <= y
  BY <1>3
<1> QED BY <1>4 DEF Min

LEMMA FirstOfTwo ==
  ASSUME NEW x, NEW y
  PROVE  De!FirstOf(<<x, y>>) = IF x # "" THEN x ELSE y
<1> DEFINE s == <<x, y>>
           none == ""
           I == {i \in 1..Len(s) : s[i] # none}
           first == IF I # {} THEN De!Min(I) ELSE 0
<1> SUFFICES De!FirstOf(s) = IF x # none THEN x ELSE y
  OBVIOUS
<1>1. De!FirstOf(s) = IF first = 0 THEN none ELSE s[first]
  BY DEF De!FirstOf, De!SelectInSeq
<1>2. Len(s) = 2 /\ s[1] = x /\ s[2] = y
  OBVIOUS
<1> HIDE DEF s, none
<1>3. CASE x # none
  <2>1. 1 \in I /\ \A i \in I : i \in Int /\ 1 <= i
    BY <1>2, <1>3
  <2> HIDE DEF I
  <2>2. De!Min(I) = 1
    BY <2>1 DEF De!Min
  <2> QED BY <1>1, <1>2, <1>3, <2>1, <2>2
<1>4. CASE x = none /\ y # none
  <2>1. I = {2}
    BY <1>2, <1>4
  <2> HIDE DEF I
  <2>2. De!Min(I) = 2
    BY <2>1 DEF De!Min
  <2> QED BY <1>1, <1>2, <1>4, <2>1, <2>2
<1>5. CASE x = none /\ y = none
  <2>1. I = {}
    BY <1>2, <1>5
  <2> HIDE DEF I
  <2> QED BY <1>1, <1>5, <2>1
<1> QED BY <1>3, <1>4, <1>5

\* An entry the walk stops at has its credentials.
LEMMA WalkFinds ==
  ASSUME NEW o, NEW b, b.models \in Seq(Range(b.models)), De!walkManifestForCreds(o, b) # 0
  PROVE  ~De!KeyMissing(b.models[De!walkManifestForCreds(o, b)].provider, o.token)
<1> DEFINE I == {i \in 1..Len(b.models) : ~De!KeyMissing(b.models[i].provider, o.token)}
<1>1. De!walkManifestForCreds(o, b) = IF I # {} THEN De!Min(I) ELSE 0
  BY DEF De!walkManifestForCreds, De!SelectInSeq
<1>2. I \in SUBSET Nat
  OBVIOUS
<1>3. I # {} => Min(I) \in I
  <2> HIDE DEF I
  <2> QED BY <1>2, LeastExists
<1>4. De!Min(I) = Min(I)
  BY DEF De!Min, Min
<1>5. De!walkManifestForCreds(o, b) \in I
  <2> HIDE DEF I
  <2> QED BY <1>1, <1>3, <1>4
<1> QED BY <1>5

\* A provider whose credentials KeyStatus finds lets its client in, once it is
\* one that squad builds a client for.
LEMMA FoundIsAdmitted ==
  ASSUME NEW q, NEW url, ~De!KeyMissing(q, ""), q \notin {"claude", "agy"},
         \/ De!IsAgenticCLI(De!normalizeProvider(q))
         \/ De!Builds(De!normalizeProvider(q), url)
  PROVE  De!Authenticates(De!normalizeProvider(q), "")
<1> DEFINE p == De!normalizeProvider(q)
<1>1. p = IF q = "google" THEN "gemini" ELSE q
  BY DEF De!normalizeProvider
<1>2. \A x : De!IsAgenticCLI(x) <=> x \in {"claude-code", "antigravity"}
  BY DEF De!IsAgenticCLI, De!AgenticCLIBinaries
<1>3. DOMAIN De!providerAPIKeyEnv = {"openai", "anthropic", "gemini", "google", "openai-compat"}
      /\ De!providerAPIKeyEnv["gemini"] = De!providerAPIKeyEnv["google"]
  BY DEF De!providerAPIKeyEnv
<1> HIDE DEF p
<1>4. CASE De!IsAgenticCLI(p)
  <2>1. p = q /\ q # "" /\ De!FirstOf(<<q, "openai">>) = q
    BY <1>1, <1>2, <1>4, FirstOfTwo
  <2>2. De!AgenticCLIBinaries[p] \in env
    BY <1>4, <2>1 DEF De!KeyMissing
  <2>3. De!Authenticates(p, "")
    BY <1>2, <1>4, <2>2 DEF De!Authenticates
  <2> QED BY <2>3 DEF p
<1>5. CASE ~De!IsAgenticCLI(p)
  <2>1. p \in {"", "openai", "anthropic", "gemini", "ollama", "openai-compat"}
    BY <1>5 DEF De!Builds, p
  <2>2. q \in {"", "openai", "anthropic", "gemini", "google", "ollama", "openai-compat"}
    BY <1>1, <2>1
  <2>3. CASE p = "ollama"
    BY <1>2, <2>3 DEF De!Authenticates, p
  <2>4. CASE p # "ollama"
    <3> DEFINE k == De!FirstOf(<<q, "openai">>)
               l == De!FirstOf(<<p, "openai">>)
    <3>1. k = (IF q # "" THEN q ELSE "openai") /\ l = (IF p # "" THEN p ELSE "openai")
      BY FirstOfTwo
    <3>2. k \in DOMAIN De!providerAPIKeyEnv /\ ~De!IsAgenticCLI(k)
      BY <1>1, <1>2, <1>3, <2>2, <2>4, <3>1
    <3>3. env \cap De!providerAPIKeyEnv[k] # {}
      BY <3>2 DEF De!KeyMissing
    <3>4. De!providerAPIKeyEnv[k] = De!providerAPIKeyEnv[l]
      BY <1>1, <1>3, <2>2, <3>1
    <3>5. env \cap De!providerAPIKeyEnv[l] # {}
      BY <3>3, <3>4
    <3>6. De!Authenticates(p, "")
      BY <1>5, <2>4, <3>5 DEF De!Authenticates
    <3> QED BY <3>6 DEF p
  <2> QED BY <2>3, <2>4
<1> QED BY <1>4, <1>5

\* What StartsAuthenticated says of the run that was started first.
Admitted(fr) ==
  \/ fr.flags.model # "" \/ fr.flags.provider # "" \/ fr.opts.token # ""
  \/ fr.bundle.models = <<>>
  \/ fr.opts.provider \in {"claude", "agy"}
  \/ De!Authenticates(fr.provider, fr.opts.token) \/ fr.opts.warned

LEMMA ResolveKeepsToken ==
  ASSUME NEW o, NEW b, "token" \in DOMAIN o
  PROVE  De!ResolveModelPrecedence(o, b).token = o.token
<1>1. De!applyExplicitModel(o, b).token = o.token
  BY DEF De!applyExplicitModel
<1>2. \A p : De!applyAgenticCLIModel(o, b, p).token = o.token
  BY DEF De!applyAgenticCLIModel
<1>3. De!UseConfig(o, b).token = o.token /\ "token" \in DOMAIN De!UseConfig(o, b)
  BY DEF De!UseConfig
<1>4. De!applyConfigDefault(o, b).token = o.token
  BY <1>3 DEF De!applyConfigDefault
<1>5. De!applyConfigDefaultUnauthenticated(o, b).token = o.token
  BY <1>3 DEF De!applyConfigDefaultUnauthenticated
<1>6. \A i : De!UseEntry(o, b, i).token = o.token /\ "token" \in DOMAIN De!UseEntry(o, b, i)
  BY DEF De!UseEntry
<1>7. De!applyManifestTopUnauthenticated(o, b).token = o.token
  BY <1>6 DEF De!applyManifestTopUnauthenticated
<1>8. De!applyLegacyBundleFallback(o, b).token = o.token
  BY DEF De!applyLegacyBundleFallback
<1> QED BY <1>1, <1>2, <1>4, <1>5, <1>6, <1>7, <1>8, ResolvesTo

\* A run whose model nobody chose gets the config's or an entry of the manifest
\* with credentials, or a warning.
LEMMA DefaultIsAdmitted ==
  ASSUME NEW o, {"model", "provider", "url", "warned", "token"} \subseteq DOMAIN o,
         NEW b, b.models \in Seq(Range(b.models)), b.models # <<>>,
         o.model = "", o.provider = "", o.token = "", ~o.dry,
         ~De!noCredentialsError(o, b),
         NEW r, r = De!ResolveModelPrecedence(o, b),
         r.provider \notin {"claude", "agy"},
         \/ De!IsAgenticCLI(De!normalizeProvider(r.provider))
         \/ De!Builds(De!normalizeProvider(r.provider), r.url)
  PROVE  De!Authenticates(De!normalizeProvider(r.provider), "") \/ r.warned
<1> DEFINE i == De!walkManifestForCreds(o, b)
<1>1. ~De!ChosenByUser(o)
  BY DEF De!ChosenByUser, De!normalizeProvider, De!IsAgenticCLI, De!AgenticCLIBinaries
<1>2. \A q : De!FirstOf(<<o.provider, q>>) = q
  BY FirstOfTwo
<1>3. r.provider \in {o.cprovider} /\ ~De!KeyMissing(o.cprovider, "") =>
        De!Authenticates(De!normalizeProvider(r.provider), "")
  BY FoundIsAdmitted
<1>4. CASE o.cmodel # "" /\ ~De!KeyMissing(o.cprovider, o.token)
  <2>1. r = De!applyConfigDefault(o, b)
    BY <1>1, <1>4 DEF De!ResolveModelPrecedence
  <2>2. De!UseConfig(o, b).provider = o.cprovider
        /\ {"provider", "warned"} \subseteq DOMAIN De!UseConfig(o, b)
    BY <1>2 DEF De!UseConfig
  <2>3. r.provider = o.cprovider
    BY <2>1, <2>2 DEF De!applyConfigDefault
  <2> QED BY <1>3, <1>4, <2>3
<1>5. CASE o.cmodel = "" \/ De!KeyMissing(o.cprovider, o.token)
  <2>1. r = CASE i # 0 -> De!UseEntry(o, b, i)
              [] i = 0 /\ o.cmodel # "" -> De!applyConfigDefaultUnauthenticated(o, b)
              [] i = 0 /\ o.cmodel = "" /\ o.dry /\ b.models # <<>> ->
                   De!applyManifestTopUnauthenticated(o, b)
              [] OTHER -> De!applyLegacyBundleFallback(o, b)
    BY <1>1, <1>5 DEF De!ResolveModelPrecedence
  <2>2. CASE i # 0
    <3>1. r = De!UseEntry(o, b, i)
      <4> HIDE DEF i
      <4> QED BY <2>1, <2>2
    <3>2. ~De!KeyMissing(b.models[i].provider, "")
      BY <2>2, WalkFinds
    <3> HIDE DEF i
    <3> DEFINE q == b.models[i].provider
    <3>3. De!UseEntry(o, b, i).provider = De!FirstOf(<<o.provider, q>>)
      BY DEF De!UseEntry
    <3> HIDE DEF q
    <3>4. r.provider = q
      BY <1>2, <3>1, <3>3
    <3> QED BY <3>2, <3>4, FoundIsAdmitted DEF q
  <2>3. CASE i = 0
    <3>1. o.cmodel # ""
      BY <1>1, <2>3 DEF De!noCredentialsError
    <3>2. r = De!applyConfigDefaultUnauthenticated(o, b)
      <4> HIDE DEF i
      <4> QED BY <2>1, <2>3, <3>1
    <3>3. "warned" \in DOMAIN De!UseConfig(o, b)
      BY DEF De!UseConfig
    <3> QED BY <3>2, <3>3 DEF De!applyConfigDefaultUnauthenticated
  <2> QED BY <2>2, <2>3
<1> QED BY <1>4, <1>5

CredentialsInv == frames # <<>> => Admitted(frames[1])

\* A run is started, or refused.
LEMMA RootStarts ==
  ASSUME DelegationInv, frames = <<>>, NEW a, NEW f, NEW o, NEW b,
         De!InvokeModel(a, f, De!ResolveModelPrecedence(o, b), b), UNCHANGED env,
         {"model", "provider", "url", "warned", "token"} \subseteq DOMAIN o,
         b.models \in Seq(Range(b.models)),
         o.model = f.model, o.provider = f.provider, ~o.dry,
         b.models # <<>> => ~De!noCredentialsError(o, b)
  PROVE  CredentialsInv'
<1> DEFINE r == De!ResolveModelPrecedence(o, b)
           p == De!normalizeProvider(r.provider)
           lim == De!applyEditRestrictions(De!applyReadOnlyMode(De!Limits, r.mode), b)
           cap == IF De!IsAgenticCLI(p) THEN 0 ELSE De!resolveIterationBudget(r, b)
           mcp == IF De!IsAgenticCLI(p) THEN {} ELSE b.mcp \cup r.mcp
           fr == [agent |-> a, flags |-> f, opts |-> r, bundle |-> b, provider |-> p,
                  limits |-> lim, cap |-> cap, mcp |-> mcp]
<1> HIDE DEF r
<1>1. \/ UNCHANGED frames
      \/ frames' = Append(frames, fr) /\ (De!IsAgenticCLI(p) \/ De!Builds(p, r.url))
  BY DEF De!InvokeModel, De!Push, De!Fails, r
<1>2. CASE UNCHANGED frames
  BY <1>2 DEF CredentialsInv
<1>3. CASE frames' = Append(frames, fr) /\ (De!IsAgenticCLI(p) \/ De!Builds(p, r.url))
  <2>1. r.token = o.token
    BY ResolveKeepsToken DEF r
  <2>2. ASSUME f.model = "", f.provider = "", o.token = "", b.models # <<>>,
               r.provider \notin {"claude", "agy"}
        PROVE  De!Authenticates(p, "") \/ r.warned
    BY <1>3, <2>2, DefaultIsAdmitted DEF r
  <2> HIDE DEF p, lim, cap, mcp
  <2>3. fr.flags = f /\ fr.opts = r /\ fr.bundle = b /\ fr.provider = p
    OBVIOUS
  <2> HIDE DEF fr
  <2>4. Admitted(fr)
    BY <2>1, <2>2, <2>3 DEF Admitted
  <2>5. frames' = <<fr>>
    BY <1>3
  <2>6. frames'[1] = fr
    BY <2>5
  <2>7. \A x : Admitted(x) => (frames'[1] = x => Admitted(frames[1])')
    BY DEF Admitted, De!Authenticates
  <2> QED BY <2>4, <2>6, <2>7 DEF CredentialsInv
<1> QED BY <1>1, <1>2, <1>3

LEMMA CredentialsNext ==
  ASSUME De!DelegationAssumption, DelegationInv, CredentialsInv, De!Next \/ UNCHANGED De!vars
  PROVE  CredentialsInv'
<1>0. config \in Configs /\ frames \in Seq(Range(frames))
  BY DEF DelegationInv, IsChain
\* The run that was started first stays the first.
<1>1. ASSUME UNCHANGED env, frames' = <<>> \/ (frames # <<>> /\ frames'[1] = frames[1])
             \/ UNCHANGED frames
      PROVE  CredentialsInv'
  BY <1>1 DEF CredentialsInv, Admitted, De!Authenticates
<1>2. ASSUME NEW a \in De!Agents, NEW f \in Flags, De!ExecuteRun(a, f) PROVE CredentialsInv'
  <2> DEFINE b == De!BuildBundle(a)
             o == De!newRunOptions(f)
  <2>1. frames = <<>> /\ UNCHANGED env
    BY <1>2 DEF De!ExecuteRun
  <2>2. CASE De!InvokeModel(a, f, De!ResolveModelPrecedence(o, b), b) /\ ~f.dry
             /\ ~De!noCredentialsError(o, b)
    <3>1. {"model", "provider", "url", "warned", "token"} \subseteq DOMAIN o
          /\ o.model = f.model /\ o.provider = f.provider /\ (~f.dry => ~o.dry)
      BY DEF De!newRunOptions
    <3>2. b.models \in Seq(Range(b.models))
      BY Bundles DEF IsBundle
    <3> HIDE DEF b, o
    <3> QED BY <2>1, <2>2, <3>1, <3>2, RootStarts
  <2>3. CASE UNCHANGED frames
    BY <1>1, <2>1, <2>3
  <2> HIDE DEF b, o
  <2> QED BY <1>2, <2>2, <2>3 DEF De!ExecuteRun, De!Fails, b, o
<1>3. ASSUME NEW f \in Flags, De!Transform(f) PROVE CredentialsInv'
  <2> DEFINE b == De!BuildTransformBundle
             o == [De!newRunOptions(f) EXCEPT !.mode = "readonly"]
  <2>1. frames = <<>> /\ UNCHANGED env /\ ~f.dry
    BY <1>3 DEF De!Transform
  <2>2. De!InvokeModel("transform", f, De!ResolveModelPrecedence(o, b), b)
    BY <1>3 DEF De!Transform
  <2>3. {"model", "provider", "url", "warned", "token"} \subseteq DOMAIN o
        /\ o.model = f.model /\ o.provider = f.provider /\ (~f.dry => ~o.dry)
    BY DEF De!newRunOptions
  <2>4. b.models = <<>> /\ b.models \in Seq(Range(b.models))
    BY DEF De!BuildTransformBundle, Range
  <2> HIDE DEF b, o
  <2> QED BY <2>1, <2>2, <2>3, <2>4, RootStarts
<1>4. ASSUME NEW s \in Stages, NEW f \in Flags, De!RunStage(s, f) PROVE CredentialsInv'
  <2> DEFINE b == De!buildAgentBundle(s)
             o == [De!buildComposedRunOpts(f) EXCEPT !.mode = De!effectiveStageMode(f.mode, s.mode)]
  <2>1. frames = <<>> /\ UNCHANGED env /\ ~f.dry
    BY <1>4 DEF De!RunStage
  <2>2. CASE De!noCredentialsError(o, b)
    <3>1. UNCHANGED frames
      BY <1>4, <2>2 DEF De!RunStage, De!Fails
    <3> QED BY <1>1, <2>1, <3>1
  <2>3. CASE ~De!noCredentialsError(o, b)
    <3>1. De!InvokeModel(s.agent, f, De!ResolveModelPrecedence(o, b), b)
      BY <1>4, <2>3 DEF De!RunStage
    <3>2. {"model", "provider", "url", "warned", "token"} \subseteq DOMAIN o
          /\ o.model = f.model /\ o.provider = f.provider /\ (~f.dry => ~o.dry)
      BY DEF De!newRunOptions, De!buildComposedRunOpts
    <3>3. b.models \in Seq(Range(b.models))
      BY Bundles DEF IsBundle
    <3> HIDE DEF b, o
    <3> QED BY <2>1, <2>3, <3>1, <3>2, <3>3, RootStarts
  <2> QED BY <2>2, <2>3
<1>5. ASSUME NEW a \in De!Agents, NEW m \in TaskModes, De!Task(a, m) PROVE CredentialsInv'
  <2>1. frames # <<>> /\ UNCHANGED env
    BY <1>5 DEF De!Task
  <2>2. UNCHANGED frames \/ \E fr : frames' = Append(frames, fr)
    BY <1>5 DEF De!Task, De!InvokeModel, De!Push, De!Fails
  <2>3. \A fr : Append(frames, fr)[1] = frames[1]
    <3>1. 1 \in DOMAIN frames
      BY <1>0, <2>1
    <3> QED BY <1>0, <3>1, Appended
  <2> QED BY <1>1, <2>1, <2>2, <2>3
<1>6. ASSUME NEW what, De!Edit(what) PROVE CredentialsInv'
  BY <1>1, <1>6 DEF De!Edit
<1>7. CASE De!Return
  <2>1. frames # <<>> /\ UNCHANGED env /\ frames' = Front(frames)
    BY <1>7 DEF De!Return, De!Front, Front
  <2>2. /\ Len(frames) \in Nat \ {0} /\ Front(frames) \in Seq(Range(Front(frames)))
        /\ Len(Front(frames)) = Len(frames) - 1
        /\ \A i \in 1..(Len(frames) - 1) : Front(frames)[i] = frames[i]
    BY <1>0, <2>1, Fronted
  <2>3. CASE Len(frames) = 1
    <3>1. Front(frames) = <<>>
      BY <2>2, <2>3
    <3> QED BY <1>1, <2>1, <3>1
  <2>4. CASE Len(frames) # 1
    <3>1. Front(frames)[1] = frames[1]
      BY <2>2, <2>4
    <3> QED BY <1>1, <2>1, <3>1
  <2> QED BY <2>3, <2>4
<1>8. CASE UNCHANGED De!vars
  BY <1>1, <1>8 DEF De!vars
<1> QED BY <1>2, <1>3, <1>4, <1>5, <1>6, <1>7, <1>8 DEF De!Next

\* A run for which the user named neither model nor provider has the credentials
\* of the provider it calls, or the user was warned: whichever of the config's
\* default, the entries of the manifest and the fallbacks was taken
\* (runner/run.go ResolveModelPrecedence, walkManifestForCreds).
THEOREM DefaultsAuthenticate ==
  ASSUME De!DelegationAssumption
  PROVE  De!Spec => []De!StartsAuthenticated
<1>1. De!Init => CredentialsInv
  BY DEF De!Init, CredentialsInv
<1>2. DelegationInv /\ CredentialsInv /\ [De!Next]_(De!vars) => CredentialsInv'
  BY CredentialsNext
<1>3. CredentialsInv => De!StartsAuthenticated
  BY DEF CredentialsInv, Admitted, De!StartsAuthenticated
<1> QED BY <1>1, <1>2, <1>3, DelegationInductive, PTL DEF De!Spec

============================================================================
