---------------------------- MODULE MCIsolation ----------------------------
(***************************************************************************)
(* Instances of Isolation for TLC.  The user has staged s1, changed u1,    *)
(* and may still change u2; each run makes one change, in a new file or    *)
(* in the file the user has changed.                                       *)
(***************************************************************************)
EXTENDS Isolation

CONSTANTS r1, r2, user, s1, u1, u2, a1, a2

OneRun  == {r1}
TwoRuns == {r1, r2}

Few      == {s1, u1, a1}
All      == {s1, u1, u2, a1, a2}
TheStaged   == {s1}
TheUnstaged == {u1}

Authors == [c \in Changes |-> CASE c = a1 -> r1 [] c = a2 -> r2 [] OTHER -> user]

\* Everybody has a file; a1 creates one.
Apart   == [c \in Changes |-> CASE c = s1 -> 1 [] c \in {u1, u2} -> 2 [] c = a1 -> 3 [] OTHER -> 4]
\* The agent of r1 works on the file the user has not staged.
Overlap == [c \in Changes |-> CASE c = s1 -> 1 [] OTHER -> 2]
\* The agent of r2 does; that of r1 creates a file, as Apart.
Mixed   == [c \in Changes |-> CASE c = s1 -> 1 [] c = a1 -> 3 [] OTHER -> 2]
\* The user has staged a file and changed it again.
Twice   == [c \in Changes |-> CASE c \in {s1, u1, u2} -> 1 [] c = a1 -> 3 [] OTHER -> 4]
Created == {a1} \cap Changes

AllModes    == {"none", "unstaged", "worktree", "branch", "commit", "staged"}
JustStaged  == {"staged"}
JustWorktree == {"worktree"}
=============================================================================
