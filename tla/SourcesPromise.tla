--------------------------- MODULE SourcesPromise --------------------------
(* What a pinned source is promised: see Sources.                            *)

CONSTANTS
  Procs,   \* processes
  Urls     \* repositories

Kinds == {"agents", "skills"}

VARIABLES
  clone,  \* the cached clone of a repository, by kind and URL
  proc    \* a process: [pc, op, cfg, todo, cur, ok]

(* A clone moves in a forced update, as it is added, or where it is unpinned. *)
ClonesMoveByName ==
  \A k \in Kinds, u \in Urls :
    clone[<<k, u>>].state = "cloned" /\ clone'[<<k, u>>] # clone[<<k, u>>]
    => \E p \in Procs : /\ proc[p].pc \in {"updates", "checks out"}
                        /\ \/ proc[p].op.force
                           \/ proc[p].op.cmd = "add"   \* has just cloned it
                           \/ \E s \in proc[p].cfg.repos : s.kind = k /\ s.url = u /\ s.ref = ""

(* What a pinned source offers changes only when the user forces an update, *)
(* whatever is pushed, whatever fails and whenever a command is killed: so  *)
(* far as no other source has the same repository unpinned                  *)
(* (source/manager.go UpdateRepositories, source/git.go CloneOrUpdate).     *)
PinsFreeze == [][ClonesMoveByName]_<<clone, proc>>

=============================================================================
