-------------------------- MODULE DelegationPromise --------------------------
(* What a run promises about the agents it delegates to: see Delegation.     *)
EXTENDS Integers, SequencesExt

VARIABLES
  frames,  \* the invocations, each waiting for the next
  edit     \* what the last step edited

Nothing == "nothing"

AgenticCLIBinaries == [p \in {"claude-code", "antigravity"} |->
                         IF p = "claude-code" THEN "claude" ELSE "agy"]

IsAgenticCLI(p) == p \in DOMAIN AgenticCLIBinaries

(* The cap that a bundle b has for a child a, 0 if it has none.             *)
ChildMaxIterations(b, a) == IF a \in DOMAIN b.caps THEN b.caps[a] ELSE 0

(* What squad's own tools let a run edit.                                   *)
Allowed(fr, what) ==
  what = Nothing \/ (~fr.limits.readonly /\ (fr.limits.comments => what = "comment"))

(* Nothing below a readonly or a comments-only run edits what the run itself *)
(* may not, whatever mode the calls in between asked for (runner/model.go   *)
(* applyReadOnlyMode, applyEditRestrictions); a CLI is outside their reach.   *)
LimitsHold ==
  \A i \in DOMAIN frames : IsAgenticCLI(Last(frames).provider) \/ Allowed(frames[i], edit)

(* --max-iterations bounds every run of the tree, but for those a parent's   *)
(* budget has a cap for, and that cap bounds whatever its child starts       *)
(* (runner/model.go resolveIterationBudget, applyChildIterationCap).         *)
CapsBind ==
  \A i, j \in DOMAIN frames :
    /\ i < j /\ ~IsAgenticCLI(frames[j].provider)
    /\ frames[i].opts.explicit
    /\ \A k \in i..(j - 1) : ChildMaxIterations(frames[k].bundle, frames[k + 1].agent) = 0
    => frames[j].cap <= frames[i].cap

=============================================================================
