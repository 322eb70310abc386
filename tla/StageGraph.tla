----------------------------- MODULE StageGraph -----------------------------
(***************************************************************************)
(* What a pipeline promises about its stages, without tiers, goroutines,   *)
(* agents or costs: a stage is started only when all its dependencies have *)
(* been cleared, and once a stage is rejected nothing is started, cleared  *)
(* or rejected any more.  module Pipeline is shown to implement it.        *)
(***************************************************************************)
CONSTANTS Stages, DependsOn

VARIABLE phase  \* "waiting" | "started" | "cleared" | "rejected"

Init == phase = [s \in Stages |-> "waiting"]

Rejected == \E s \in Stages : phase[s] = "rejected"

\* Some waiting stages whose dependencies are all cleared start together.
Start(S) ==
  /\ ~Rejected
  /\ S # {}
  /\ \A s \in S : /\ phase[s] = "waiting"
                  /\ \A d \in DependsOn[s] : phase[d] = "cleared"
  /\ phase' = [s \in Stages |-> IF s \in S THEN "started" ELSE phase[s]]

\* The verdict on one started stage, its gates included.
Judge(s) ==
  /\ ~Rejected
  /\ phase[s] = "started"
  /\ \E verdict \in {"cleared", "rejected"} :
       phase' = [phase EXCEPT ![s] = verdict]

Next ==
  \/ \E S \in SUBSET Stages : Start(S)
  \/ \E s \in Stages : Judge(s)

Spec == Init /\ [][Next]_phase

=============================================================================
