----------------------------- MODULE MCAgentRun -----------------------------
(* Two runs: what they are asked for, and the answers that tell the checks *)
(* apart.  The second may resume the session of the first.                 *)
EXTENDS AgentRun

Runs2 == {"r1", "r2"}
Option(p, resume, apply) ==
  [provider |-> p, resume |-> resume, require |-> TRUE, edit |-> TRUE, apply |-> apply]
MCOptions ==
  [r1 |-> {Option("responses", FALSE, "no"), Option("chain", FALSE, "fallback")},
   r2 |-> {Option("responses", TRUE, "no"), Option("cli", FALSE, "git")}]
MCDirectories == {[git |-> TRUE, tree |-> {}], [git |-> FALSE, tree |-> {}]}
MCTexts == {{"report", "claims", "no changes"}, {"diff"}, {"report"}}
=============================================================================
