---------------------------- MODULE LoopPromise ----------------------------
(***************************************************************************)
(* What the caller of a tool loop sees of it (RunWithToolsConfig, what     *)
(* RunWithTools returns, the files it changed) and what it is promised.    *)
(* ToolLoop is the loop; the theorems about it are in TaskTreeProofs.      *)
(***************************************************************************)
EXTENDS Integers

CONSTANT
  GracePeriod    \* editDeadlineGracePeriod

VARIABLES
  split,     \* RunWithToolsConfig.SplitToolResults (OpenAI chat completions)
  deadline,  \* RunWithToolsConfig.EditDeadline
  edited,    \* editSeen of EditEnforcer and of PhaseEnforcer
  outcome,   \* [reason, answer]: why the loop ended, what RunWithTools returned
  \* History, read by properties only:
  writes,    \* how the changes made by edit calls were reported
  idle,      \* batches executed since the last edit call, new file or start
  late       \* responses received after the budget was exceeded

\* The loop stops at the edit deadline only when no edit was reported in full:
\* a single confirmed edit disarms EditEnforcer for good (tools.go:261-312).
\* With split results only the last call is seen, see SplitSeesEdits.
DeadlineOnlyWithoutEdits ==
  (outcome.reason = "deadline" /\ ~split) => "whole" \notin writes

\* An agent that has edited nothing executes at most deadline + GracePeriod - 1
\* batches in a row that neither edit nor read a new file, however it mixes
\* tools: CheckNames, the grace period and the resets together (tools.go:261-475).
IdlingIsBounded ==
  (deadline > 0 /\ ~edited) => idle <= deadline + GracePeriod - 1

\* Once the budget is exceeded one more response is paid for, the closing one
\* (tools.go:737, finishToolLoop).
SpendingStops == late <= 1

=============================================================================
