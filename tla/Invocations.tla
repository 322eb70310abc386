---------------------------- MODULE Invocations ----------------------------
(***************************************************************************)
(* What the callers of InvokeModel are promised of each invocation of an   *)
(* agent (pipeline stages, Task calls, shards): it alternates requests to  *)
(* the model and batches of tool calls, a request is made only within the  *)
(* budget, but for the closing one, and an exceeded budget fails it.       *)
(*                                                                         *)
(* ToolLoop implements this for one invocation, with its enforcers and     *)
(* retries, and TaskTree for all the invocations of a tree at once, whose  *)
(* costs are added to each other's.                                        *)
(***************************************************************************)
CONSTANT Agents

VARIABLES
  stage,  \* where an agent's invocation is
  over    \* Metrics.BudgetExceeded() of it

vars == <<stage, over>>

Stages == {"idle", "model", "tools", "final", "succeeded", "failed"}

Init ==
  /\ stage \in [Agents -> {"idle", "model"}]
  /\ over = [a \in Agents |-> FALSE]

Becomes(a, s, o) ==
  /\ stage' = [stage EXCEPT ![a] = s]
  /\ over' = [over EXCEPT ![a] = o]

\* InvokeModel has set the run up, with what its caller has left to spend.
Enter(a) == stage[a] = "idle" /\ Becomes(a, "model", FALSE)

\* The set-up fails, or the run is cancelled before its turn.
GiveUp(a) == stage[a] = "idle" /\ Becomes(a, "failed", FALSE)

\* A response: it asks for tools, is one repetition or idle batch too many, or
\* is the answer, which counts although it may have exceeded the budget.
Respond(a) ==
  /\ stage[a] = "model" /\ ~over[a]
  /\ \E s \in {"tools", "final", "succeeded"}, o \in BOOLEAN : Becomes(a, s, o)

\* The request fails for good.
Fail(a) == stage[a] = "model" /\ Becomes(a, "failed", over[a])

\* The cost of a child is added.
Charge(a) == stage[a] = "tools" /\ Becomes(a, "tools", TRUE)

\* The batch is done: another request, or the closing one.
GoOn(a) == stage[a] = "tools" /\ ~over[a] /\ Becomes(a, "model", FALSE)
Stop(a) == stage[a] = "tools" /\ Becomes(a, "final", over[a])

\* The closing request is answered or fails; the budget before it decides.
Close(a) ==
  /\ stage[a] = "final"
  /\ \E s \in {"succeeded", "failed"}, o \in BOOLEAN :
       /\ over[a] => o /\ s = "failed"
       /\ Becomes(a, s, o)

Next ==
  \E a \in Agents :
    Enter(a) \/ GiveUp(a) \/ Respond(a) \/ Fail(a) \/ Charge(a) \/ GoOn(a) \/ Stop(a) \/ Close(a)

Spec == Init /\ [][Next]_vars
=============================================================================
