--------------------------- MODULE CommandsPromise ---------------------------
(* What the shell commands of a run promise: see Commands.                   *)
EXTENDS Integers, Sequences

VARIABLES
  jobs,  \* the commands so far, in the order of their start
  last   \* what the latest Bash or BashOutput returned: [job, status, out]

NoAnswer == [job |-> 0, status |-> "running", out |-> "none"]

(* A command reported as completed has ended by itself and its whole output *)
(* was reported, whatever ended, was interrupted or was given up around it  *)
(* (tools/bgcmd.go Spawn closes Done only after output and error are        *)
(* stored; the executors answer without an error only then).  Output past   *)
(* 64 KiB is cut.                                                           *)
AnswersAreFinal ==
  last.status = "completed" =>
    jobs[last.job].proc = "exited" /\ last.out = "whole"

=============================================================================
