------------------------- MODULE DashboardPromise --------------------------
(***************************************************************************)
(* The bookkeeping of the dashboard that Dashboard is about, and what is    *)
(* promised of it: what a tailer has read of the events of a session, and  *)
(* which launch a session is taken for. The theorems about them are in     *)
(* RoutineFiresProofs.                                                     *)
(***************************************************************************)
EXTENDS Integers, Sequences, FiniteSets, SequencesExt

CONSTANT
    Sessions        \* how many sessions there will be

Dirs == 1 .. Sessions
NoRun == 0                          \* nothing selected, or not paired

VARIABLES
    lines,          \* events.jsonl: "event", "bad" (not JSON), "torn" (the last, no newline)
    pos,            \* the lines that the offset of a tailer has passed
    applied,        \* the events it has counted
    pending,        \* the launches that wait for a session, oldest first
    pairs,          \* the launch a session is taken for
    children        \* the launches: "running", "exited" or "failed"

Events(ls) == Cardinality({i \in DOMAIN ls : ls[i] = "event"})

(***************************************************************************)
(* A tailer has counted each event up to its offset once and no other,     *)
(* whatever a crash left in the file and however often the session was     *)
(* resumed (watch/tailer.go refreshEvents).                                *)
(***************************************************************************)
TailIsExact == \A d \in Dirs : applied[d] = Events(SubSeq(lines[d], 1, pos[d]))

(***************************************************************************)
(* A launch is given to one session at most, and each launch waits or was  *)
(* given to one: the budget and the cancel key of two rows never share a   *)
(* child (ui/app/app.go rediscover, launch).                               *)
(***************************************************************************)
LaunchesPairOnce ==
    LET given == {d \in Dirs : pairs[d] # NoRun}
    IN  /\ \A d, e \in given : pairs[d] = pairs[e] => d = e
        /\ {pairs[d] : d \in given} \cap ToSet(pending) = {}
        /\ Cardinality(given) + Len(pending) = Len(children)
================================================================================
