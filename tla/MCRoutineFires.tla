--------------------------- MODULE MCRoutineFires ---------------------------
(***************************************************************************)
(* Instances of RoutineFires for TLC: a routine that is due at every       *)
(* instant and is caught up, and one that is due at every second one and   *)
(* is not.                                                                 *)
(***************************************************************************)
EXTENDS RoutineFires

Two     == {"hourly", "nightly"}
Periods == [r \in Two |-> IF r = "hourly" THEN 1 ELSE 2]

=============================================================================
