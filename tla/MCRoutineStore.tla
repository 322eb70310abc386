--------------------------- MODULE MCRoutineStore ---------------------------
(***************************************************************************)
(* Instances of RoutineStore for TLC: a global routine and one of a        *)
(* repository; a manifest is enabled, enabled with another base_url, or    *)
(* disabled.                                                               *)
(***************************************************************************)
EXTENDS RoutineStore

Two    == {"nightly", "audit"}
Homes  == [r \in Two |-> IF r = "nightly" THEN "global" ELSE "api"]
Says   == {"on", "onElsewhere", "off"}
On     == {"on", "onElsewhere"}
Parts  == [c \in Says |-> IF c = "off" THEN "off" ELSE "on"]

=============================================================================
