------------------------------ MODULE MCShard ------------------------------
(***************************************************************************)
(* Instances of Shard for TLC.  The order of the shards matters to the     *)
(* merge, so they are not symmetric.                                       *)
(***************************************************************************)
EXTENDS Shard
=============================================================================
