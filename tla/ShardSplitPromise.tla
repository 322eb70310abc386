------------------------- MODULE ShardSplitPromise -------------------------
(* What a sharded run is promised about its shards: see ShardSplit.          *)
EXTENDS Integers, Sequences, SequencesExt

CONSTANTS
  Dir,        \* the directory of a file
  Unwanted    \* files in a skipped directory, excluded, or no regular files

VARIABLES
  matches, \* what the include patterns match, one pattern after the other
  shardBy, \* execution.shard_by
  size,    \* execution.shard_batch
  pc,      \* "glob", then "file" or "package", then "done"
  shards

(* Every file that a pattern matches and that is wanted is in a shard, and  *)
(* no other file is.                                                        *)
FilesAreCovered == UNION {ToSet(shards[i]) : i \in DOMAIN shards} = ToSet(matches) \ Unwanted

(* No two agents share a file, and none is given a file twice.              *)
FilesAreApart ==
  \A i, j \in DOMAIN shards : \A k \in DOMAIN shards[i], l \in DOMAIN shards[j] :
    shards[i][k] = shards[j][l] => i = j /\ k = l

(* By package: two files are in one shard exactly when they are in one      *)
(* directory.                                                               *)
PackagesAreWhole ==
  shardBy = "package" =>
    \A i, j \in DOMAIN shards : \A f \in ToSet(shards[i]), g \in ToSet(shards[j]) :
      i = j <=> Dir[f] = Dir[g]

(* By file: all shards but the last are full, and none is larger than a     *)
(* batch or empty.                                                          *)
BatchesAreFull ==
  shardBy = "file" => \A i \in DOMAIN shards :
    /\ Len(shards[i]) \in 1..size
    /\ i < Len(shards) => Len(shards[i]) = size

(* The shards partition the wanted files, a package is never split and no   *)
(* batch but the last is short (runner/shard.go globShardFiles, shardFiles, *)
(* groupByPackage, batchFiles).                                             *)
ShardsPartitionFiles ==
  pc = "done" => FilesAreCovered /\ FilesAreApart /\ PackagesAreWhole /\ BatchesAreFull

=============================================================================
