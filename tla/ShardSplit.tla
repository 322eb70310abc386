----------------------------- MODULE ShardSplit -----------------------------
(***************************************************************************)
(* How a sharded run builds its work-list and cuts it into shards          *)
(* (globShardFiles, shardFiles, groupByPackage and batchFiles of           *)
(* runner/shard.go), one loop iteration per step.                          *)
(*                                                                         *)
(* Files are numbers in the order of their paths.  Dir is the directory of *)
(* a file, numbered in the order of the directories' paths; the files of a *)
(* directory need not be neighbours: a.go < a/b.go < c.go.                 *)
(***************************************************************************)
EXTENDS ShardSplitPromise, FiniteSets

CONSTANTS
  Files,      \* the files there can be
  MaxMatches, \* bound: the matches of all patterns together
  MaxBatch    \* bound: execution.shard_batch

ShardSplitAssumption ==
  /\ Files \in SUBSET Nat /\ IsFiniteSet(Files)
  /\ Dir \in [Files -> Nat]
  /\ Unwanted \subseteq Files
  /\ MaxMatches \in Nat
  /\ MaxBatch \in Nat \ {0}

VARIABLES
  next,    \* the next index of the loop
  out,     \* the work-list
  groups   \* files by directory

vars == <<matches, shardBy, size, pc, next, out, groups, shards>>
input == <<matches, shardBy, size>>

Dirs == {Dir[f] : f \in Files}

TypeOK ==
  /\ pc \in {"glob", "file", "package", "done"}
  /\ next \in Nat \ {0}
  /\ out \in Seq(Files)
  /\ groups \in [Dirs -> Seq(Files)]
  /\ shards \in Seq(Seq(Files) \ {<<>>})

Init ==
  /\ matches \in BoundedSeq(Files, MaxMatches)
  /\ shardBy \in {"file", "package"}
  /\ size \in 1..MaxBatch
  /\ pc = "glob"
  /\ next = 1
  /\ out = <<>>
  /\ groups = [d \in Dirs |-> <<>>]
  /\ shards = <<>>

(* A sequence in the order of its numbers, all of its places kept.          *)
Sorted(s) ==
  LET order == {p \in Bijection(DOMAIN s, DOMAIN s) :
                  \A i, j \in DOMAIN s : i < j => s[p[i]] <= s[p[j]]}
  IN  {[i \in DOMAIN s |-> s[p[i]]] : p \in order}

\* Mutant of Visit: two patterns that match a file enlist it twice.
VisitAgain ==
  /\ pc = "glob" /\ next <= Len(matches)
  /\ out' = IF matches[next] \in Unwanted THEN out ELSE Append(out, matches[next])
  /\ next' = next + 1
  /\ UNCHANGED <<input, pc, groups, shards>>

\* A match is enlisted unless it was seen before or is unwanted.
Visit ==
  /\ pc = "glob" /\ next <= Len(matches)
  /\ out' = IF matches[next] \in Unwanted \cup ToSet(out) THEN out
            ELSE Append(out, matches[next])
  /\ next' = next + 1
  /\ UNCHANGED <<input, pc, groups, shards>>

EndGlob ==
  /\ pc = "glob" /\ next > Len(matches)
  /\ out' \in Sorted(out)
  /\ pc' = shardBy
  /\ next' = 1
  /\ UNCHANGED <<input, groups, shards>>

BatchEnd == IF next + size - 1 > Len(out) THEN Len(out) ELSE next + size - 1

Batch ==
  /\ pc = "file" /\ next <= Len(out)
  /\ shards' = Append(shards, SubSeq(out, next, BatchEnd))
  /\ next' = next + size
  /\ UNCHANGED <<input, pc, out, groups>>

Group ==
  /\ pc = "package" /\ next <= Len(out)
  /\ groups' = [groups EXCEPT ![Dir[out[next]]] = Append(@, out[next])]
  /\ next' = next + 1
  /\ UNCHANGED <<input, pc, out, shards>>

\* The groups become shards in the order of their directories.
EndGroup ==
  /\ pc = "package" /\ next > Len(out)
  /\ LET dirs == {d \in Dirs : groups[d] # <<>>}
     IN  \E seen \in Bijection(1..Cardinality(dirs), dirs) :
           /\ \A i, j \in DOMAIN seen : i < j => seen[i] < seen[j]
           /\ shards' = [i \in DOMAIN seen |-> groups[seen[i]]]
  /\ pc' = "done"
  /\ UNCHANGED <<input, next, out, groups>>

EndBatch ==
  /\ pc = "file" /\ next > Len(out)
  /\ pc' = "done"
  /\ UNCHANGED <<input, next, out, groups, shards>>

Next == Visit \/ EndGlob \/ Batch \/ EndBatch \/ Group \/ EndGroup

Spec == Init /\ [][Next]_vars

=============================================================================
