---------------------------- MODULE ClusterTree ----------------------------
(***************************************************************************)
(* struct cluster (engine/algorithms/PipNN/pipnn.h): the randomised        *)
(* ball-carving that cuts the points into leaves.  ClusterRecursively      *)
(* assigns the points of a cluster to their nearest leaders (a point may   *)
(* go to several), merges the small buckets, and recurses into or randomly *)
(* splits what is left; leaves go to LeafKNN.  A round does this once for  *)
(* all points, multiple_clustertrees runs several rounds.                  *)
(*                                                                         *)
(* Which leaders are nearest is left open: any assignment the kernels can  *)
(* return.  Branches of the recursion share nothing but the neighbour      *)
(* table, so they are taken up in any order but one at a time.  A bucket   *)
(* is a sequence of ids, so that an id can be in it twice.                 *)
(***************************************************************************)
EXTENDS Integers, SequencesExt

CONSTANTS
  MAX_CLUSTER_SIZE, MIN_CLUSTER_SIZE,
  TOP_LEVEL_NUM_LEADERS, MAX_NUM_LEADERS,
  FractionInverse,        \* 1 / FRACTION_LEADERS
  Schemes,                \* the builds to be tried
  MAX_DEPTH, CONCERNING_DEPTH,
  ShrinkNum, ShrinkDen    \* TOO_SMALL_SHRINKAGE_FRACTION

ASSUME ClusterTreeAssumption ==
  /\ MAX_CLUSTER_SIZE \in Nat \ {0} /\ MIN_CLUSTER_SIZE \in Nat
  /\ TOP_LEVEL_NUM_LEADERS \in Nat /\ MAX_NUM_LEADERS \in Nat
  /\ FractionInverse \in Nat \ {0}
  /\ \A s \in Schemes : /\ s.n_points \in Nat \ {0}
                        /\ s.fanouts \in Seq(Nat \ {0})
                        /\ s.margin \in BOOLEAN
                        /\ s.rounds \in Nat \ {0}
  /\ MAX_DEPTH \in Nat /\ CONCERNING_DEPTH \in Nat

VARIABLES
  scheme,   \* the build: .n_points, .fanouts (FANOUT_SCHEME), .rounds
            \* (-num_clusters), .margin: whether Hamming assignment with a
            \* margin may drop leaders
  round,    \* rounds completed
  pending,  \* clusters to recurse into or to split, with their path from the root
  merging,  \* the buckets MergeSmallClusters is working on, or Nothing
  leaves    \* history: the leaves of the running round

treeVars == <<scheme, round, pending, merging, leaves>>

Points == 1..scheme.n_points

Nothing == [depth |-> 0, path |-> <<>>, size |-> 0, buckets |-> <<>>, stuck |-> FALSE]

Least(a, b) == IF a < b THEN a ELSE b
Most(a, b) == IF a < b THEN b ELSE a

Root == [pts |-> [i \in Points |-> i], depth |-> 0, split |-> FALSE, path |-> <<>>]

\* SelectAndAssignLeaders: how many leaders, and how many a point goes to.
NumLeaders(depth, size) ==
  Most(3, Least(MAX_NUM_LEADERS, IF depth = 0 THEN TOP_LEVEL_NUM_LEADERS
                                              ELSE size \div FractionInverse))

Fanout(depth, size) ==
  Least(NumLeaders(depth, size),
        IF depth < Len(scheme.fanouts) THEN scheme.fanouts[depth + 1] ELSE 1)

\* Mutant: the margin is applied to the nearest leader as well.
LeaderSets_MayBeNone(depth, size) ==
  {L \in SUBSET (1..NumLeaders(depth, size)) :
     \/ Cardinality(L) = Fanout(depth, size)
     \/ scheme.margin /\ depth >= 1 /\ Cardinality(L) <= Fanout(depth, size)}

\* The leaders a point can be given: as many as the fanout says or, behind the
\* margin gate of the deeper levels, at least the nearest of them.
LeaderSets(depth, size) ==
  {L \in SUBSET (1..NumLeaders(depth, size)) :
     \/ Cardinality(L) = Fanout(depth, size)
     \/ scheme.margin /\ depth >= 1 /\ Cardinality(L) \in 1..Fanout(depth, size)}

\* The ids of s that are in S, in their order.
Chosen(s, S) ==
  LET kept[i \in 0..Len(s)] == IF i = 0 THEN <<>>
                               ELSE IF s[i] \in S THEN Append(kept[i - 1], s[i])
                               ELSE kept[i - 1]
  IN  kept[Len(s)]

\* group_by_index: the points of each leader.
Grouped(pts, assigned, nlead) ==
  [l \in 1..nlead |-> Chosen(pts, {p \in ToSet(pts) : l \in assigned[p]})]

\* What the filter and std::sort leave of the buckets b: those that are not empty,
\* large ones first and those of one size in any order.  Leaders are numbered by
\* where their buckets end up, for nothing else tells them apart.
Sorted(b) == \A i, j \in DOMAIN b : i < j => Len(b[i]) >= Len(b[j])
Filled(b) == {n \in 0..Len(b) : \A l \in DOMAIN b : b[l] # <<>> <=> l <= n}

\* Mutant: the merged bucket keeps its duplicates.
RemoveDuplicates_Keep(b) == b

\* remove_duplicates, in one of the orders it may return.
RemoveDuplicates(b) == SetToSeq(ToSet(b))

\* Mutant: the grown bucket stays where it is.
BubbleUp_Stay(b, i) == b

\* The swaps that move bucket i up past the smaller ones before it.
Place(b, i) ==
  CHOOSE j \in 1..i : /\ \A m \in j..(i - 1) : Len(b[m]) < Len(b[i])
                      /\ j > 1 => Len(b[j - 1]) >= Len(b[i])

BubbleUp(b, i) ==
  [n \in DOMAIN b |-> CASE n = Place(b, i) -> b[i]
                       [] n \in (Place(b, i) + 1)..i -> b[n - 1]
                       [] OTHER -> b[n]]

\* SplitClusterRandomly after the shuffle: runs of MAX_CLUSTER_SIZE.
Runs(b) ==
  {SubSeq(b, k * MAX_CLUSTER_SIZE + 1, Least((k + 1) * MAX_CLUSTER_SIZE, Len(b))) :
     k \in {k \in 0..Len(b) : k * MAX_CLUSTER_SIZE < Len(b)}}

Leaf(b, path) == [ids |-> ToSet(b), size |-> Len(b), path |-> path]

-----------------------------------------------------------------------------
TreeInit ==
  /\ scheme \in Schemes
  /\ round = 0
  /\ pending = {Root}
  /\ merging = Nothing
  /\ leaves = {}

\* ClusterRecursively on a cluster that is small enough.
ProcessLeaf(c) ==
  /\ ~c.split
  /\ Len(c.pts) <= MAX_CLUSTER_SIZE
  /\ pending' = pending \ {c}
  /\ leaves' = leaves \cup {Leaf(c.pts, c.path)}
  /\ UNCHANGED <<scheme, round, merging>>

\* ClusterRecursively up to the sort in MergeSmallClusters.
Divide(c) ==
  /\ ~c.split
  /\ Len(c.pts) > MAX_CLUSTER_SIZE
  /\ merging = Nothing
  /\ pending' = pending \ {c}
  /\ UNCHANGED <<scheme, round, leaves>>
  /\ \E assigned \in [ToSet(c.pts) -> LeaderSets(c.depth, Len(c.pts))] :
       LET b == Grouped(c.pts, assigned, NumLeaders(c.depth, Len(c.pts)))
       IN  /\ Sorted(b)
           /\ \E n \in Filled(b) :
                merging' = [depth |-> c.depth, path |-> c.path, size |-> Len(c.pts),
                            buckets |-> SubSeq(b, 1, n), stuck |-> FALSE]

\* The loop condition of MergeSmallClusters.
WantsMerge ==
  /\ ~merging.stuck
  /\ Len(merging.buckets) > 1
  /\ Len(Last(merging.buckets)) < MIN_CLUSTER_SIZE

\* The buckets the smallest one could be joined to.
Targets(rest, small) ==
  {i \in 1..Len(rest) : Len(rest[i]) + Len(small) <= MAX_CLUSTER_SIZE}

\* One turn of the loop: the last bucket joins the smallest that can hold both.
MergeSmall ==
  /\ WantsMerge
  /\ LET rest == Front(merging.buckets)
         small == Last(merging.buckets)
         fits == Targets(rest, small)
     IN  /\ fits # {}
         /\ LET i == CHOOSE i \in fits : \A j \in fits : j <= i
                joined == RemoveDuplicates(rest[i] \o small)
            IN  merging' = [merging EXCEPT !.buckets =
                              BubbleUp([rest EXCEPT ![i] = joined], i)]
  /\ UNCHANGED <<scheme, round, pending, leaves>>

\* Mutant: it is put back, but the loop goes on.
GiveUp_NoBreak ==
  /\ WantsMerge
  /\ Targets(Front(merging.buckets), Last(merging.buckets)) = {}
  /\ UNCHANGED treeVars

\* It fits nowhere: it is put back, and the loop is left.
GiveUp ==
  /\ WantsMerge
  /\ Targets(Front(merging.buckets), Last(merging.buckets)) = {}
  /\ merging' = [merging EXCEPT !.stuck = TRUE]
  /\ UNCHANGED <<scheme, round, pending, leaves>>

\* Mutant: only the shrinkage is looked at, and counted from the wrong side.
TooDeep_NoLimit(depth, b, size) ==
  depth > CONCERNING_DEPTH /\ ShrinkDen * Len(b) > ShrinkDen * size

\* A bucket that is deep enough, or has hardly shrunk, is not clustered again.
TooDeep(depth, b, size) ==
  \/ depth > MAX_DEPTH
  \/ depth > CONCERNING_DEPTH /\ ShrinkDen * Len(b) > ShrinkNum * size

\* The parallel_for over the merged buckets.
Spawn ==
  /\ merging # Nothing
  /\ ~WantsMerge
  /\ pending' = pending \cup
       {[pts |-> merging.buckets[c],
         depth |-> merging.depth + 1,
         split |-> TooDeep(merging.depth, merging.buckets[c], merging.size),
         path |-> Append(merging.path, c)] : c \in 1..Len(merging.buckets)}
  /\ merging' = Nothing
  /\ UNCHANGED <<scheme, round, leaves>>

Split(c) ==
  /\ c.split
  /\ pending' = pending \ {c}
  /\ UNCHANGED <<scheme, round, merging>>
  /\ \E order \in SetToSeqs(1..Len(c.pts)) :
       leaves' = leaves \cup {Leaf(b, c.path) :
                                b \in Runs([i \in 1..Len(c.pts) |-> c.pts[order[i]]])}

RoundOver == pending = {} /\ merging = Nothing

\* recursively_sketch_wrapper returns; multiple_clustertrees starts the next.
NextRound ==
  /\ RoundOver
  /\ round < scheme.rounds
  /\ round' = round + 1
  /\ pending' = IF round + 1 < scheme.rounds THEN {Root} ELSE {}
  /\ leaves' = {}
  /\ UNCHANGED <<scheme, merging>>

TreesFinished == round = scheme.rounds /\ UNCHANGED treeVars

TreeNext == \/ \E c \in pending : ProcessLeaf(c) \/ Divide(c) \/ Split(c)
            \/ MergeSmall \/ GiveUp \/ Spawn \/ NextRound \/ TreesFinished

TreeSpec == TreeInit /\ [][TreeNext]_treeVars

\* The recursion is run by a scheduler that finishes what it starts.
FairTreeSpec == TreeSpec /\ WF_treeVars(TreeNext)
-----------------------------------------------------------------------------
TreeTypeOK ==
  /\ scheme \in Schemes
  /\ round \in 0..scheme.rounds
  /\ \A c \in pending : /\ c.pts \in Seq(Points) /\ c.depth \in Nat
                        /\ c.split \in BOOLEAN /\ c.path \in Seq(Nat)
  /\ merging.depth \in Nat /\ merging.buckets \in Seq(Seq(Points))
  /\ \A l \in leaves : l.ids \subseteq Points /\ l.size \in Nat

Ids(c) == ToSet(c.pts)

\* No point is lost: whatever is merged, given up, split or dropped as empty,
\* each point of a running round is in a leaf or in a cluster still to be cut.
EveryPointCovered ==
  /\ TreeTypeOK
  /\ round < scheme.rounds =>
       Points = UNION ({l.ids : l \in leaves} \cup {Ids(c) : c \in pending}
                      \cup {ToSet(b) : b \in ToSet(merging.buckets)})

\* LeafKNN gets at most MAX_CLUSTER_SIZE ids and no id twice: a repeated id
\* would be its own nearest neighbour.
LeavesWellFormed ==
  \A l \in leaves : l.size \in 1..MAX_CLUSTER_SIZE /\ l.size = Cardinality(l.ids)

\* When MergeSmallClusters is done, no two buckets of which one is too small
\* could still be one cluster, although it never looks back at the buckets it
\* has merged: the order by size it maintains makes the last bucket the only
\* one to look at.
NothingLeftToMerge ==
  merging # Nothing /\ ~WantsMerge =>
    \A i, j \in 1..Len(merging.buckets) :
       i # j /\ Len(merging.buckets[i]) < MIN_CLUSTER_SIZE =>
         Len(merging.buckets[i]) + Len(merging.buckets[j]) > MAX_CLUSTER_SIZE

\* CopiesFrom(f)[d]: the product of the fanouts f from depth d on.
CopiesFrom(f) ==
  LET from[d \in 0..Len(f)] == IF d = Len(f) THEN 1 ELSE f[d + 1] * from[d + 1]
  IN  from
MaxCopies == CopiesFrom(scheme.fanouts)[0]

\* A point is copied into no more leaves of a round than the product of the
\* fanouts, which is what the progress estimate and the memory of the build
\* count on.
CopiesBounded ==
  \A p \in Points :
    Cardinality({l \in leaves : p \in l.ids}) <= MaxCopies

\* The recursion is bounded although a cluster may fail to shrink when it is
\* divided: the clusters below MAX_DEPTH are split and not divided again.  Nor
\* does it make more copies than a round is meant to.
RecursionBounded == CopiesBounded /\ \A c \in pending : c.depth <= MAX_DEPTH + 2

\* Every round ends, whatever becomes of the buckets.
RoundsEnd == <>(round = scheme.rounds)
=============================================================================
