---------------------------- MODULE ProcessLeaf ----------------------------
(***************************************************************************)
(* ProcessLeafTopKFusedImpl                                                *)
(* (engine/algorithms/PipNN/quantization/processleaf_rsq.cc): the K        *)
(* nearest of every point of a leaf within the leaf.  Each score of a      *)
(* batch is inserted twice: into the list the query keeps for the lane     *)
(* (minv), and into the column of the database point (fused_db), where it  *)
(* waits for the end.  A query's lanes are emptied into its list when its  *)
(* batch is done, the columns when all are.                                *)
(***************************************************************************)
EXTENDS LeafBatches, TopKList

CONSTANTS
  K,        \* leaf_k
  Unroll,   \* how many panels a turn of a panel loop can take
  Leaves    \* the leaves: [0..n-1 -> [0..n-1 -> Int]], symmetric scores

ProcessLeafAssumption == K \in Nat \ {0} /\ 1 \in Unroll

VARIABLES
  score,    \* score[i][j]: what the micro-kernel computes for points i and j
  q_start,  \* first point of the batch
  p,        \* next panel
  minv,     \* minv[q][x]: the best of lane x for query q of the batch
  db,       \* db[i]: fused_db, the best queries for point i
  out,      \* out[i]: fused_topk
  pc

vars == <<score, q_start, p, minv, db, out, pc>>

num_points == Cardinality(DOMAIN score)
Pt == 0..(num_points - 1)
Lane == 0..(kPoints - 1)
Batch == q_start..(BatchEnd(q_start, num_points) - 1)
NoLanes == [q \in {} |-> <<>>]

\* Mutant: only the padding is masked.
Masked_Padding(q, i) == i >= num_points

\* Lanes of a panel that are masked: the query itself and the padding.
Masked(q, i) == i >= num_points \/ i = q

\* The entries panels lo..hi offer query q in lane x.
ForQuery(q, x, lo, hi) ==
  SelectSeq([m \in 1..(hi - lo + 1) |->
               LET i == (lo + m - 1) * kPoints + x
               IN  [s |-> IF i < num_points THEN score[q][i] ELSE 0, i |-> i]],
            LAMBDA e : ~Masked(q, e.i))

\* The entries the batch offers point i.
ForPoint(i) ==
  SelectSeq([m \in 1..Cardinality(Batch) |->
               [s |-> score[q_start + m - 1][i], i |-> q_start + m - 1]],
            LAMBDA e : ~Masked(e.i, i))

-----------------------------------------------------------------------------
Init ==
  /\ score \in Leaves
  /\ q_start = 0 /\ p = 0
  /\ minv = [q \in Batch |-> [x \in Lane |-> <<>>]]
  /\ db = [i \in Pt |-> <<>>]
  /\ out = [i \in Pt |-> <<>>]
  /\ pc = "panels"

\* One turn of the panel loops with its run_epilogue calls.
Panels ==
  /\ pc = "panels"
  /\ \E u \in Unroll :
       /\ p + u <= panels_needed(q_start, num_points)
       /\ \A v \in Unroll : v > u => p + v > panels_needed(q_start, num_points)
       /\ minv' = [q \in Batch |-> [x \in Lane |->
                     InsertAll(minv[q][x], ForQuery(q, x, p, p + u - 1), K)]]
       /\ db' = [i \in Pt |-> IF i \div kPoints \in p..(p + u - 1)
                              THEN InsertAll(db[i], ForPoint(i), K) ELSE db[i]]
       /\ p' = p + u
  /\ UNCHANGED <<score, q_start, out, pc>>

\* The lanes of a query, place by place.
LaneEntries(q) ==
  FlattenSeq([k \in 1..K |->
    FlattenSeq([m \in 1..kPoints |->
      IF k <= Len(minv[q][m - 1]) THEN << minv[q][m - 1][k] >> ELSE <<>>])])

BatchDone ==
  /\ pc = "panels"
  /\ p = panels_needed(q_start, num_points)
  /\ out' = [i \in Pt |-> IF i \in Batch THEN InsertAll(out[i], LaneEntries(i), K)
                          ELSE out[i]]
  /\ IF q_start + kMqFull < num_points
     THEN /\ q_start' = q_start + kMqFull
          /\ minv' = [q \in q_start'..(BatchEnd(q_start', num_points) - 1) |->
                        [x \in Lane |-> <<>>]]
          /\ pc' = "panels"
     ELSE /\ q_start' = q_start
          /\ minv' = NoLanes
          /\ pc' = "columns"
  /\ p' = 0
  /\ UNCHANGED <<score, db>>

Columns ==
  /\ pc = "columns"
  /\ out' = [i \in Pt |-> InsertAll(out[i], db[i], K)]
  /\ pc' = "done"
  /\ UNCHANGED <<score, q_start, p, minv, db>>

Finished == pc = "done" /\ UNCHANGED vars

Next == Panels \/ BatchDone \/ Columns \/ Finished

Spec == Init /\ [][Next]_vars
-----------------------------------------------------------------------------
\* Scoring half of the pairs loses none: each list is the best of all other
\* points of the leaf, where a point that was scored from both sides may stand
\* in the list twice.
ListsAreNearest ==
  pc = "done" =>
    \A i \in Pt : IsTopList(out[i], K,
                            [j \in Pt \ {i} |-> TimesScored(i, j, num_points)], score[i])

Listed(i) == {out[i][x].i : x \in 1..Len(out[i])}

\* Points that stand in a list twice take the place of others, but the nearest
\* half of the list is there whatever the batches: with fewer than K / 2 points
\* listed, the leaf has no more.
HalfOfListIsThere ==
  pc = "done" =>
    \A i \in Pt : \A j \in Pt \ (Listed(i) \cup {i}) :
      2 * Cardinality({m \in Listed(i) : score[i][m] <= score[i][j]}) >= K
=============================================================================
