------------------------------ MODULE LeafKnn ------------------------------
(***************************************************************************)
(* LeafKNN (engine/algorithms/PipNN/pipnn.h) and the two functions of      *)
(* pipnn_utils.h behind it: find the leaf_k nearest of each point of a     *)
(* leaf within the leaf and merge every such edge into the table, both     *)
(* ways.  rsq_knn merges each list and its reverse edges as the kernel     *)
(* returns them.  rsq_knn_hamming_rescore has lists chosen on the 1-bit    *)
(* codes; it scores them again on the 8-bit codes, gathers the edges of    *)
(* each row in a buffer, and merges a row at a time.  The buffers are      *)
(* thread_local: a worker keeps them from one leaf to the next.            *)
(*                                                                         *)
(* A leaf is a sequence of ids; local indices count from 1.  A merge is    *)
(* atomic (KnnHeapAtomic).                                                 *)
(***************************************************************************)
EXTENDS Nearest, SequencesExt, LeafBatches

CONSTANTS
  Ham,           \* Ham[i][j]: distance on the 1-bit codes
  Thread,
  Leaves,        \* the leaves to be processed, sequences of distinct ids
  leaf_k,
  HammingLeaf    \* the settings of HAMMING_LEAF to be tried

ASSUME LeafKnnAssumption ==
  /\ k \in Nat \ {0} /\ leaf_k \in Nat \ {0}
  /\ IsFiniteSet(Point)
  /\ Dist \in [Point -> [Point -> Int]] /\ Ham \in [Point -> [Point -> Int]]
  /\ HammingLeaf \subseteq BOOLEAN
  /\ \A leaf \in Leaves : leaf \in Seq(Point) /\ IsInjective(leaf)

VARIABLES
  HAMMING_LEAF,  \* one of the settings, the same all through a build
  row,         \* row[i]: the ids in row i of the table
  todo,        \* leaves no worker has taken up
  pc,          \* where each worker is
  ids,         \* the leaf each worker is at
  local,       \* the local index its loop is at
  edge_arena,  \* thread_local: the edges of all rows, 2 * leaf_k cells a row
  edge_cnt,    \* thread_local: edges of each row
  spill,       \* thread_local: the edges that found their row's cells taken
  fwd          \* thread_local: the list rsq_knn is merging in reverse

vars == <<HAMMING_LEAF, row, todo, pc, ids, local, edge_arena, edge_cnt, spill, fwd>>
buffers == <<edge_arena, edge_cnt, spill, fwd>>

cap == 2 * leaf_k

\* How often row i of a leaf gets the score of its point j.
Times(leaf, i, j) == TimesScored(i - 1, j - 1, Len(leaf))

\* The scores row i gets, by point: a point that comes up from both sides has two.
Scored(leaf, i) ==
  {s \in ((1..Len(leaf)) \ {i}) \X {1, 2} : s[2] <= Times(leaf, i, s[1])}

\* InsertTopKFused, ScalarInsertTopK: the score of a stays in front of that of b.
\* The order of equal ones, which depends on the lanes they were in, is by index.
Before(leaf, i, metric, a, b) ==
  \/ metric[leaf[i]][leaf[a]] < metric[leaf[i]][leaf[b]]
  \/ metric[leaf[i]][leaf[a]] = metric[leaf[i]][leaf[b]] /\ a < b

\* ProcessLeafTopKFused (ProcessLeaf): the points with the leaf_k scores in front,
\* in order.
ListLen(leaf, i) ==
  LET scores == Cardinality(Scored(leaf, i)) IN IF scores < leaf_k THEN scores ELSE leaf_k

TopOf(leaf, i, metric) ==
  LET others == (1..Len(leaf)) \ {i}
  IN  CHOOSE top \in [1..ListLen(leaf, i) -> others] :
        /\ \A r, q \in DOMAIN top :
             r < q => top[r] = top[q] \/ Before(leaf, i, metric, top[r], top[q])
        /\ \A j \in others :
             LET times == Cardinality({r \in DOMAIN top : top[r] = j})
             IN  \/ times = Times(leaf, i, j)
                 \/ times < Times(leaf, i, j) /\ \A r \in DOMAIN top :
                      top[r] = j \/ Before(leaf, i, metric, top[r], j)

Top(leaf, i, hamming) == TopOf(leaf, i, IF hamming THEN Ham ELSE Dist)

\* score_row: there and back for each entry of the list of row i.
EdgesOfRow(leaf, i, hamming) ==
  LET top == Top(leaf, i, hamming)
  IN  [x \in 1..(2 * Len(top)) |->
         LET j == top[(x + 1) \div 2]
         IN  IF x % 2 = 1 THEN [tgt |-> i, src |-> leaf[j]] ELSE [tgt |-> j, src |-> leaf[i]]]

\* The edges push_edge is called with for the rows of a leaf, in order.
EdgesOf ==
  [leaf \in {l \in Leaves : Len(l) > 1} |->
    [hamming \in HammingLeaf |->
      FlattenSeq([i \in 1..Len(leaf) |-> EdgesOfRow(leaf, i, hamming)])]]

NoEdge == 0

\* Cell of the c-th edge (from 0) of local row i.
Cell(i, c) == (i - 1) * cap + c + 1

\* Mutant: an edge its row has no cell for is dropped.
PushEdge_Full(b, e) ==
  IF b[2][e.tgt] < cap
  THEN << [b[1] EXCEPT ![Cell(e.tgt, b[2][e.tgt])] = e.src],
          [b[2] EXCEPT ![e.tgt] = @ + 1], b[3] >>
  ELSE b

\* push_edge, on the state <<arena, cnt, spill>> of the buffers.
PushEdge(b, e) ==
  IF b[2][e.tgt] < cap
  THEN << [b[1] EXCEPT ![Cell(e.tgt, b[2][e.tgt])] = e.src],
          [b[2] EXCEPT ![e.tgt] = @ + 1], b[3] >>
  ELSE << b[1], b[2], Append(b[3], e) >>

Pushed(arena, cnt, edges) ==
  LET pushed[m \in 0..Len(edges)] ==
        IF m = 0 THEN << arena, cnt, <<>> >> ELSE PushEdge(pushed[m - 1], edges[m])
  IN  pushed[Len(edges)]

\* Growing the arena keeps what is in it, edge_cnt.assign empties every row.
Grown(arena, n) ==
  IF Len(arena) < n * cap THEN arena \o [x \in 1..(n * cap - Len(arena)) |-> NoEdge]
                          ELSE arena
Emptied(cnt, n) == [i \in 1..n |-> 0]

\* The list of local row i of worker t.
ListOf(t, i) == SubSeq(edge_arena[t], Cell(i, 0), Cell(i, 0) + edge_cnt[t][i] - 1)

-----------------------------------------------------------------------------
Init ==
  /\ HAMMING_LEAF \in HammingLeaf
  /\ row = [i \in Point |-> {}]
  /\ todo = Leaves
  /\ pc = [t \in Thread |-> "idle"]
  /\ ids = [t \in Thread |-> <<>>]
  /\ local = [t \in Thread |-> 1]
  /\ edge_arena = [t \in Thread |-> <<>>]
  /\ edge_cnt = [t \in Thread |-> <<>>]
  /\ spill = [t \in Thread |-> <<>>]
  /\ fwd = [t \in Thread |-> <<>>]

\* A worker gets a leaf.  One of a single point is not processed.
Take(t) ==
  /\ pc[t] = "idle"
  /\ \E leaf \in todo :
       /\ todo' = todo \ {leaf}
       /\ ids' = [ids EXCEPT ![t] = leaf]
       /\ pc' = [pc EXCEPT ![t] = IF Len(leaf) < 2 THEN "idle"
                                  ELSE IF HAMMING_LEAF THEN "gather" ELSE "forward"]
  /\ local' = [local EXCEPT ![t] = 1]
  /\ UNCHANGED <<HAMMING_LEAF, row, buffers>>

\* rsq_knn, merge_row: the list of local row i, ...
MergeForward(t) ==
  /\ pc[t] = "forward"
  /\ LET me == ids[t][local[t]]
         top == Top(ids[t], local[t], HAMMING_LEAF)
         list == [r \in 1..Len(top) |-> ids[t][top[r]]]
     IN  /\ fwd' = [fwd EXCEPT ![t] = list]
         /\ \E T \in KeptAfter(me, row[me], ToSet(list)) : row' = [row EXCEPT ![me] = T]
  /\ pc' = [pc EXCEPT ![t] = "reverse"]
  /\ UNCHANGED <<HAMMING_LEAF, todo, ids, local, edge_arena, edge_cnt, spill>>

\* ... and then its point into the row of each of the list.
MergeReverse(t) ==
  /\ pc[t] = "reverse"
  /\ fwd[t] # <<>>
  /\ LET other == Head(fwd[t])
     IN  \E T \in KeptAfter(other, row[other], {ids[t][local[t]]}) :
           row' = [row EXCEPT ![other] = T]
  /\ fwd' = [fwd EXCEPT ![t] = Tail(@)]
  /\ UNCHANGED <<HAMMING_LEAF, todo, pc, ids, local, edge_arena, edge_cnt, spill>>

NextRow(t) ==
  /\ pc[t] = "reverse"
  /\ fwd[t] = <<>>
  /\ pc' = [pc EXCEPT ![t] = IF local[t] = Len(ids[t]) THEN "idle" ELSE "forward"]
  /\ local' = [local EXCEPT ![t] = @ + 1]
  /\ UNCHANGED <<HAMMING_LEAF, row, todo, ids, buffers>>

\* rsq_knn_hamming_rescore up to the merges: only thread_local state changes.
Gather(t) ==
  /\ pc[t] = "gather"
  /\ LET n == Len(ids[t])
         b == Pushed(Grown(edge_arena[t], n), Emptied(edge_cnt[t], n),
                     EdgesOf[ids[t]][HAMMING_LEAF])
     IN  /\ edge_arena' = [edge_arena EXCEPT ![t] = b[1]]
         /\ edge_cnt' = [edge_cnt EXCEPT ![t] = b[2]]
         /\ spill' = [spill EXCEPT ![t] = b[3]]
  /\ pc' = [pc EXCEPT ![t] = "sort"]
  /\ UNCHANGED <<HAMMING_LEAF, row, todo, ids, local, fwd>>

\* std::sort of the row's edges by their rescored distance: equal ones may come
\* in any order.
SortedEdges(list, i) ==
  {s \in [DOMAIN list -> ToSet(list)] :
     /\ \A x, y \in DOMAIN list : x < y => Dist[i][s[x]] <= Dist[i][s[y]]
     /\ \A e \in ToSet(list) : Cardinality({x \in DOMAIN list : s[x] = e})
                                = Cardinality({x \in DOMAIN list : list[x] = e})}

\* In place.
SortRow(t) ==
  /\ pc[t] = "sort"
  /\ local[t] <= Len(ids[t])
  /\ \E list \in SortedEdges(ListOf(t, local[t]), ids[t][local[t]]) :
       LET first == Cell(local[t], 0)
       IN  edge_arena' = [edge_arena EXCEPT ![t] =
             [x \in DOMAIN @ |-> IF x \in first..(first + Len(list) - 1)
                                 THEN list[x - first + 1] ELSE @[x]]]
  /\ pc' = [pc EXCEPT ![t] = "merge"]
  /\ UNCHANGED <<HAMMING_LEAF, row, todo, ids, local, edge_cnt, spill, fwd>>

MergeRow(t) ==
  /\ pc[t] = "merge"
  /\ LET me == ids[t][local[t]]
     IN  \E T \in KeptAfter(me, row[me], ToSet(ListOf(t, local[t]))) :
           row' = [row EXCEPT ![me] = T]
  /\ local' = [local EXCEPT ![t] = @ + 1]
  /\ pc' = [pc EXCEPT ![t] = "sort"]
  /\ UNCHANGED <<HAMMING_LEAF, todo, ids, buffers>>

\* The edges that were spilled are merged one by one, then the worker is free.
MergeSpill(t) ==
  /\ pc[t] = "sort"
  /\ local[t] > Len(ids[t])
  /\ spill[t] # <<>>
  /\ LET me == ids[t][Head(spill[t]).tgt]
     IN  \E T \in KeptAfter(me, row[me], {Head(spill[t]).src}) :
           row' = [row EXCEPT ![me] = T]
  /\ spill' = [spill EXCEPT ![t] = Tail(@)]
  /\ UNCHANGED <<HAMMING_LEAF, todo, pc, ids, local, edge_arena, edge_cnt, fwd>>

Leave(t) ==
  /\ pc[t] = "sort"
  /\ local[t] > Len(ids[t])
  /\ spill[t] = <<>>
  /\ pc' = [pc EXCEPT ![t] = "idle"]
  /\ UNCHANGED <<HAMMING_LEAF, row, todo, ids, local, buffers>>

Done == todo = {} /\ \A t \in Thread : pc[t] = "idle"
Finished == Done /\ UNCHANGED vars

Step(t) == \/ Take(t) \/ MergeForward(t) \/ MergeReverse(t) \/ NextRow(t) \/ Gather(t)
           \/ SortRow(t) \/ MergeRow(t) \/ MergeSpill(t) \/ Leave(t)

Next == Finished \/ \E t \in Thread : Step(t)

Spec == Init /\ [][Next]_vars
-----------------------------------------------------------------------------
InRows(t) == pc[t] \in {"sort", "merge"}

\* The buffers never show a worker an edge of an earlier leaf: what is about to
\* be merged into a row joins two different points of the leaf it is at.
OnlyThisLeaf ==
  \A t \in Thread : InRows(t) =>
    /\ \A i \in 1..Len(ids[t]) :
         ToSet(ListOf(t, i)) \subseteq ToSet(ids[t]) \ {ids[t][i]}
    /\ \A e \in ToSet(spill[t]) : e.src \in ToSet(ids[t]) \ {ids[t][e.tgt]}

\* merge_neighbors stops at the first pair a full row has no use for: a list
\* that is not in ascending order of the distances it is merged with would
\* lose neighbours.
ListsAscending ==
  \A t \in Thread :
    /\ pc[t] = "merge" =>
         LET list == ListOf(t, local[t])
         IN  \A m, n \in 1..Len(list) :
               m < n => Dist[ids[t][local[t]]][list[m]] <= Dist[ids[t][local[t]]][list[n]]
    /\ pc[t] = "reverse" =>
         \A m, n \in 1..Len(fwd[t]) :
           m < n => Dist[ids[t][local[t]]][fwd[t][m]] <= Dist[ids[t][local[t]]][fwd[t][n]]

\* Every edge of a leaf, and of all leaves, in either direction.
LeafEdges(leaf) ==
  IF Len(leaf) < 2 THEN {}
  ELSE {<<leaf[e.tgt], e.src>> : e \in ToSet(EdgesOf[leaf][HAMMING_LEAF])}
AllEdges == UNION {LeafEdges(leaf) : leaf \in Leaves}

\* No edge is lost, on whichever worker, and however full the buffers are: when
\* all leaves are done a row has the distances of the k nearest of its edges.
RowsHaveLeafEdges ==
  Done => LET edges == AllEdges IN
          \A i \in Point :
            LET into == {j \in Point : <<i, j>> \in edges}
            IN  \A d \in {Dist[i][j] : j \in Point} :
                  LET all == CountWithin(i, into, d)
                  IN  CountWithin(i, row[i], d) = IF all < k THEN all ELSE k

\* rsq_knn, rsq_knn_hamming_rescore: what is about to be merged into a row is of
\* this leaf, not of one the buffers held before, and in ascending order; and no
\* edge of any leaf is lost.
TableHasLeafEdges == OnlyThisLeaf /\ ListsAscending /\ RowsHaveLeafEdges
=============================================================================
