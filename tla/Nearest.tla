------------------------------ MODULE Nearest ------------------------------
(***************************************************************************)
(* What one merge_neighbors call does to a row, as a relation between sets *)
(* of ids: the meaning of the table for the code that merges into it.      *)
(* KnnHeapAtomic shows that the locked, pair-by-pair loop has it.          *)
(* A pair of points has one distance here.                                 *)
(***************************************************************************)
EXTENDS Integers, FiniteSets

CONSTANTS
  Point,
  k,     \* width of a row: kMaxDegree, set to k_build by build_topk
  Dist   \* Dist[i][j]: the distance the kernels compute for i and j

\* T is a choice of the k elements of S nearest to i, or all if there are fewer.
IsNearest(i, T, S) ==
  /\ T \subseteq S
  /\ Cardinality(T) <= k
  /\ T # S => Cardinality(T) = k
  /\ \A x \in S \ T, y \in T : Dist[i][y] <= Dist[i][x]

\* The rows a merge of the pairs S can leave behind in row i, which held R.  A
\* pair in the row is only displaced by a strictly nearer one.
KeptAfter(i, R, S) ==
  {T \in SUBSET (R \cup S) :
     /\ IsNearest(i, T, R \cup S)
     /\ \A x \in T \ R, y \in R \ T : Dist[i][x] < Dist[i][y]}

\* How many of S are within distance d of i: all that ties leave determined.
CountWithin(i, S, d) == Cardinality({x \in S : Dist[i][x] <= d})
=============================================================================
