---------------------------- MODULE LeafBatches ----------------------------
(***************************************************************************)
(* How ProcessLeafTopKFused (processleaf_rsq.cc) halves its work: the      *)
(* points of a leaf are taken in batches of kMqFull, and a batch is scored *)
(* only against the panels of kPoints points up to its own last point.  A  *)
(* score serves both points.  Pairs whose points are in one batch, or in   *)
(* the last panel of a batch, come up for both.  Points count from 0.      *)
(***************************************************************************)
EXTENDS Integers

CONSTANTS
  kMqFull,   \* queries of a batch
  kPoints    \* points of a panel

LeafBatchesAssumption == kMqFull \in Nat \ {0} /\ kPoints \in Nat \ {0}

\* One past the last point of the batch from q_start on, in a leaf of n.
BatchEnd(q_start, n) == IF q_start + kMqFull < n THEN q_start + kMqFull ELSE n

panels_needed(q_start, n) == (BatchEnd(q_start, n) + kPoints - 1) \div kPoints

\* The batch of q is scored against i.
Scores(q, i, n) == i < n /\ i < panels_needed(q - (q % kMqFull), n) * kPoints

\* How often the pair i, j is scored: at least once, as the batch of the later
\* one reaches the earlier one.
TimesScored(i, j, n) ==
  (IF Scores(i, j, n) THEN 1 ELSE 0) + (IF Scores(j, i, n) THEN 1 ELSE 0)
=============================================================================
