------------------------------ MODULE TopKList ------------------------------
(***************************************************************************)
(* The insertion every top-K kernel is built on: InsertTopK and the        *)
(* compare-and-displace network of assignleaders_rsq.cc, InsertTopKFused   *)
(* and ScalarInsertTopK of processleaf_rsq.cc.  A list is kept in          *)
(* ascending order; a new entry goes behind the entries that are no        *)
(* farther, and the K+1st falls out.  The unused places of the code's      *)
(* arrays (score FLT_MAX, index -1) are not part of the list.              *)
(***************************************************************************)
EXTENDS Integers, Sequences, SequencesExt

InsertTopK(list, e, K) ==
  LET before == SelectSeq(list, LAMBDA x : x.s <= e.s)
      after == SelectSeq(list, LAMBDA x : x.s > e.s)
      longer == before \o <<e>> \o after
  IN  SubSeq(longer, 1, IF Len(longer) < K THEN Len(longer) ELSE K)

InsertAll(list, entries, K) ==
  FoldLeft(LAMBDA l, e : InsertTopK(l, e, K), list, entries)

\* What a list of at most K entries drawn from a bag is for: `copies[j]' says
\* how often j is in the bag, `score[j]' at what score.
IsTopList(list, K, copies, score) ==
  LET times(j) == Cardinality({x \in 1..Len(list) : list[x].i = j})
  IN  /\ Len(list) <= K
      /\ \A x \in 1..Len(list) : /\ list[x].i \in DOMAIN copies
                                 /\ list[x].s = score[list[x].i]
      /\ \A x, y \in 1..Len(list) : x < y => list[x].s <= list[y].s
      /\ \A j \in DOMAIN copies :
           /\ times(j) <= copies[j]
           /\ times(j) < copies[j] =>
                Len(list) = K /\ \A x \in 1..K : list[x].s <= score[j]
=============================================================================
