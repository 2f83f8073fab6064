-------------------------- MODULE MC_KnnHeapAtomic --------------------------
(***************************************************************************)
(* KnnHeapAtomic for TLC: four points, rows of two cells, lists longer     *)
(* than a row holds, ties inside a list and across lists, forward lists    *)
(* and reverse merges of one pair.  All the calls there are, or all but    *)
(* some.                                                                   *)
(***************************************************************************)
EXTENDS KnnHeapAtomic

MCPoint == 1..4
MCDistance == 0..3
MCDist == << <<0, 2, 3, 2>>, <<2, 0, 1, 3>>, <<3, 1, 0, 2>>, <<2, 3, 2, 0>> >>

Pr(i, p) == [id |-> p, d |-> MCDist[i][p]]
Lst(i, p, q, r) == [row |-> i, cand |-> <<Pr(i, p), Pr(i, q), Pr(i, r)>>]
One(i, p) == [row |-> i, cand |-> <<Pr(i, p)>>]

MCCalls == { Lst(1, 2, 4, 3), Lst(1, 4, 2, 3), One(1, 3), One(1, 4),
             Lst(2, 3, 1, 4), One(2, 1) }
=============================================================================
