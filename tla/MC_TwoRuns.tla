---------------------------- MODULE MC_TwoRuns ----------------------------
(***************************************************************************)
(* TwoRuns for TLC: two lists for row 1, rows of two cells, and two        *)
(* neighbours that tie for the last cell.                                  *)
(***************************************************************************)
EXTENDS TwoRuns

Pr(p, x) == [id |-> p, d |-> x]
Lst(i, s) == [row |-> i, cand |-> s]

MCPoint == 1..4
MCDistance == 1..4
MCTied == { Lst(1, <<Pr(2, 1), Pr(3, 2)>>), Lst(1, <<Pr(2, 1), Pr(4, 2)>>) }
=============================================================================
