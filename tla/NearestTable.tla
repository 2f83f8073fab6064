---------------------------- MODULE NearestTable ----------------------------
(***************************************************************************)
(* The promise of the nearest-neighbour table: any number of callers merge *)
(* sets of neighbours into its rows, each merge happens at once, and a row *)
(* then holds the k nearest of all it has been given.                      *)
(***************************************************************************)
EXTENDS Nearest

VARIABLES
  kept,   \* kept[i]: the ids in row i
  given   \* given[i]: every id merged into row i so far

Init == /\ kept = [i \in Point |-> {}]
        /\ given = [i \in Point |-> {}]

Merge(i, S) ==
  /\ \E T \in KeptAfter(i, kept[i], S) : kept' = [kept EXCEPT ![i] = T]
  /\ given' = [given EXCEPT ![i] = @ \cup S]

Next == \E i \in Point : \E S \in SUBSET Point : Merge(i, S)

Spec == Init /\ [][Next]_<<kept, given>>
=============================================================================
