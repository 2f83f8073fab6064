------------------------------ MODULE TwoRuns ------------------------------
(***************************************************************************)
(* Two runs of the same build side by side, each with its own table and    *)
(* its own schedule: do they write the same result?  A row of the result   *)
(* is a row of the finalized table (verify/compare_results.py compares the *)
(* results of two runs).                                                   *)
(***************************************************************************)
EXTENDS Integers, Sequences

CONSTANTS Point, Distance, Thread, kMaxDegree, Calls, kEmptyCell, NoThread

VARIABLES
  locks1, degree1, cell1, todo1, pc1, call1, pos1, sorted1, offered1,
  locks2, degree2, cell2, todo2, pc2, call2, pos2, sorted2, offered2

run1 == <<locks1, degree1, cell1, todo1, pc1, call1, pos1, sorted1, offered1>>
run2 == <<locks2, degree2, cell2, todo2, pc2, call2, pos2, sorted2, offered2>>

One == INSTANCE KnnHeap WITH
         locks <- locks1, degree <- degree1, cell <- cell1, todo <- todo1,
         pc <- pc1, call <- call1, pos <- pos1, sorted <- sorted1, offered <- offered1
Two == INSTANCE KnnHeap WITH
         locks <- locks2, degree <- degree2, cell <- cell2, todo <- todo2,
         pc <- pc2, call <- call2, pos <- pos2, sorted <- sorted2, offered <- offered2

\* Both runs make all the calls: the leaves depend on seeds and codes alone.
Init == One!Init /\ Two!Init /\ todo1 = Calls /\ todo2 = Calls

\* Run 2 goes when run 1 is through; how their steps interleave is no matter.
Next == \/ One!Next /\ ~One!Done /\ UNCHANGED run2
        \/ One!Done /\ Two!Next /\ UNCHANGED run1

Spec == Init /\ [][Next]_<<run1, run2>>

Ids(cell, degree, i) == [s \in 1..degree[i] |-> cell[i][s].id]

\* verify/compare_results.py of the neighbour lists of two runs: "knns is the
\* graded output and must match exactly".
SameGraph ==
  One!Done /\ Two!Done =>
    \A i \in Point : Ids(cell1, degree1, i) = Ids(cell2, degree2, i)
=============================================================================
