--------------------------- MODULE KnnHeapAtomic ---------------------------
(***************************************************************************)
(* KnnHeap seen from its callers: between Lock and Unlock a row still      *)
(* counts as what it was at Lock, and the whole call happens at Unlock.    *)
(* atLock is a history variable, read only by the refinement mapping.      *)
(***************************************************************************)
EXTENDS KnnHeap

CONSTANT Dist   \* the one distance of each pair of points

ASSUME ConsistentCalls ==
  \A c \in Calls : \A p \in 1..Len(c.cand) : c.cand[p].d = Dist[c.row][c.cand[p].id]

VARIABLES
  atLock,   \* atLock[i]: the ids of row i when its mutex was last taken
  merged    \* merged[i]: the ids of the calls on row i that have returned

RowIds(i) == {e.id : e \in Row(i)}

InitA == /\ Init
         /\ atLock = [i \in Point |-> {}]
         /\ merged = [i \in Point |-> {}]

LockA(t) == /\ Lock(t)
            /\ atLock' = [atLock EXCEPT ![RowOf(t)] = RowIds(RowOf(t))]
            /\ UNCHANGED merged

UnlockA(t) == /\ Unlock(t)
              /\ merged' = [merged EXCEPT ![RowOf(t)] =
                              @ \cup {call[t].cand[p].id : p \in 1..Len(call[t].cand)}]
              /\ UNCHANGED atLock

OtherA == /\ \/ \E t \in Thread : \/ Begin(t) \/ Break(t) \/ Skip(t) \/ Decide(t)
                                  \/ Append1(t) \/ Replace(t) \/ EndOfList(t)
             \/ \E i \in Point : SortRow(i)
             \/ Terminated
          /\ UNCHANGED <<atLock, merged>>

NextA == OtherA \/ \E t \in Thread : LockA(t) \/ UnlockA(t)

SpecA == InitA /\ [][NextA]_<<vars, atLock, merged>> /\ Fairness

Table == INSTANCE NearestTable WITH
           k <- kMaxDegree,
           kept <- [i \in Point |-> IF locks[i] = NoThread THEN RowIds(i) ELSE atLock[i]],
           given <- merged

\* A merge_neighbors call is atomic: the rows, as callers can see them, change
\* as if the whole sorted list were merged at once when the mutex is released.
ImplementsNearestTable == Table!Spec
=============================================================================
