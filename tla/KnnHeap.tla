------------------------------ MODULE KnnHeap ------------------------------
(***************************************************************************)
(* NghDistGraphHeap (engine/algorithms/utils/graph.h): the table of the    *)
(* nearest neighbours found so far, one row per point, that every leaf of  *)
(* every cluster tree and every NN-descent sweep merges into.              *)
(*                                                                         *)
(* A row is an array of kMaxDegree cells with its degree in front and a    *)
(* mutex beside it.  merge_neighbors(i, r) locks row i and walks r, a list *)
(* of (neighbour, distance) pairs its callers sort by distance, one pair   *)
(* at a time.  The pairs are examined and written in separate steps here,  *)
(* so that what the mutex protects is visible.                             *)
(*                                                                         *)
(* Abstraction: the cells are a binary max-heap in the code, of which only *)
(* neighbors[0], a cell of largest distance, is ever read.  The model      *)
(* leaves a pair in the slot it was written to and lets any slot of        *)
(* largest distance stand for neighbors[0].                                *)
(***************************************************************************)
EXTENDS Integers, Sequences, FiniteSets

CONSTANTS
  Point,       \* the points: the rows of the table and the ids stored in it
  Distance,    \* the distances that occur, a set of integers
  Thread,      \* the scheduler's workers
  kMaxDegree,  \* cells of a row
  Calls,       \* the merge_neighbors calls that may be made
  kEmptyCell,  \* what allocate_graph fills the cells with
  NoThread     \* an unlocked mutex

Entry == [id : Point, d : Distance]

\* The pairs of a call are sorted by distance: by the sorts before the merges
\* in pipnn_utils.h, or because the call carries one pair.
Ascending(s) == \A m, n \in 1..Len(s) : m <= n => s[m].d <= s[n].d

ASSUME KnnHeapAssumption ==
  /\ Distance \subseteq Int
  /\ kMaxDegree \in Nat \ {0}
  /\ NoThread \notin Thread
  /\ \A c \in Calls : /\ c.row \in Point
                      /\ c.cand \in Seq(Entry)
                      /\ Ascending(c.cand)

VARIABLES
  locks,    \* locks[i]: the thread that holds row i's mutex, or NoThread
  degree,   \* degree[i]: tables[offset].first
  cell,     \* cell[i][s]: the pair in slot s of row i
  todo,     \* the calls not made yet
  pc,       \* where each thread is in merge_neighbors
  call,     \* the arguments of each thread's call
  pos,      \* the position in call[t].cand of the pair in hand
  sorted,   \* the rows finalize() has sorted
  offered   \* history: the pairs each row has been offered, kept or not

vars == <<locks, degree, cell, todo, pc, call, pos, sorted, offered>>

Slot == 1..kMaxDegree
Used(i) == 1..degree[i]
Row(i) == {cell[i][s] : s \in Used(i)}
Full_OneMore(i) == degree[i] > kMaxDegree
Full(i) == degree[i] = kMaxDegree

\* Slot s holds a pair that may be neighbors[0].
IsRoot(i, s) == s \in Used(i) /\ \A u \in Used(i) : cell[i][u].d <= cell[i][s].d

IsPresent(i, e) == \E s \in Used(i) : cell[i][s].id = e.id

Pair(t) == call[t].cand[pos[t]]
RowOf(t) == call[t].row

-----------------------------------------------------------------------------
NoCall == [row |-> NoThread, cand |-> <<>>]

\* allocate_graph: every cell empty, every degree 0; any set of calls may come.
Init ==
  /\ locks = [i \in Point |-> NoThread]
  /\ degree = [i \in Point |-> 0]
  /\ cell = [i \in Point |-> [s \in Slot |-> kEmptyCell]]
  /\ todo \in SUBSET Calls
  /\ pc = [t \in Thread |-> "idle"]
  /\ call = [t \in Thread |-> NoCall]
  /\ pos = [t \in Thread |-> 1]
  /\ sorted = {}
  /\ offered = [i \in Point |-> {}]

\* A worker that runs a loop body reaches its next merge_neighbors call.
Begin(t) ==
  /\ pc[t] = "idle"
  /\ \E c \in todo : /\ todo' = todo \ {c}
                     /\ call' = [call EXCEPT ![t] = c]
  /\ pc' = [pc EXCEPT ![t] = "lock"]
  /\ pos' = [pos EXCEPT ![t] = 1]
  /\ UNCHANGED <<locks, degree, cell, sorted, offered>>

Lock_NoMutex(t) ==
  /\ pc[t] = "lock"
  /\ locks' = [locks EXCEPT ![RowOf(t)] = t]
  /\ pc' = [pc EXCEPT ![t] = "scan"]
  /\ UNCHANGED <<degree, cell, todo, call, pos, sorted, offered>>

Lock(t) ==
  /\ pc[t] = "lock"
  /\ locks[RowOf(t)] = NoThread
  /\ locks' = [locks EXCEPT ![RowOf(t)] = t]
  /\ pc' = [pc EXCEPT ![t] = "scan"]
  /\ UNCHANGED <<degree, cell, todo, call, pos, sorted, offered>>

\* The loop's `break': a full row whose farthest pair is no farther than the
\* pair in hand.  The pairs after it are not looked at.
StopsAt_Early(i, e) == \E s \in Slot : IsRoot(i, s) /\ e.d >= cell[i][s].d
StopsAt_Never(i, e) == FALSE
StopsAt(i, e) == Full(i) /\ \E s \in Slot : IsRoot(i, s) /\ e.d >= cell[i][s].d

Break_KeepsLock(t) ==
  /\ pc[t] = "scan"
  /\ pos[t] <= Len(call[t].cand)
  /\ StopsAt(RowOf(t), Pair(t))
  /\ pc' = [pc EXCEPT ![t] = "idle"]
  /\ UNCHANGED <<locks, degree, cell, todo, call, pos, sorted, offered>>

Break(t) ==
  /\ pc[t] = "scan"
  /\ pos[t] <= Len(call[t].cand)
  /\ StopsAt(RowOf(t), Pair(t))
  /\ pc' = [pc EXCEPT ![t] = "unlock"]
  /\ offered' = [offered EXCEPT ![RowOf(t)] =
                   @ \cup {call[t].cand[p] : p \in pos[t]..Len(call[t].cand)}]
  /\ UNCHANGED <<locks, degree, cell, todo, call, pos, sorted>>

\* `if (is_present(ngh)) continue': an id already in the row keeps the
\* distance it was first stored with.
Skip(t) ==
  /\ pc[t] = "scan"
  /\ pos[t] <= Len(call[t].cand)
  /\ ~StopsAt(RowOf(t), Pair(t))
  /\ IsPresent(RowOf(t), Pair(t))
  /\ pos' = [pos EXCEPT ![t] = @ + 1]
  /\ offered' = [offered EXCEPT ![RowOf(t)] = @ \cup {Pair(t)}]
  /\ UNCHANGED <<locks, degree, cell, todo, pc, call, sorted>>

\* The pair is to be stored: appended, or in place of the farthest one.
Decide(t) ==
  /\ pc[t] = "scan"
  /\ pos[t] <= Len(call[t].cand)
  /\ ~StopsAt(RowOf(t), Pair(t))
  /\ ~IsPresent(RowOf(t), Pair(t))
  /\ pc' = [pc EXCEPT ![t] = IF Full(RowOf(t)) THEN "replace" ELSE "append"]
  /\ UNCHANGED <<locks, degree, cell, todo, call, pos, sorted, offered>>

\* Both branches end the turn of the loop.
EndTurn(t) ==
  /\ pc' = [pc EXCEPT ![t] = "scan"]
  /\ pos' = [pos EXCEPT ![t] = @ + 1]
  /\ offered' = [offered EXCEPT ![RowOf(t)] = @ \cup {Pair(t)}]
  /\ UNCHANGED <<locks, todo, call, sorted>>

Append1(t) ==
  /\ pc[t] = "append"
  /\ cell' = [cell EXCEPT ![RowOf(t)][degree[RowOf(t)] + 1] = Pair(t)]
  /\ degree' = [degree EXCEPT ![RowOf(t)] = @ + 1]
  /\ EndTurn(t)

Replace(t) ==
  /\ pc[t] = "replace"
  /\ \E s \in Slot : /\ IsRoot(RowOf(t), s)
                     /\ cell' = [cell EXCEPT ![RowOf(t)][s] = Pair(t)]
  /\ UNCHANGED degree
  /\ EndTurn(t)

EndOfList(t) ==
  /\ pc[t] = "scan"
  /\ pos[t] > Len(call[t].cand)
  /\ pc' = [pc EXCEPT ![t] = "unlock"]
  /\ UNCHANGED <<locks, degree, cell, todo, call, pos, sorted, offered>>

Unlock(t) ==
  /\ pc[t] = "unlock"
  /\ locks' = [locks EXCEPT ![RowOf(t)] = NoThread]
  /\ pc' = [pc EXCEPT ![t] = "idle"]
  /\ UNCHANGED <<degree, cell, todo, call, pos, sorted, offered>>

\* Every parallel loop that merges has been joined.
Quiescent == todo = {} /\ \A t \in Thread : pc[t] = "idle"

\* f holds the pairs of row i, permuted into ascending order.
SortedRow(i, f) ==
  /\ \E p \in [Used(i) -> Used(i)] :
       /\ \A u, v \in Used(i) : p[u] = p[v] => u = v
       /\ \A v \in Used(i) : \E u \in Used(i) : p[u] = v
       /\ f = [s \in Slot |-> IF s \in Used(i) THEN cell[i][p[s]] ELSE cell[i][s]]
  /\ \A u, v \in Used(i) : u <= v => f[u].d <= f[v].d

\* finalize(): sort_heap on every row, in any order, after the last merge.
SortRow(i) ==
  /\ Quiescent
  /\ i \notin sorted
  /\ \E f \in [Slot -> Row(i) \cup {kEmptyCell}] :
       SortedRow(i, f) /\ cell' = [cell EXCEPT ![i] = f]
  /\ sorted' = sorted \cup {i}
  /\ UNCHANGED <<locks, degree, todo, pc, call, pos, offered>>

Done == Quiescent /\ sorted = Point
Terminated == Done /\ UNCHANGED vars

Merge(t) == \/ Begin(t) \/ Lock(t) \/ Break(t) \/ Skip(t) \/ Decide(t)
            \/ Append1(t) \/ Replace(t) \/ EndOfList(t) \/ Unlock(t)

Next == \/ \E t \in Thread : Merge(t)
        \/ \E i \in Point : SortRow(i)
        \/ Terminated

Spec == Init /\ [][Next]_vars

\* Workers keep running; a mutex that is free over and over is obtained in the
\* end (absl::Mutex queues its waiters).
Fairness == /\ \A t \in Thread : WF_vars(Merge(t)) /\ SF_vars(Lock(t))
            /\ \A i \in Point : WF_vars(SortRow(i))

FairSpec == Spec /\ Fairness
-----------------------------------------------------------------------------
InCall(t) == pc[t] \in {"scan", "append", "replace", "unlock"}

TypeOK ==
  /\ locks \in [Point -> Thread \cup {NoThread}]
  /\ degree \in [Point -> 0..kMaxDegree]
  /\ cell \in [Point -> [Slot -> Entry \cup {kEmptyCell}]]
  /\ \A i \in Point : \A s \in Used(i) : cell[i][s] \in Entry
  /\ todo \subseteq Calls
  /\ pc \in [Thread -> {"idle", "lock", "scan", "append", "replace", "unlock"}]
  /\ call \in [Thread -> Calls \cup {NoCall}]
  /\ \A t \in Thread : pc[t] # "idle" => call[t] \in Calls
  /\ pos \in [Thread -> Nat \ {0}]
  /\ \A t \in Thread : pc[t] \in {"append", "replace"} => pos[t] <= Len(call[t].cand)
  /\ sorted \subseteq Point
  /\ offered \in [Point -> SUBSET Entry]

\* No id occupies two cells of a row, whichever threads merged into it.  The
\* duplicate check of merge_neighbors reads the row some steps before it writes.
DistinctIds ==
  \A i \in Point : \A u, v \in Used(i) : cell[i][u].id = cell[i][v].id => u = v

\* A row holds nothing but what it was offered, and forgets nothing it should
\* have kept: an id that was offered and is not in the row was offered at a
\* distance no smaller than every distance of a row that is full.  When a pair
\* of points always comes with one distance, this says the row holds the
\* kMaxDegree nearest of all it was ever offered, whatever the order and the
\* interleaving of the merges.
KeepsNearest ==
  \A i \in Point :
     /\ Row(i) \subseteq offered[i]
     /\ \A x \in offered[i] :
           \/ IsPresent(i, x)
           \/ /\ Full(i)
              /\ \E y \in offered[i] : /\ y.id = x.id
                                       /\ \A s \in Used(i) : cell[i][s].d <= y.d

CountWithin(i, d) == Cardinality({s \in Used(i) : cell[i][s].d <= d})

\* A row never gets worse: the number of its neighbours within any distance
\* never falls, through merges, evictions and the final sort.
RowsOnlyImprove ==
  [][\A i \in Point, d \in Distance : CountWithin(i, d)' >= CountWithin(i, d)]_vars

\* Every merge finishes and every row is sorted: no mutex is left locked and no
\* thread waits for ever.
AllRowsSorted == <>[]Done
=============================================================================
