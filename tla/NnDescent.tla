----------------------------- MODULE NnDescent -----------------------------
(***************************************************************************)
(* nn_descent_pass (engine/algorithms/PipNN/pipnn_utils.h) and the loop of *)
(* build_topk that runs it: every pass copies the rows of the table, then  *)
(* lets every point look for neighbours among its neighbours' neighbours   *)
(* in the copy, and merges what it scores into the live table, both ways.  *)
(* Points are handled by a parallel_for in any order and at the same time; *)
(* a merge is atomic (KnnHeapAtomic).                                      *)
(***************************************************************************)
EXTENDS Nearest

CONSTANTS
  Passes,     \* -nn_descent
  FilterC,    \* -nnd_filter: how many candidates are rescored; 0 for all
  Settings,   \* the settings to be tried
  Ham,        \* Ham[u][w]: Hamming distance of the 1-bit codes
  HashSlots,  \* kHashSlots, the size of the table of the ids already seen
  Tables      \* the tables the cluster trees may leave behind

ASSUME NnDescentAssumption ==
  /\ IsFiniteSet(Point) /\ Dist \in [Point -> [Point -> Int]]
  /\ k \in Nat \ {0} /\ Passes \in Nat /\ FilterC \in Nat
  /\ \A s \in Settings : s.expand_m \in Nat /\ s.panel \in BOOLEAN
  /\ HashSlots \in Nat \ {0}
  /\ \A tb \in Tables : /\ tb \in [Point -> SUBSET Point]
                        /\ \A u \in Point : u \notin tb[u] /\ Cardinality(tb[u]) <= k

VARIABLES
  setting,  \* .expand_m: how many neighbours -nnd_expand_m expands, 0 for all
            \* .panel: the 1-bit panel was built (rsqpr1 is not null)
  row,    \* row[u]: the live heap row of u
  snap,   \* snap[u]: u's row of the copy the running pass reads
  phase,  \* "snapshot", "sweep" or "final", separated by joins
  pass,   \* passes completed
  pc,     \* where the loop body of each point is
  fwd     \* fwd[u]: the scored candidates of u that are still to be merged

vars == <<setting, row, snap, phase, pass, pc, fwd>>

\* The first m of S by (distance, id): std::sort of a row, nth_element of the
\* candidates.
FirstOf(S, m, distance) ==
  {v \in S : Cardinality({w \in S : \/ distance[w] < distance[v]
                                    \/ distance[w] = distance[v] /\ w < v}) < m}

\* The neighbours whose rows are walked: m_out of them, the nearest if the
\* copy was sorted, all of them otherwise.
Expanded(u) ==
  IF setting.expand_m > 0 THEN FirstOf(snap[u], setting.expand_m, Dist[u])
                          ELSE snap[u]

Walked_Live(u) == UNION {row[v] : v \in Expanded(u)}
Walked(u) == UNION {snap[v] : v \in Expanded(u)}

\* Ids that insert_new puts in the hash table; only those it has not seen
\* before become candidates.
Seen(u) == {u} \cup snap[u] \cup Walked(u)
Cand_SelfUnseen(u) == Walked(u) \ snap[u]
Cand(u) == Walked(u) \ ({u} \cup snap[u])

\* Too many candidates are cut down by Hamming distance, if there is a panel.
Scored(u) ==
  IF setting.panel /\ FilterC > 0 /\ Cardinality(Cand(u)) > FilterC
  THEN FirstOf(Cand(u), FilterC, Ham[u])
  ELSE Cand(u)

\* The probe loop of insert_new ends for every id of u only while the table
\* has a slot for each.
TableHasRoom(u) == Cardinality(Seen(u)) <= HashSlots

-----------------------------------------------------------------------------
Init ==
  /\ setting \in Settings
  /\ row \in Tables
  /\ snap = [u \in Point |-> {}]
  /\ phase = IF Passes = 0 THEN "final" ELSE "snapshot"
  /\ pass = 0
  /\ pc = [u \in Point |-> "start"]
  /\ fwd = [u \in Point |-> {}]

\* First parallel_for: copy row u.
TakeSnapshot(u) ==
  /\ phase = "snapshot"
  /\ pc[u] = "start"
  /\ snap' = [snap EXCEPT ![u] = row[u]]
  /\ pc' = [pc EXCEPT ![u] = "done"]
  /\ UNCHANGED <<setting, row, phase, pass, fwd>>

JoinSnapshot ==
  /\ phase = "snapshot"
  /\ \A u \in Point : pc[u] = "done"
  /\ phase' = "sweep"
  /\ pc' = [u \in Point |-> "start"]
  /\ UNCHANGED <<setting, row, snap, pass, fwd>>

\* Second parallel_for, body of u up to the sort: reads only the copy.  A body
\* whose hash table fills up probes for ever, which is to say takes no step.
Collect(u) ==
  /\ phase = "sweep"
  /\ pc[u] = "start"
  /\ UNCHANGED <<setting, row, snap, phase, pass>>
  /\ TableHasRoom(u)
  /\ fwd' = [fwd EXCEPT ![u] = Scored(u)]
  /\ pc' = [pc EXCEPT ![u] = IF Cand(u) = {} THEN "done" ELSE "forward"]

MergeForward_Overwrites(u) ==
  /\ pc[u] = "forward"
  /\ pc' = [pc EXCEPT ![u] = "reverse"]
  /\ UNCHANGED <<setting, snap, phase, pass, fwd>>
  /\ \E T \in KeptAfter(u, {}, fwd[u]) : row' = [row EXCEPT ![u] = T]

MergeForward(u) ==
  /\ pc[u] = "forward"
  /\ pc' = [pc EXCEPT ![u] = "reverse"]
  /\ UNCHANGED <<setting, snap, phase, pass, fwd>>
  /\ \E T \in KeptAfter(u, row[u], fwd[u]) : row' = [row EXCEPT ![u] = T]

\* The reverse merges, nearest first.
MergeReverse(u) ==
  /\ pc[u] = "reverse"
  /\ \E w \in fwd[u] :
       /\ \A x \in fwd[u] : Dist[u][w] <= Dist[u][x]
       /\ fwd' = [fwd EXCEPT ![u] = @ \ {w}]
       /\ pc' = [pc EXCEPT ![u] = IF fwd[u] = {w} THEN "done" ELSE "reverse"]
       /\ \E T \in KeptAfter(w, row[w], {u}) : row' = [row EXCEPT ![w] = T]
  /\ UNCHANGED <<setting, snap, phase, pass>>

JoinSweep_NoCount ==
  /\ phase = "sweep"
  /\ \A u \in Point : pc[u] = "done"
  /\ pass' = pass
  /\ phase' = IF pass + 1 = Passes THEN "final" ELSE "snapshot"
  /\ pc' = [u \in Point |-> "start"]
  /\ UNCHANGED <<setting, row, snap, fwd>>

JoinSweep ==
  /\ phase = "sweep"
  /\ \A u \in Point : pc[u] = "done"
  /\ pass' = pass + 1
  /\ phase' = IF pass + 1 = Passes THEN "final" ELSE "snapshot"
  /\ pc' = [u \in Point |-> "start"]
  /\ UNCHANGED <<setting, row, snap, fwd>>

\* build_topk goes on to finalize().
Finished == phase = "final" /\ UNCHANGED vars

Body(u) == \/ TakeSnapshot(u) \/ Collect(u) \/ MergeForward(u) \/ MergeReverse(u)

Next == \/ \E u \in Point : Body(u)
        \/ JoinSnapshot \/ JoinSweep \/ Finished

Spec == Init /\ [][Next]_vars

\* parallel_for runs every body to its end and joins.
Fairness == /\ \A u \in Point : WF_vars(Body(u))
            /\ WF_vars(JoinSnapshot) /\ WF_vars(JoinSweep)

FairSpec == Spec /\ Fairness
-----------------------------------------------------------------------------
TypeOK ==
  /\ setting \in Settings
  /\ row \in [Point -> SUBSET Point]
  /\ snap \in [Point -> SUBSET Point]
  /\ phase \in {"snapshot", "sweep", "final"}
  /\ pass \in 0..Passes
  /\ pc \in [Point -> {"start", "forward", "reverse", "done"}]
  /\ fwd \in [Point -> SUBSET Point]

\* No point becomes its own neighbour, although every neighbour of a point
\* usually has that point in its row.
NoSelfLoops == TypeOK /\ \A u \in Point : u \notin row[u]

\* What a whole pass owes row i: its own scored candidates and every point
\* that scored i, all chosen from the table as it was before the pass.
Gained(i) == Scored(i) \cup {u \in Point : i \in Scored(u)}

\* The outcome of a pass does not depend on how the loop bodies interleave: a
\* row ends with the distances of the k nearest of its old content and of what
\* the old table promised it.
PassIsDeterminate ==
  phase = "sweep" /\ (\A u \in Point : pc[u] = "done") =>
    \A i \in Point : \A d \in {Dist[i][j] : j \in Point} :
       LET all == CountWithin(i, snap[i] \cup Gained(i), d)
       IN  CountWithin(i, row[i], d) = IF all < k THEN all ELSE k

\* Rows never get worse within a pass or from one pass to the next.
RowsOnlyImprove ==
  [][\A i \in Point : row'[i] # row[i] =>
       \A d \in {Dist[i][j] : j \in Point} :
          CountWithin(i, row'[i], d) >= CountWithin(i, row[i], d)]_vars

\* All passes end and the build goes on.
PassesEnd == <>(phase = "final")
=============================================================================
