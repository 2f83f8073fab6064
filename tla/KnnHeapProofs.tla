--------------------------- MODULE KnnHeapProofs ---------------------------
(***************************************************************************)
(* What NghDistGraphHeap guarantees for every number of points, threads    *)
(* and calls and every kMaxDegree.  First, of KnnHeap alone: its types,    *)
(* that a row keeps the nearest of what it was offered, and that rows only *)
(* improve.  Then, of KnnHeapAtomic, with its ConsistentCalls: that a      *)
(* merge_neighbors call is atomic.                                         *)
(***************************************************************************)
EXTENDS KnnHeapAtomic, FiniteSetTheorems, TLAPS

(***************************************************************************)
(* The strengthening.  DistinctIds and KeepsNearest are not inductive:   *)
(* Append1 and Replace act on a decision taken earlier.  The decision is   *)
(* still right because the row is locked (LockInv), so that nobody else    *)
(* has changed it since (DecideInv).                                       *)
(***************************************************************************)
LockInv == \A t \in Thread : InCall(t) => locks[RowOf(t)] = t

DecideInv ==
  \A t \in Thread :
    /\ pc[t] = "append" => /\ ~Full(RowOf(t))
                           /\ ~IsPresent(RowOf(t), Pair(t))
    /\ pc[t] = "replace" => /\ Full(RowOf(t))
                            /\ ~StopsAt(RowOf(t), Pair(t))
                            /\ ~IsPresent(RowOf(t), Pair(t))

-----------------------------------------------------------------------------
(* Type correctness. *)

LEMMA CallFacts ==
  ASSUME NEW c \in Calls
  PROVE  /\ c.row \in Point
         /\ c.cand \in Seq(Entry)
         /\ Len(c.cand) \in Nat
         /\ \A p \in 1..Len(c.cand) : c.cand[p] \in Entry
BY KnnHeapAssumption

LEMMA PairFacts ==
  ASSUME TypeOK, NEW t \in Thread, pc[t] # "idle"
  PROVE  /\ RowOf(t) \in Point
         /\ pos[t] \in Nat \ {0}
         /\ Len(call[t].cand) \in Nat
         /\ \A p \in 1..Len(call[t].cand) : call[t].cand[p] \in Entry
         /\ pos[t] <= Len(call[t].cand) => Pair(t) \in Entry
BY CallFacts DEF TypeOK, RowOf, Pair

\* What Append1 and Replace do to the row and what they leave alone.
LEMMA AppendEffect ==
  ASSUME TypeOK, DecideInv, NEW t \in Thread, Append1(t),
         NEW i, i = RowOf(t), NEW n, n = degree[i] + 1
  PROVE  /\ i \in Point /\ Pair(t) \in Entry /\ n \in Slot
         /\ degree[i] \in 0..kMaxDegree
         /\ degree'[i] = n
         /\ cell'[i] = [cell[i] EXCEPT ![n] = Pair(t)]
         /\ \A j \in Point \ {i} : degree'[j] = degree[j] /\ cell'[j] = cell[j]
         /\ degree' \in [Point -> 0..kMaxDegree]
         /\ cell' \in [Point -> [Slot -> Entry \cup {kEmptyCell}]]
<1>1. i \in Point /\ Pair(t) \in Entry
  BY PairFacts DEF Append1, TypeOK
<1>2. degree[i] \in 0..kMaxDegree /\ degree[i] # kMaxDegree
  BY <1>1 DEF Append1, DecideInv, Full, TypeOK
<1>3. n \in Slot /\ n \in 0..kMaxDegree
  BY <1>2, KnnHeapAssumption DEF Slot
<1>4. degree' = [degree EXCEPT ![i] = n]
  BY DEF Append1
<1>5. cell' = [cell EXCEPT ![i] = [cell[i] EXCEPT ![n] = Pair(t)]]
  BY DEF Append1
<1> QED BY <1>1, <1>2, <1>3, <1>4, <1>5 DEF TypeOK

LEMMA ReplaceEffect ==
  ASSUME TypeOK, NEW t \in Thread, Replace(t), NEW i, i = RowOf(t)
  PROVE  /\ i \in Point /\ Pair(t) \in Entry
         /\ degree' = degree
         /\ \E s \in Slot : /\ IsRoot(i, s)
                            /\ cell'[i] = [cell[i] EXCEPT ![s] = Pair(t)]
         /\ \A j \in Point \ {i} : cell'[j] = cell[j]
         /\ cell' \in [Point -> [Slot -> Entry \cup {kEmptyCell}]]
<1>1. i \in Point /\ Pair(t) \in Entry
  BY PairFacts DEF Replace, TypeOK
<1>2. PICK s \in Slot : IsRoot(i, s) /\ cell' = [cell EXCEPT ![i] = [cell[i] EXCEPT ![s] = Pair(t)]]
  BY DEF Replace
<1> QED BY <1>1, <1>2 DEF TypeOK, Replace

LEMMA EndTurnTypes ==
  ASSUME TypeOK, NEW t \in Thread, EndTurn(t), pc[t] \in {"append", "replace"}
  PROVE  /\ locks' \in [Point -> Thread \cup {NoThread}]
         /\ todo' \subseteq Calls
         /\ pc' \in [Thread -> {"idle", "lock", "scan", "append", "replace", "unlock"}]
         /\ call' \in [Thread -> Calls \cup {NoCall}]
         /\ \A u \in Thread : pc'[u] # "idle" => call'[u] \in Calls
         /\ pos' \in [Thread -> Nat \ {0}]
         /\ \A u \in Thread : pc'[u] \in {"append", "replace"} => pos'[u] <= Len(call'[u].cand)
         /\ sorted' \subseteq Point
         /\ offered' \in [Point -> SUBSET Entry]
<1>1. RowOf(t) \in Point /\ Pair(t) \in Entry
  BY PairFacts DEF TypeOK
<1> QED BY <1>1 DEF TypeOK, EndTurn

LEMMA TypeStep ==
  ASSUME TypeOK, DecideInv, [Next]_vars
  PROVE  TypeOK'
<1> USE DEF TypeOK
<1>1. ASSUME NEW t \in Thread, Begin(t) PROVE TypeOK'
  BY <1>1 DEF Begin, Used
<1>2. ASSUME NEW t \in Thread, Lock(t) PROVE TypeOK'
  BY <1>2, PairFacts DEF Lock, Used
<1>3. ASSUME NEW t \in Thread, Break(t) PROVE TypeOK'
  <2>1. \A p \in pos[t]..Len(call[t].cand) : call[t].cand[p] \in Entry
    BY <1>3, PairFacts DEF Break
  <2>2. offered' \in [Point -> SUBSET Entry]
    <3>1. PICK x \in SUBSET Entry : x = {call[t].cand[p] : p \in pos[t]..Len(call[t].cand)}
      BY <2>1
    <3>2. offered' = [offered EXCEPT ![RowOf(t)] = @ \cup x]
      BY <1>3, <3>1 DEF Break
    <3>3. offered \in [Point -> SUBSET Entry]
      OBVIOUS
    <3> HIDE DEF TypeOK
    <3> QED BY <3>1, <3>2, <3>3
  <2>3. /\ pc' = [pc EXCEPT ![t] = "unlock"]
        /\ UNCHANGED <<locks, degree, cell, todo, call, pos, sorted>>
    BY <1>3 DEF Break
  <2>4. /\ pc' \in [Thread -> {"idle", "lock", "scan", "append", "replace", "unlock"}]
        /\ \A u \in Thread : pc'[u] = pc[u] \/ (pc'[u] = "unlock" /\ u = t)
    BY <2>3
  <2>5. \A u \in Thread : pc'[u] # "idle" => call[u] \in Calls
    BY <1>3, <2>4 DEF Break
  <2>6. \A u \in Thread :
          pc'[u] \in {"append", "replace"} => pos[u] <= Len(call[u].cand)
    BY <2>4
  <2> QED BY <2>2, <2>3, <2>4, <2>5, <2>6 DEF Used
<1>4. ASSUME NEW t \in Thread, Skip(t) PROVE TypeOK'
  <2>1. RowOf(t) \in Point /\ Pair(t) \in Entry
    BY <1>4, PairFacts DEF Skip
  <2>2. offered' \in [Point -> SUBSET Entry] /\ pos' \in [Thread -> Nat \ {0}]
    BY <1>4, <2>1 DEF Skip
  <2> QED BY <1>4, <2>2 DEF Skip, Used
<1>5. ASSUME NEW t \in Thread, Decide(t) PROVE TypeOK'
  BY <1>5, PairFacts DEF Decide, Used
<1>6. ASSUME NEW t \in Thread, Append1(t) PROVE TypeOK'
  <2> DEFINE i == RowOf(t)
             n == degree[i] + 1
  <2>1. pc[t] = "append" /\ EndTurn(t)
    BY <1>6 DEF Append1
  <2>a. /\ i \in Point /\ Pair(t) \in Entry /\ n \in Slot
        /\ degree[i] \in 0..kMaxDegree
        /\ degree'[i] = n
        /\ cell'[i] = [cell[i] EXCEPT ![n] = Pair(t)]
    BY <1>6, AppendEffect
  <2>b. cell[i] \in [Slot -> Entry \cup {kEmptyCell}]
    BY <2>a
  <2>c. \A s \in 1..n : s = n \/ (s \in Used(i) /\ s \in Slot)
    BY <2>a, KnnHeapAssumption DEF Used, Slot
  <2>2. \A s \in 1..degree'[i] : cell'[i][s] \in Entry
    BY <2>a, <2>b, <2>c
  <2>3. ASSUME NEW j \in Point \ {i}, NEW s \in 1..degree'[j]
        PROVE  cell'[j][s] \in Entry
    <3> HIDE DEF TypeOK
    <3>1. degree'[j] = degree[j] /\ cell'[j] = cell[j]
      BY <1>6, AppendEffect
    <3>2. \A p \in 1..degree[j] : cell[j][p] \in Entry
      BY DEF Used, TypeOK
    <3> QED BY <3>1, <3>2
  <2>4. \A j \in Point : \A s \in Used(j)' : cell'[j][s] \in Entry
    BY <2>2, <2>3 DEF Used
  <2> HIDE DEF TypeOK
  <2> QED BY <1>6, <2>1, <2>4, AppendEffect, EndTurnTypes DEF TypeOK
<1>7. ASSUME NEW t \in Thread, Replace(t) PROVE TypeOK'
  <2> DEFINE i == RowOf(t)
  <2>1. pc[t] = "replace" /\ EndTurn(t)
    BY <1>7 DEF Replace
  <2>2. \A j \in Point : \A u \in 1..degree[j] : u \in Slot
    BY KnnHeapAssumption DEF Slot
  <2>a. /\ i \in Point /\ Pair(t) \in Entry
        /\ \A j \in Point \ {i} : cell'[j] = cell[j]
    BY <1>7, ReplaceEffect
  <2>b. PICK s \in Slot : cell'[i] = [cell[i] EXCEPT ![s] = Pair(t)]
    BY <1>7, ReplaceEffect
  <2>c. cell[i] \in [Slot -> Entry \cup {kEmptyCell}]
    BY <2>a
  <2>d. \A u \in Used(i) : cell'[i][u] \in Entry
    BY <2>a, <2>b, <2>c, <2>2 DEF Used
  <2>3. \A j \in Point : \A u \in Used(j) : cell'[j][u] \in Entry
    BY <2>a, <2>d
  <2>4. \A j \in Point : Used(j)' = Used(j)
    BY <1>7, ReplaceEffect DEF Used
  <2> HIDE DEF TypeOK
  <2> QED BY <1>7, <2>1, <2>3, <2>4, ReplaceEffect, EndTurnTypes DEF TypeOK
<1>8. ASSUME NEW t \in Thread, EndOfList(t) PROVE TypeOK'
  BY <1>8, PairFacts DEF EndOfList, Used
<1>9. ASSUME NEW t \in Thread, Unlock(t) PROVE TypeOK'
  BY <1>9, PairFacts, KnnHeapAssumption DEF Unlock, Used
<1>10. ASSUME NEW i \in Point, SortRow(i) PROVE TypeOK'
  <2>1. PICK f \in [Slot -> Row(i) \cup {kEmptyCell}] :
           SortedRow(i, f) /\ cell' = [cell EXCEPT ![i] = f]
    BY <1>10 DEF SortRow
  <2>2. Row(i) \subseteq Entry
    BY DEF Row, Used
  <2>3. \A s \in Used(i) : s \in Slot
    BY KnnHeapAssumption DEF Used, Slot
  <2>4. \A s \in Used(i) : f[s] \in Entry
    BY <2>1, <2>3 DEF SortedRow
  <2>5. cell' \in [Point -> [Slot -> Entry \cup {kEmptyCell}]]
    BY <2>1, <2>2
  <2>6. degree' = degree BY <1>10 DEF SortRow
  <2>7. \A j \in Point : \A s \in Used(j) : cell'[j][s] \in Entry
    BY <2>1, <2>4
  <2>8. \A j \in Point : Used(j)' = Used(j)
    BY <2>6 DEF Used
  <2>9. UNCHANGED <<locks, todo, pc, call, pos, offered>> /\ sorted' = sorted \cup {i}
    BY <1>10 DEF SortRow
  <2> QED BY <2>5, <2>6, <2>7, <2>8, <2>9
<1>11. CASE UNCHANGED vars
  BY <1>11 DEF vars, Used
<1> QED
  BY <1>1, <1>2, <1>3, <1>4, <1>5, <1>6, <1>7, <1>8, <1>9, <1>10, <1>11
     DEF Next, Merge, Terminated

\* Only the thread that locked a row gets past "lock" with it.
LEMMA LockStep ==
  ASSUME TypeOK, LockInv, [Next]_vars
  PROVE  LockInv'
<1>1. ASSUME NEW t \in Thread, Merge(t) PROVE LockInv'
  <2>1. \A u \in Thread : InCall(u) => pc[u] # "idle"
    BY DEF InCall
  <2>2. \A u \in Thread : pc[u] # "idle" => RowOf(u) \in Point
    BY PairFacts
  <2> USE DEF TypeOK, LockInv, InCall, RowOf
  <2>3. CASE Begin(t) BY <2>3 DEF Begin
  <2>4. CASE Lock(t) BY <2>4, <2>2, KnnHeapAssumption DEF Lock
  <2>5. CASE Break(t) BY <2>5 DEF Break
  <2>6. CASE Skip(t) BY <2>6 DEF Skip
  <2>7. CASE Decide(t) BY <2>7 DEF Decide
  <2>8. CASE Append1(t) BY <2>8 DEF Append1, EndTurn
  <2>9. CASE Replace(t) BY <2>9 DEF Replace, EndTurn
  <2>10. CASE EndOfList(t) BY <2>10 DEF EndOfList
  <2>11. CASE Unlock(t) BY <2>11, <2>2 DEF Unlock
  <2> QED BY <1>1, <2>3, <2>4, <2>5, <2>6, <2>7, <2>8, <2>9, <2>10, <2>11 DEF Merge
<1>2. ASSUME NEW i \in Point, SortRow(i) PROVE LockInv'
  BY <1>2 DEF SortRow, LockInv, InCall, RowOf
<1>3. CASE UNCHANGED vars
  BY <1>3 DEF vars, LockInv, InCall, RowOf
<1> QED BY <1>1, <1>2, <1>3 DEF Next, Terminated

\* A decision stands while its row and its thread are left alone.
Decided(t) ==
  /\ pc[t] = "append" => /\ ~Full(RowOf(t))
                         /\ ~IsPresent(RowOf(t), Pair(t))
  /\ pc[t] = "replace" => /\ Full(RowOf(t))
                          /\ ~StopsAt(RowOf(t), Pair(t))
                          /\ ~IsPresent(RowOf(t), Pair(t))

LEMMA DecidedFrame ==
  ASSUME NEW u, Decided(u), pc'[u] = pc[u], call'[u] = call[u], pos'[u] = pos[u],
         degree'[RowOf(u)] = degree[RowOf(u)], cell'[RowOf(u)] = cell[RowOf(u)]
  PROVE  Decided(u)'
<1>1. RowOf(u)' = RowOf(u) /\ Pair(u)' = Pair(u)
  BY DEF RowOf, Pair
<1>2. degree'[RowOf(u)'] = degree[RowOf(u)] /\ cell'[RowOf(u)'] = cell[RowOf(u)]
  BY <1>1
<1> QED BY <1>1, <1>2 DEF Decided, Full, IsPresent, StopsAt, IsRoot, Used

LEMMA DecideStep ==
  ASSUME TypeOK, LockInv, DecideInv, [Next]_vars
  PROVE  DecideInv'
<1>1. \A u \in Thread : Decided(u)
  BY DEF DecideInv, Decided
<1> SUFFICES ASSUME NEW u \in Thread PROVE Decided(u)'
  BY DEF DecideInv, Decided
<1>2. ASSUME NEW t \in Thread, Merge(t), u # t, pc[u] \in {"append", "replace"}
      PROVE  Decided(u)'
  <2>1. pc'[u] = pc[u] /\ call'[u] = call[u] /\ pos'[u] = pos[u]
    BY <1>2 DEF Merge, Begin, Lock, Break, Skip, Decide, Append1, Replace, EndTurn,
                EndOfList, Unlock, TypeOK
  <2>2. locks[RowOf(u)] = u
    BY <1>2 DEF LockInv, InCall
  <2>3. CASE Append1(t)
    <3>1. RowOf(t) # RowOf(u)
      BY <1>2, <2>2, <2>3 DEF Append1, LockInv, InCall
    <3>2. RowOf(u) \in Point
      BY <1>2, PairFacts
    <3>3. \A j \in Point \ {RowOf(t)} : degree'[j] = degree[j] /\ cell'[j] = cell[j]
      BY <2>3, AppendEffect
    <3> QED BY <1>1, <2>1, <3>1, <3>2, <3>3, DecidedFrame
  <2>4. CASE Replace(t)
    <3>1. RowOf(t) # RowOf(u)
      BY <1>2, <2>2, <2>4 DEF Replace, LockInv, InCall
    <3> QED BY <1>1, <1>2, <2>1, <2>4, <3>1, ReplaceEffect, PairFacts, DecidedFrame
  <2>5. CASE degree' = degree /\ cell' = cell
    BY <1>1, <2>1, <2>5, DecidedFrame
  <2> QED BY <1>2, <2>3, <2>4, <2>5 DEF Merge, Begin, Lock, Break, Skip, Decide,
                EndOfList, Unlock
<1>3. ASSUME Decide(u) PROVE Decided(u)'
  BY <1>3 DEF Decide, Decided, RowOf, Pair, Full, IsPresent, StopsAt, IsRoot, Used, TypeOK
<1>4. ASSUME pc'[u] \notin {"append", "replace"} PROVE Decided(u)'
  BY <1>4 DEF Decided
<1>5. ASSUME NEW t \in Thread, Merge(t) PROVE Decided(u)'
  <2>1. CASE u = t
    BY <1>5, <2>1, <1>3, <1>4 DEF Merge, Begin, Lock, Break, Skip, Append1, Replace,
                EndTurn, EndOfList, Unlock, TypeOK
  <2>2. CASE u # t /\ pc[u] \notin {"append", "replace"}
    BY <1>5, <2>2, <1>4 DEF Merge, Begin, Lock, Break, Skip, Decide, Append1, Replace,
                EndTurn, EndOfList, Unlock, TypeOK
  <2> QED BY <1>2, <1>5, <2>1, <2>2
<1>6. ASSUME NEW i \in Point, SortRow(i) PROVE Decided(u)'
  BY <1>6, <1>4 DEF SortRow, Quiescent
<1>7. CASE UNCHANGED vars
  BY <1>1, <1>7, DecidedFrame DEF vars
<1> QED BY <1>5, <1>6, <1>7 DEF Next, Terminated

\* Type correctness, for the model's constants of any size.
THEOREM TypeCorrect == Spec => []TypeOK
<1>1. Init => TypeOK /\ LockInv /\ DecideInv
  <2>1. Init => TypeOK
    BY KnnHeapAssumption DEF Init, TypeOK, Used, Slot
  <2> QED BY <2>1 DEF Init, LockInv, InCall, DecideInv
<1>2. TypeOK /\ LockInv /\ DecideInv /\ [Next]_vars => (TypeOK /\ LockInv /\ DecideInv)'
  BY TypeStep, LockStep, DecideStep
<1> QED BY <1>1, <1>2, PTL DEF Spec
-----------------------------------------------------------------------------
(* The rows are right. *)

RowDistinct(i) ==
  \A u, v \in Used(i) : cell[i][u].id = cell[i][v].id => u = v

RowNearest(i) ==
  \A x \in offered[i] :
     \/ IsPresent(i, x)
     \/ /\ Full(i)
        /\ \E y \in offered[i] : /\ y.id = x.id
                                 /\ \A s \in Used(i) : cell[i][s].d <= y.d

RowOffered(i) == Row(i) \subseteq offered[i]

RowRight(i) == RowDistinct(i) /\ RowNearest(i) /\ RowOffered(i)

LEMMA EntryDistance == \A e \in Entry : e.d \in Int
BY KnnHeapAssumption DEF Entry

\* The types of what a row holds and was offered.
LEMMA RowTypes ==
  ASSUME TypeOK, NEW i \in Point
  PROVE  /\ degree[i] \in Nat
         /\ Used(i) \subseteq Slot
         /\ \A s \in Used(i) : /\ s \in Int
                               /\ cell[i][s] \in Entry
                               /\ cell[i][s].d \in Int
         /\ \A x \in offered[i] : x \in Entry /\ x.d \in Int
<1>1. degree[i] \in 0..kMaxDegree
  BY DEF TypeOK
<1>2. Used(i) \subseteq Slot
  BY <1>1, KnnHeapAssumption DEF Used, Slot
<1>3. \A s \in Used(i) : s \in Int /\ cell[i][s] \in Entry
  BY <1>1, KnnHeapAssumption DEF Used, TypeOK
<1>4. offered[i] \subseteq Entry
  BY DEF TypeOK
<1> QED BY <1>1, <1>2, <1>3, <1>4, EntryDistance, KnnHeapAssumption

\* A row that is not touched stays right.
LEMMA UntouchedRow ==
  ASSUME NEW i, RowRight(i), degree'[i] = degree[i], cell'[i] = cell[i],
         offered'[i] = offered[i]
  PROVE  RowRight(i)'
BY DEF RowRight, RowDistinct, RowNearest, RowOffered, Row, Used, Full, IsPresent

\* So does a row whose new offers are already in it, or not worth storing.
LEMMA RefusedOffers ==
  ASSUME NEW i, RowRight(i), degree'[i] = degree[i], cell'[i] = cell[i],
         offered[i] \subseteq offered'[i],
         \A x \in offered'[i] \ offered[i] :
            \/ IsPresent(i, x)
            \/ Full(i) /\ \A s \in Used(i) : cell[i][s].d <= x.d
  PROVE  RowRight(i)'
<1>1. RowDistinct(i)' /\ RowOffered(i)'
  BY DEF RowRight, RowDistinct, RowOffered, Row, Used
<1>2. RowNearest(i)'
  BY DEF RowRight, RowNearest, Used, Full, IsPresent
<1> QED BY <1>1, <1>2 DEF RowRight

LEMMA BreakStep ==
  ASSUME TypeOK, NEW t \in Thread, Break(t), NEW i, i = RowOf(t), RowRight(i)
  PROVE  RowRight(i)'
<1>1. /\ i \in Point
      /\ call[t] \in Calls
      /\ Ascending(call[t].cand)
      /\ pos[t] \in Nat \ {0}
      /\ Len(call[t].cand) \in Nat
      /\ \A p \in 1..Len(call[t].cand) : call[t].cand[p] \in Entry
  BY PairFacts, KnnHeapAssumption DEF Break, TypeOK
<1>2. PICK s \in Slot : IsRoot(i, s) /\ Pair(t).d >= cell[i][s].d
  BY DEF Break, StopsAt
<1>3. Full(i)
  BY DEF Break, StopsAt
<1>4. offered'[i] = offered[i] \cup {call[t].cand[p] : p \in pos[t]..Len(call[t].cand)}
  BY <1>1 DEF Break, TypeOK
<1>5. ASSUME NEW p \in pos[t]..Len(call[t].cand), NEW u \in Used(i)
      PROVE  cell[i][u].d <= call[t].cand[p].d
  <2>1. call[t].cand[pos[t]].d <= call[t].cand[p].d
    BY <1>1, <1>5 DEF Ascending, Break
  <2>2. cell[i][u].d <= cell[i][s].d /\ cell[i][s].d <= Pair(t).d
    BY <1>1, <1>2, <1>5, RowTypes, PairFacts DEF IsRoot, Break
  <2>3. /\ cell[i][u].d \in Int /\ cell[i][s].d \in Int /\ Pair(t).d \in Int
        /\ call[t].cand[p].d \in Int
    <3>1. /\ cell[i][u] \in Entry /\ cell[i][s] \in Entry
      BY <1>1, <1>2, <1>5, RowTypes DEF IsRoot
    <3>2. Pair(t) \in Entry
      BY PairFacts DEF Break
    <3>3. p \in 1..Len(call[t].cand)
      BY <1>1, <1>5
    <3>4. call[t].cand[p] \in Entry
      BY <1>1, <3>3
    <3> QED BY <3>1, <3>2, <3>4, EntryDistance
  <2> QED BY <2>1, <2>2, <2>3 DEF Pair
<1>6. degree'[i] = degree[i] /\ cell'[i] = cell[i]
  BY DEF Break
<1> QED BY <1>3, <1>4, <1>5, <1>6, RefusedOffers

LEMMA SkipStep ==
  ASSUME TypeOK, NEW t \in Thread, Skip(t), NEW i, i = RowOf(t), RowRight(i)
  PROVE  RowRight(i)'
<1>1. i \in Point
  BY PairFacts DEF Skip
<1>2. offered'[i] = offered[i] \cup {Pair(t)} /\ IsPresent(i, Pair(t))
  BY <1>1 DEF Skip, TypeOK
<1>3. degree'[i] = degree[i] /\ cell'[i] = cell[i]
  BY DEF Skip
<1> QED BY <1>2, <1>3, RefusedOffers

LEMMA AppendStep ==
  ASSUME TypeOK, DecideInv, NEW t \in Thread, Append1(t), NEW i, i = RowOf(t), RowRight(i)
  PROVE  RowRight(i)'
<1> DEFINE n == degree[i] + 1
<1>1. /\ i \in Point /\ Pair(t) \in Entry /\ n \in Slot
      /\ degree[i] \in 0..kMaxDegree
      /\ degree'[i] = n
      /\ cell'[i] = [cell[i] EXCEPT ![n] = Pair(t)]
  BY AppendEffect
<1>2. ~Full(i) /\ ~IsPresent(i, Pair(t))
  BY DEF DecideInv, Append1
<1>3. offered'[i] = offered[i] \cup {Pair(t)}
  BY <1>1 DEF Append1, EndTurn, TypeOK
<1>4. DOMAIN cell[i] = Slot
  BY <1>1 DEF TypeOK
<1>5. cell'[i][n] = Pair(t)
  BY <1>1, <1>4
<1>6. Used(i)' = Used(i) \cup {n} /\ n \notin Used(i) /\ Used(i) \subseteq Slot
  BY <1>1, RowTypes DEF Used
<1>7. \A s \in Used(i) : cell'[i][s] = cell[i][s]
  BY <1>1, <1>4, <1>6
<1> HIDE DEF n
<1>8. RowDistinct(i)'
  BY <1>2, <1>5, <1>6, <1>7 DEF RowRight, RowDistinct, IsPresent
<1>9. RowOffered(i)'
  BY <1>3, <1>5, <1>6, <1>7 DEF RowRight, RowOffered, Row
<1>10. \A x \in offered'[i] : IsPresent(i, x)'
  BY <1>2, <1>3, <1>5, <1>6, <1>7 DEF RowRight, RowNearest, IsPresent
<1> QED BY <1>8, <1>9, <1>10 DEF RowRight, RowNearest

LEMMA ReplaceStep ==
  ASSUME TypeOK, DecideInv, NEW t \in Thread, Replace(t), NEW i, i = RowOf(t), RowRight(i)
  PROVE  RowRight(i)'
<1>1. i \in Point /\ Pair(t) \in Entry /\ degree' = degree
  BY ReplaceEffect
<1>2. PICK s \in Slot : IsRoot(i, s) /\ cell'[i] = [cell[i] EXCEPT ![s] = Pair(t)]
  BY ReplaceEffect
<1>3. Full(i) /\ ~StopsAt(i, Pair(t)) /\ ~IsPresent(i, Pair(t))
  BY DEF DecideInv, Replace
<1>4. offered'[i] = offered[i] \cup {Pair(t)}
  BY <1>1 DEF Replace, EndTurn, TypeOK
<1>5. DOMAIN cell[i] = Slot
  BY <1>1 DEF TypeOK
<1>6. /\ Used(i)' = Used(i) /\ s \in Used(i) /\ Used(i) \subseteq Slot
      /\ Full(i)'
  BY <1>1, <1>2, <1>3, RowTypes DEF Used, IsRoot, Full
<1>7. cell'[i][s] = Pair(t) /\ \A u \in Used(i) \ {s} : cell'[i][u] = cell[i][u]
  BY <1>2, <1>5, <1>6
<1>8. Pair(t).d \in Int /\ \A u \in Used(i) : cell[i][u].d \in Int
  BY <1>1, RowTypes, KnnHeapAssumption DEF Entry
<1>9. Pair(t).d < cell[i][s].d
  BY <1>2, <1>3, <1>6, <1>8 DEF StopsAt
<1>10. \A u \in Used(i) : cell[i][u].d <= cell[i][s].d
  BY <1>2 DEF IsRoot
\* What bounds the old row bounds the new one.
<1>11. ASSUME NEW y \in offered[i], cell[i][s].d <= y.d
       PROVE  \A u \in Used(i) : cell'[i][u].d <= y.d
  <2>1. y.d \in Int
    BY <1>1, RowTypes
  <2> QED BY <1>6, <1>7, <1>8, <1>9, <1>10, <1>11, <2>1
<1>12. RowDistinct(i)'
  BY <1>3, <1>6, <1>7 DEF RowRight, RowDistinct, IsPresent
<1>13. RowOffered(i)'
  BY <1>4, <1>6, <1>7 DEF RowRight, RowOffered, Row
<1>14. ASSUME NEW x \in offered'[i], ~IsPresent(i, x)'
       PROVE  \E y \in offered'[i] : /\ y.id = x.id
                                     /\ \A u \in Used(i) : cell'[i][u].d <= y.d
  <2>1. x \in offered[i] /\ x.id # Pair(t).id
    BY <1>4, <1>6, <1>7, <1>14 DEF IsPresent
  <2>2. CASE IsPresent(i, x)
    <3>1. cell[i][s].id = x.id
      BY <1>6, <1>7, <1>14, <2>2 DEF IsPresent
    <3>2. cell[i][s] \in offered[i]
      BY <1>6 DEF RowRight, RowOffered, Row
    <3>3. cell[i][s].d <= cell[i][s].d
      BY <1>6, <1>8
    <3> QED BY <1>4, <1>11, <3>1, <3>2, <3>3
  <2>3. CASE ~IsPresent(i, x)
    <3>1. PICK y \in offered[i] : y.id = x.id /\ \A u \in Used(i) : cell[i][u].d <= y.d
      BY <2>1, <2>3 DEF RowRight, RowNearest
    <3> QED BY <1>4, <1>6, <1>11, <3>1
  <2> QED BY <2>2, <2>3
<1>15. RowNearest(i)'
  BY <1>6, <1>14 DEF RowNearest
<1> QED BY <1>12, <1>13, <1>15 DEF RowRight

LEMMA SortStep ==
  ASSUME TypeOK, NEW i \in Point, SortRow(i), RowRight(i)
  PROVE  RowRight(i)'
<1>1. PICK f \in [Slot -> Row(i) \cup {kEmptyCell}] :
         SortedRow(i, f) /\ cell' = [cell EXCEPT ![i] = f]
  BY DEF SortRow
<1>2. PICK p \in [Used(i) -> Used(i)] :
         /\ \A u, v \in Used(i) : p[u] = p[v] => u = v
         /\ \A v \in Used(i) : \E u \in Used(i) : p[u] = v
         /\ f = [s \in Slot |-> IF s \in Used(i) THEN cell[i][p[s]] ELSE cell[i][s]]
  BY <1>1 DEF SortedRow
<1>3. Used(i) \subseteq Slot
  BY RowTypes
<1>4. \A u \in Used(i) : cell'[i][u] = cell[i][p[u]]
  BY <1>1, <1>2, <1>3 DEF TypeOK
<1>5. degree' = degree /\ offered' = offered
  BY DEF SortRow
<1>6. Used(i)' = Used(i) /\ Full(i)' = Full(i)
  BY <1>5 DEF Used, Full
<1>7. RowDistinct(i)'
  BY <1>2, <1>4, <1>6 DEF RowRight, RowDistinct
<1>8. RowOffered(i)'
  BY <1>2, <1>4, <1>5, <1>6 DEF RowRight, RowOffered, Row
<1>9. \A x \in offered[i] : IsPresent(i, x) => IsPresent(i, x)'
  BY <1>2, <1>4, <1>6 DEF IsPresent
<1>10. \A y : (\A s \in Used(i) : cell[i][s].d <= y) => (\A s \in Used(i) : cell'[i][s].d <= y)
  BY <1>2, <1>4
<1>11. RowNearest(i)'
  BY <1>5, <1>6, <1>9, <1>10 DEF RowRight, RowNearest
<1> QED BY <1>7, <1>8, <1>11 DEF RowRight

RowsRight == \A i \in Point : RowRight(i)

LEMMA RowsStep ==
  ASSUME TypeOK, LockInv, DecideInv, RowsRight, [Next]_vars
  PROVE  RowsRight'
<1> SUFFICES ASSUME NEW i \in Point PROVE RowRight(i)'
  BY DEF RowsRight
<1>1. RowRight(i)
  BY DEF RowsRight
<1>2. ASSUME NEW t \in Thread, Merge(t) PROVE RowRight(i)'
  <2>1. CASE Begin(t) \/ Lock(t) \/ Decide(t) \/ EndOfList(t) \/ Unlock(t)
    BY <1>1, <2>1, UntouchedRow DEF Begin, Lock, Decide, EndOfList, Unlock
  <2>2. CASE Break(t)
    BY <1>1, <2>2, BreakStep, UntouchedRow, PairFacts DEF Break, TypeOK
  <2>3. CASE Skip(t)
    BY <1>1, <2>3, SkipStep, UntouchedRow, PairFacts DEF Skip, TypeOK
  <2>4. CASE Append1(t)
    <3>1. CASE i = RowOf(t)
      BY <1>1, <2>4, <3>1, AppendStep
    <3>2. CASE i # RowOf(t)
      <4>1. degree'[i] = degree[i] /\ cell'[i] = cell[i]
        <5>1. \A j \in Point \ {RowOf(t)} : degree'[j] = degree[j] /\ cell'[j] = cell[j]
          BY <2>4, AppendEffect
        <5> QED BY <3>2, <5>1
      <4>2. offered'[i] = offered[i]
        BY <2>4, <3>2 DEF Append1, EndTurn, TypeOK
      <4> QED BY <1>1, <4>1, <4>2, UntouchedRow
    <3> QED BY <3>1, <3>2
  <2>5. CASE Replace(t)
    <3>1. CASE i = RowOf(t)
      BY <1>1, <2>5, <3>1, ReplaceStep
    <3>2. CASE i # RowOf(t)
      <4>1. degree'[i] = degree[i] /\ cell'[i] = cell[i]
        BY <2>5, <3>2, ReplaceEffect
      <4>2. offered'[i] = offered[i]
        BY <2>5, <3>2 DEF Replace, EndTurn, TypeOK
      <4> QED BY <1>1, <4>1, <4>2, UntouchedRow
    <3> QED BY <3>1, <3>2
  <2> QED BY <1>2, <2>1, <2>2, <2>3, <2>4, <2>5 DEF Merge
<1>3. ASSUME NEW j \in Point, SortRow(j) PROVE RowRight(i)'
  <2>1. CASE i = j
    BY <1>1, <1>3, <2>1, SortStep
  <2>2. CASE i # j
    BY <1>1, <1>3, <2>2, UntouchedRow DEF SortRow, TypeOK
  <2> QED BY <2>1, <2>2
<1>4. CASE UNCHANGED vars
  BY <1>1, <1>4, UntouchedRow DEF vars
<1> QED BY <1>2, <1>3, <1>4 DEF Next, Terminated

(***************************************************************************)
(* At every moment, whatever the interleaving of the merges, a row has no  *)
(* id twice, only holds what it was offered, and has refused or dropped    *)
(* only what is no closer than all it holds.                               *)
(***************************************************************************)
THEOREM RowsKeepNearest == Spec => [](DistinctIds /\ KeepsNearest)
<1> DEFINE IInv == TypeOK /\ LockInv /\ DecideInv /\ RowsRight
<1>1. Init => IInv
  <2>1. Init => TypeOK
    BY KnnHeapAssumption DEF Init, TypeOK, Used, Slot
  <2>2. Init => RowsRight
    BY DEF Init, RowsRight, RowRight, RowDistinct, RowNearest, RowOffered, Row, Used
  <2> QED BY <2>1, <2>2 DEF Init, LockInv, InCall, DecideInv
<1>2. IInv /\ [Next]_vars => IInv'
  BY TypeStep, LockStep, DecideStep, RowsStep
<1>3. IInv => DistinctIds /\ KeepsNearest
  BY DEF RowsRight, RowRight, RowDistinct, RowNearest, RowOffered,
         DistinctIds, KeepsNearest
<1> QED BY <1>1, <1>2, <1>3, PTL DEF Spec
\* A consequence of its own: the mutex keeps the duplicate check true until the
\* pair is written.
THEOREM NoIdTwice == Spec => []DistinctIds
BY RowsKeepNearest, PTL

-----------------------------------------------------------------------------
(***************************************************************************)
(* Rows only improve.  The slots of a row within a distance gain one or    *)
(* none at a merge, as what is replaced is farther than what replaces it;  *)
(* the final sort permutes them.                                           *)
(***************************************************************************)
Within(i, d) == {s \in Used(i) : cell[i][s].d <= d}

LEMMA WithinFinite ==
  ASSUME TypeOK, NEW i \in Point, NEW d
  PROVE  IsFiniteSet(Within(i, d))
<1>1. degree[i] \in Int
  BY KnnHeapAssumption DEF TypeOK
<1>2. IsFiniteSet(Used(i))
  BY <1>1, FS_Interval DEF Used
<1>3. Within(i, d) \in SUBSET Used(i)
  BY DEF Within
<1> QED BY <1>2, <1>3, FS_Subset

\* A merge only adds slots.
LEMMA MoreWithin ==
  ASSUME TypeOK', NEW i \in Point, NEW d, Within(i, d) \subseteq Within(i, d)'
  PROVE  CountWithin(i, d)' >= CountWithin(i, d)
<1>1. IsFiniteSet(Within(i, d)')
  <2>1. degree'[i] \in Int
    BY KnnHeapAssumption DEF TypeOK
  <2>2. IsFiniteSet(Used(i)')
    BY <2>1, FS_Interval DEF Used
  <2>3. Within(i, d)' \in SUBSET Used(i)'
    BY DEF Within
  <2> QED BY <2>2, <2>3, FS_Subset
<1>2. Within(i, d) \in SUBSET Within(i, d)'
  OBVIOUS
<1>3. /\ IsFiniteSet(Within(i, d))
      /\ Cardinality(Within(i, d)) <= Cardinality(Within(i, d)')
  BY <1>1, <1>2, FS_Subset
<1>4. Cardinality(Within(i, d)) \in Nat /\ Cardinality(Within(i, d)') \in Nat
  BY <1>1, <1>3, FS_CardinalityType
<1> QED BY <1>3, <1>4 DEF CountWithin, Within

\* The sort moves every pair within the distance to a slot of its own.
LEMMA SortKeepsWithin ==
  ASSUME TypeOK, TypeOK', NEW i \in Point, SortRow(i), NEW d
  PROVE  CountWithin(i, d)' >= CountWithin(i, d)
<1>1. PICK f \in [Slot -> Row(i) \cup {kEmptyCell}] :
         SortedRow(i, f) /\ cell' = [cell EXCEPT ![i] = f]
  BY DEF SortRow
<1>2. PICK p \in [Used(i) -> Used(i)] :
         /\ \A v \in Used(i) : \E u \in Used(i) : p[u] = v
         /\ f = [s \in Slot |-> IF s \in Used(i) THEN cell[i][p[s]] ELSE cell[i][s]]
  BY <1>1 DEF SortedRow
<1>3. Used(i) \subseteq Slot
  BY RowTypes
<1>4. \A u \in Used(i) : cell'[i][u] = cell[i][p[u]]
  BY <1>1, <1>2, <1>3 DEF TypeOK
<1>5. Used(i)' = Used(i)
  BY DEF SortRow, Used
<1> DEFINE old == Within(i, d)
           new == {u \in Used(i) : cell'[i][u].d <= d}
           q == [u \in new |-> p[u]]
<1>6. new = Within(i, d)'
  BY <1>5 DEF Within
<1>7. \A u \in Used(i) : u \in new <=> p[u] \in old
  BY <1>2, <1>4 DEF Within
<1>8. q \in [new -> old]
  BY <1>7
<1>9. \A v \in old : \E u \in new : q[u] = v
  BY <1>2, <1>7 DEF Within
<1>10. q \in Surjection(new, old)
  BY <1>8, <1>9 DEF Surjection
<1>11. IsFiniteSet(new)
  <2>1. IsFiniteSet(Used(i))
    <3>1. degree[i] \in Int
      BY KnnHeapAssumption DEF TypeOK
    <3> QED BY <3>1, FS_Interval DEF Used
  <2>2. new \in SUBSET Used(i)
    OBVIOUS
  <2> QED BY <2>1, <2>2, FS_Subset
<1> HIDE DEF q, new, old
<1>12. IsFiniteSet(old) /\ Cardinality(old) <= Cardinality(new)
  BY <1>10, <1>11, FS_Surjection
<1>13. Cardinality(old) \in Nat /\ Cardinality(new) \in Nat
  BY <1>11, <1>12, FS_CardinalityType
<1>14. CountWithin(i, d) = Cardinality(old) /\ CountWithin(i, d)' = Cardinality(new)
  BY <1>6 DEF CountWithin, Within, old
<1> QED BY <1>12, <1>13, <1>14

LEMMA WithinStep ==
  ASSUME TypeOK, TypeOK', DecideInv, [Next]_vars, NEW i \in Point, NEW d \in Distance
  PROVE  CountWithin(i, d)' >= CountWithin(i, d)
<1>1. ASSUME degree'[i] = degree[i], cell'[i] = cell[i]
      PROVE  Within(i, d) \subseteq Within(i, d)'
  BY <1>1 DEF Within, Used
<1>2. ASSUME NEW t \in Thread, Append1(t)
      PROVE  Within(i, d) \subseteq Within(i, d)'
  <2>1. CASE i = RowOf(t)
    <3> DEFINE n == degree[i] + 1
    <3>1. /\ n \in Slot /\ degree[i] \in 0..kMaxDegree /\ degree'[i] = n
          /\ cell'[i] = [cell[i] EXCEPT ![n] = Pair(t)]
      BY <1>2, <2>1, AppendEffect
    <3>2. DOMAIN cell[i] = Slot /\ Used(i) \subseteq Slot
      BY RowTypes DEF TypeOK
    <3>3. n \notin Used(i) /\ Used(i) \subseteq Used(i)'
      BY <3>1, KnnHeapAssumption DEF Used
    <3>4. \A s \in Used(i) : cell'[i][s] = cell[i][s]
      BY <3>1, <3>2, <3>3
    <3> QED BY <3>3, <3>4 DEF Within
  <2>2. CASE i # RowOf(t)
    <3>1. \A j \in Point \ {RowOf(t)} : degree'[j] = degree[j] /\ cell'[j] = cell[j]
      BY <1>2, AppendEffect
    <3> QED BY <1>1, <2>2, <3>1
  <2> QED BY <2>1, <2>2
<1>3. ASSUME NEW t \in Thread, Replace(t)
      PROVE  Within(i, d) \subseteq Within(i, d)'
  <2>1. CASE i = RowOf(t)
    <3>1. Pair(t) \in Entry /\ degree' = degree
      BY <1>3, ReplaceEffect
    <3>2. PICK s \in Slot : IsRoot(i, s) /\ cell'[i] = [cell[i] EXCEPT ![s] = Pair(t)]
      BY <1>3, <2>1, ReplaceEffect
    <3>3. s \in Used(i) /\ ~StopsAt(i, Pair(t)) /\ Full(i)
      BY <1>3, <2>1, <3>2 DEF DecideInv, Replace, IsRoot
    <3>4. DOMAIN cell[i] = Slot /\ Used(i) \subseteq Slot
      BY RowTypes DEF TypeOK
    <3>5. Pair(t).d \in Int /\ cell[i][s].d \in Int
      BY <3>1, <3>3, RowTypes, EntryDistance
    <3>6. Pair(t).d < cell[i][s].d
      BY <3>2, <3>3, <3>5 DEF StopsAt
    <3>7. d \in Int
      BY KnnHeapAssumption
    <3>8. ASSUME NEW u \in Used(i), cell[i][u].d <= d PROVE cell'[i][u].d <= d
      <4>1. CASE u = s
        <5>1. cell'[i][u] = Pair(t)
          BY <3>2, <3>4, <4>1
        <5>2. cell[i][s].d <= d
          BY <3>8, <4>1
        <5> QED BY <3>5, <3>6, <3>7, <5>1, <5>2
      <4>2. CASE u # s
        BY <3>2, <3>4, <3>8, <4>2
      <4> QED BY <4>1, <4>2
    <3> QED BY <3>1, <3>8 DEF Within, Used
  <2>2. CASE i # RowOf(t)
    <3>1. degree'[i] = degree[i] /\ cell'[i] = cell[i]
      BY <1>3, <2>2, ReplaceEffect
    <3> QED BY <1>1, <3>1
  <2> QED BY <2>1, <2>2
<1>4. ASSUME NEW t \in Thread, Merge(t)
      PROVE  Within(i, d) \subseteq Within(i, d)'
  BY <1>1, <1>2, <1>3, <1>4
  DEF Merge, Begin, Lock, Break, Skip, Decide, EndOfList, Unlock
<1>5. ASSUME NEW j \in Point, SortRow(j)
      PROVE  CountWithin(i, d)' >= CountWithin(i, d)
  <2>1. CASE i = j
    BY <1>5, <2>1, SortKeepsWithin
  <2>2. CASE i # j
    <3>1. degree'[i] = degree[i] /\ cell'[i] = cell[i]
      BY <1>5, <2>2 DEF SortRow, TypeOK
    <3> QED BY <1>1, <3>1, MoreWithin
  <2> QED BY <2>1, <2>2
<1>6. CASE UNCHANGED vars
  BY <1>1, <1>6, MoreWithin DEF vars
<1> QED BY <1>4, <1>5, <1>6, MoreWithin DEF Next, Terminated

(***************************************************************************)
(* merge_neighbors and finalize never make a row worse: the number of      *)
(* neighbours within any distance does not fall at any step.               *)
(***************************************************************************)
THEOREM RowsNeverGetWorse == Spec => RowsOnlyImprove
<1> DEFINE IInv == TypeOK /\ LockInv /\ DecideInv
<1>1. Init => IInv
  <2>1. Init => TypeOK
    BY KnnHeapAssumption DEF Init, TypeOK, Used, Slot
  <2> QED BY <2>1 DEF Init, LockInv, InCall, DecideInv
<1>2. IInv /\ [Next]_vars => IInv'
  BY TypeStep, LockStep, DecideStep
<1>3. IInv /\ IInv' /\ [Next]_vars =>
        [\A i \in Point, d \in Distance : CountWithin(i, d)' >= CountWithin(i, d)]_vars
  BY WithinStep
<1> QED BY <1>1, <1>2, <1>3, PTL DEF Spec, RowsOnlyImprove

-----------------------------------------------------------------------------
(***************************************************************************)
(* A merge_neighbors call is atomic, and then leaves the nearest of what   *)
(* the row held and of what the call brings: KnnHeapAtomic implements      *)
(* NearestTable, for any points, threads, calls and row width, and         *)
(* whatever the ties.                                                      *)
(***************************************************************************)

(***************************************************************************)
(* What a row holds part of the way through a call: it held R at Lock, has *)
(* been offered S since and holds T now.  A row that is not full has       *)
(* everything; one that is has refused only what is no nearer, and has     *)
(* given up only what is farther than all that came in.                    *)
(***************************************************************************)
Partial(i, R, S, T, full) ==
  /\ T \subseteq R \cup S
  /\ T # R \cup S => full
  /\ \A x \in (R \cup S) \ T, y \in T : Dist[i][y] <= Dist[i][x]
  /\ \A x \in T \ R, y \in R \ T : Dist[i][x] < Dist[i][y]

CallIds(t) == {call[t].cand[p].id : p \in 1..Len(call[t].cand)}
SeenIds(t) == IF pc[t] = "unlock" THEN CallIds(t)
              ELSE {call[t].cand[p].id : p \in 1..pos[t] - 1}

MergeInv ==
  \A t \in Thread : InCall(t) =>
    Partial(RowOf(t), atLock[RowOf(t)], SeenIds(t), RowIds(RowOf(t)), Full(RowOf(t)))

\* A pair is stored with the distance of its two points.
DistInv ==
  \A i \in Point : /\ \A s \in Used(i) : cell[i][s].d = Dist[i][cell[i][s].id]
                   /\ atLock[i] \subseteq Point
                   /\ \A x \in atLock[i] : Dist[i][x] \in Int

HistoryTypes ==
  /\ atLock \in [Point -> SUBSET Point] /\ merged \in [Point -> SUBSET Point]
  /\ \A t \in Thread : /\ InCall(t) => pos[t] <= Len(call[t].cand) + 1
                       /\ pc[t] = "lock" => pos[t] = 1

-----------------------------------------------------------------------------
(* What the turns of merge_neighbors' loop do to such a row. *)

\* At Lock nothing has been offered yet.
LEMMA PartialStart ==
  ASSUME NEW i, NEW R, NEW full
  PROVE  Partial(i, R, {}, R, full)
BY DEF Partial

\* A pair whose id is in the row.
LEMMA PartialSkip ==
  ASSUME NEW i, NEW R, NEW S, NEW T, NEW full, Partial(i, R, S, T, full), NEW p \in T
  PROVE  Partial(i, R, S \cup {p}, T, full)
<1>1. R \cup (S \cup {p}) = R \cup S
  BY DEF Partial
<1> QED BY <1>1 DEF Partial

\* Pairs that are no nearer than all of a full row.
LEMMA PartialBreak ==
  ASSUME NEW i, NEW R, NEW S, NEW T, NEW full, Partial(i, R, S, T, full), full,
         NEW S2, S \subseteq S2,
         \A x \in S2 \ S, y \in T : Dist[i][y] <= Dist[i][x]
  PROVE  Partial(i, R, S2, T, full)
BY DEF Partial

LEMMA PartialAppend ==
  ASSUME NEW i, NEW R, NEW S, NEW T, Partial(i, R, S, T, FALSE), NEW p
  PROVE  \A more : Partial(i, R, S \cup {p}, T \cup {p}, more)
<1>1. T = R \cup S
  BY DEF Partial
<1>2. T \cup {p} = R \cup (S \cup {p})
  BY <1>1
<1>3. R \ (T \cup {p}) = {} /\ (R \cup (S \cup {p})) \ (T \cup {p}) = {}
  BY <1>1
<1> QED BY <1>2, <1>3 DEF Partial

\* The list is sorted: what came in before p is no farther than p, and the
\* farthest pair, which p drives out, is.
LEMMA PartialReplace ==
  ASSUME NEW i, NEW R, NEW S, NEW T, NEW full, Partial(i, R, S, T, full), full,
         NEW p, p \notin T, NEW far \in T,
         \A x \in R \cup (S \cup {p}) : Dist[i][x] \in Int,
         \A y \in T : Dist[i][y] <= Dist[i][far],
         Dist[i][p] < Dist[i][far],
         \A x \in S : Dist[i][x] <= Dist[i][p]
  PROVE  Partial(i, R, S \cup {p}, (T \ {far}) \cup {p}, full)
<1> DEFINE N == (T \ {far}) \cup {p}
<1>0. /\ T \subseteq R \cup S
      /\ \A x \in (R \cup S) \ T, y \in T : Dist[i][y] <= Dist[i][x]
      /\ \A x \in T \ R, y \in R \ T : Dist[i][x] < Dist[i][y]
  BY DEF Partial
<1>1. \A x \in (R \cup S) \ T : Dist[i][far] <= Dist[i][x]
  BY <1>0
<1>2. ASSUME NEW x \in (R \cup (S \cup {p})) \ N, NEW y \in N
      PROVE  Dist[i][y] <= Dist[i][x]
  <2>1. Dist[i][x] \in Int /\ Dist[i][y] \in Int /\ Dist[i][far] \in Int
    BY <1>0, <1>2
  <2>2. Dist[i][far] <= Dist[i][x]
    BY <1>1, <1>2, <2>1
  <2>3. Dist[i][y] <= Dist[i][far]
    BY <1>2, <2>1
  <2> QED BY <2>1, <2>2, <2>3
<1>3. ASSUME NEW x \in N \ R, NEW y \in R \ N
      PROVE  Dist[i][x] < Dist[i][y]
  <2>1. Dist[i][x] \in Int /\ Dist[i][y] \in Int /\ Dist[i][far] \in Int /\ Dist[i][p] \in Int
    BY <1>0, <1>3
  <2>2. Dist[i][x] <= Dist[i][p]
    <3>1. CASE x = p
      BY <2>1, <3>1
    <3>2. CASE x # p
      BY <1>0, <1>3, <3>2
    <3> QED BY <3>1, <3>2
  <2>3. Dist[i][far] <= Dist[i][y]
    <3>1. CASE y = far
      BY <2>1, <3>1
    <3>2. CASE y # far
      BY <1>1, <1>3, <3>2
    <3> QED BY <3>1, <3>2
  <2> QED BY <2>1, <2>2, <2>3
<1>4. N \subseteq R \cup (S \cup {p})
  BY <1>0
<1> QED BY <1>2, <1>3, <1>4 DEF Partial

-----------------------------------------------------------------------------
(* The ids of a row and of a call. *)

LEMMA RowIdsMeans ==
  ASSUME NEW i, NEW x
  PROVE  x \in RowIds(i) <=> \E s \in Used(i) : x = cell[i][s].id
BY DEF RowIds, Row

\* Distances of a call's pairs are distances of points, and rise along the list.
LEMMA CallDist ==
  ASSUME TypeOK, NEW t \in Thread, pc[t] # "idle", NEW i, i = RowOf(t)
  PROVE  /\ i \in Point /\ Len(call[t].cand) \in Nat /\ pos[t] \in Nat \ {0}
         /\ \A p \in 1..Len(call[t].cand) :
              /\ call[t].cand[p].id \in Point /\ call[t].cand[p].d \in Int
              /\ Dist[i][call[t].cand[p].id] = call[t].cand[p].d
         /\ Ascending(call[t].cand)
<1>1. call[t] \in Calls
  BY DEF TypeOK
<1>2. \A p \in 1..Len(call[t].cand) : call[t].cand[p] \in Entry
  BY <1>1, CallFacts
<1>3. \A p \in 1..Len(call[t].cand) : call[t].cand[p].d \in Int /\ call[t].cand[p].id \in Point
  BY <1>2, EntryDistance DEF Entry
<1>4. \A p \in 1..Len(call[t].cand) : Dist[i][call[t].cand[p].id] = call[t].cand[p].d
  BY <1>1, ConsistentCalls DEF RowOf
<1> QED BY <1>1, <1>3, <1>4, CallFacts, KnnHeapAssumption DEF RowOf, TypeOK

\* Distances in a row are distances of points.
LEMMA RowDist ==
  ASSUME TypeOK, DistInv, NEW i \in Point
  PROVE  \A s \in Used(i) : /\ cell[i][s].d \in Int /\ cell[i][s].d = Dist[i][cell[i][s].id]
                            /\ cell[i][s].id \in Point /\ cell[i][s].id \in RowIds(i)
BY RowTypes, RowIdsMeans DEF DistInv, Entry

LEMMA SameRow ==
  ASSUME NEW i, degree'[i] = degree[i], cell'[i] = cell[i]
  PROVE  RowIds(i)' = RowIds(i) /\ Full(i)' = Full(i) /\ Used(i)' = Used(i)
BY DEF RowIds, Row, Used, Full

\* The ids of a call after one more of its pairs.
LEMMA SeenGrows ==
  ASSUME TypeOK, NEW t \in Thread, pc[t] \in {"scan", "append", "replace"},
         pc'[t] = "scan", call'[t] = call[t], pos'[t] = pos[t] + 1
  PROVE  SeenIds(t)' = SeenIds(t) \cup {Pair(t).id}
<1>1. pos[t] \in Nat \ {0}
  BY DEF TypeOK
<1>2. 1..(pos[t] + 1) - 1 = (1..pos[t] - 1) \cup {pos[t]}
  BY <1>1
<1>3. SeenIds(t)' = {call[t].cand[p].id : p \in 1..(pos[t] + 1) - 1}
  BY DEF SeenIds
<1>4. SeenIds(t) = {call[t].cand[p].id : p \in 1..pos[t] - 1}
  BY DEF SeenIds
<1> QED BY <1>2, <1>3, <1>4 DEF Pair

LEMMA SeenFacts ==
  ASSUME TypeOK, HistoryTypes, NEW t \in Thread, pc[t] \in {"scan", "append", "replace"}
  PROVE  \A x : x \in SeenIds(t) <=> \E p \in 1..pos[t] - 1 : x = call[t].cand[p].id
BY DEF SeenIds

-----------------------------------------------------------------------------
(* The invariant of the loop. *)

PartOf(t) ==
  Partial(RowOf(t), atLock[RowOf(t)], SeenIds(t), RowIds(RowOf(t)), Full(RowOf(t)))

LEMMA PartFrame ==
  ASSUME NEW u, PartOf(u), pc'[u] = pc[u], call'[u] = call[u], pos'[u] = pos[u],
         degree'[RowOf(u)] = degree[RowOf(u)], cell'[RowOf(u)] = cell[RowOf(u)],
         atLock'[RowOf(u)] = atLock[RowOf(u)]
  PROVE  PartOf(u)'
<1>1. PICK i : i = RowOf(u) /\ i = RowOf(u)'
  BY DEF RowOf
<1>2. RowIds(i)' = RowIds(i) /\ Full(i)' = Full(i) /\ atLock'[i] = atLock[i]
  BY <1>1, SameRow
<1>3. SeenIds(u)' = SeenIds(u)
  BY DEF SeenIds, CallIds
<1>4. Partial(i, atLock'[i], SeenIds(u)', RowIds(i)', Full(i)')
  BY <1>1, <1>2, <1>3 DEF PartOf
<1> QED BY <1>1, <1>4 DEF PartOf, Partial, RowIds, Row, Used, Full

\* To conclude about t's own row after its step.
LEMMA PartIntro ==
  ASSUME NEW t, NEW i, i = RowOf(t), call'[t] = call[t],
         NEW R, R = atLock'[i], NEW S, S = SeenIds(t)', NEW T, T = RowIds(i)',
         NEW full, full = Full(i)', Partial(i, R, S, T, full)
  PROVE  PartOf(t)'
<1>1. RowOf(t)' = i
  BY DEF RowOf
<1>2. Partial(i, atLock'[i], SeenIds(t)', RowIds(i)', Full(i)')
  OBVIOUS
<1> QED BY <1>1, <1>2 DEF PartOf, Partial, RowIds, Row, Used, Full

LEMMA OwnSkip ==
  ASSUME TypeOK, HistoryTypes, NEW t \in Thread, Skip(t), UNCHANGED atLock, PartOf(t)
  PROVE  PartOf(t)'
<1>1. PICK i, R, S, T, full, p :
        /\ i = RowOf(t) /\ R = atLock[i] /\ S = SeenIds(t) /\ T = RowIds(i) /\ full = Full(i)
        /\ p = Pair(t).id
  OBVIOUS
<1>2. Partial(i, R, S, T, full)
  BY <1>1 DEF PartOf
<1>3. p \in T
  BY <1>1, RowIdsMeans DEF Skip, IsPresent
<1>4. Partial(i, R, S \cup {p}, T, full)
  BY <1>2, <1>3, PartialSkip
<1>5. /\ pc[t] = "scan" /\ pc'[t] = "scan" /\ call'[t] = call[t] /\ pos'[t] = pos[t] + 1
      /\ degree'[i] = degree[i] /\ cell'[i] = cell[i] /\ atLock'[i] = R
  BY <1>1 DEF Skip, TypeOK
<1>6. SeenIds(t)' = S \cup {p}
  BY <1>1, <1>5, SeenGrows
<1>7. RowIds(i)' = T /\ Full(i)' = full
  BY <1>1, <1>5, SameRow
<1> QED BY <1>1, <1>4, <1>5, <1>6, <1>7, PartIntro

LEMMA OwnBreak ==
  ASSUME TypeOK, HistoryTypes, DistInv, NEW t \in Thread, Break(t), UNCHANGED atLock, PartOf(t)
  PROVE  PartOf(t)'
<1>1. PICK i, R, S, T, full, c, n :
        /\ i = RowOf(t) /\ R = atLock[i] /\ S = SeenIds(t) /\ T = RowIds(i) /\ full = Full(i)
        /\ c = call[t].cand /\ n = pos[t]
  OBVIOUS
<1>2. Partial(i, R, S, T, full)
  BY <1>1 DEF PartOf
<1>3. pc[t] = "scan" /\ n <= Len(c) /\ StopsAt(i, c[n])
  BY <1>1 DEF Break, Pair
<1>4. /\ i \in Point /\ Len(c) \in Nat /\ n \in Nat \ {0} /\ Ascending(c)
      /\ \A p \in 1..Len(c) : /\ c[p].id \in Point /\ c[p].d \in Int
                              /\ Dist[i][c[p].id] = c[p].d
  BY <1>1, <1>3, CallDist
<1>5. PICK r \in Slot : IsRoot(i, r) /\ c[n].d >= cell[i][r].d
  BY <1>3 DEF StopsAt
<1>6. full
  BY <1>1, <1>3 DEF StopsAt
<1>7. PICK all : all = {c[p].id : p \in 1..Len(c)}
  OBVIOUS
<1>8. \A x : x \in S <=> \E p \in 1..n - 1 : x = c[p].id
  BY <1>1, <1>3, SeenFacts
<1>9. S \subseteq all
  <2>1. \A p \in 1..n - 1 : p \in 1..Len(c)
    BY <1>3, <1>4
  <2> QED BY <1>7, <1>8, <2>1
<1>10. ASSUME NEW x \in all \ S, NEW y \in T PROVE Dist[i][y] <= Dist[i][x]
  <2>1. PICK p \in 1..Len(c) : x = c[p].id
    BY <1>7, <1>10
  <2>2. p \notin 1..n - 1
    BY <1>8, <1>10, <2>1
  <2>3. n <= p /\ n \in 1..Len(c)
    BY <1>3, <1>4, <2>1, <2>2
  <2>4. c[n].d <= c[p].d
    BY <1>4, <2>3 DEF Ascending
  <2>5. PICK s \in Used(i) : y = cell[i][s].id
    BY <1>1, <1>10, RowIdsMeans
  <2>6. cell[i][s].d = Dist[i][y] /\ cell[i][s].d \in Int
    BY <1>4, <2>5, RowDist
  <2>7. cell[i][s].d <= cell[i][r].d /\ cell[i][r].d \in Int
    BY <1>4, <1>5, <2>5, RowDist DEF IsRoot
  <2>8. c[p].d = Dist[i][x] /\ c[p].d \in Int /\ c[n].d \in Int
    BY <1>4, <2>1, <2>3
  <2> QED BY <1>5, <2>4, <2>6, <2>7, <2>8
<1>11. Partial(i, R, all, T, full)
  BY <1>2, <1>6, <1>9, <1>10, PartialBreak
<1>12. /\ pc'[t] = "unlock" /\ call'[t] = call[t]
       /\ degree'[i] = degree[i] /\ cell'[i] = cell[i] /\ atLock'[i] = R
  BY <1>1 DEF Break, TypeOK
<1>13. SeenIds(t)' = all
  BY <1>1, <1>7, <1>12 DEF SeenIds, CallIds
<1>14. RowIds(i)' = T /\ Full(i)' = full
  BY <1>1, <1>12, SameRow
<1> QED BY <1>1, <1>11, <1>12, <1>13, <1>14, PartIntro

\* The end of the list, and a decision, which changes nothing.
LEMMA OwnPass ==
  ASSUME TypeOK, HistoryTypes, NEW t \in Thread, EndOfList(t) \/ Decide(t),
         UNCHANGED atLock, PartOf(t)
  PROVE  PartOf(t)'
<1>1. PICK i, R, S, T, full, c, n :
        /\ i = RowOf(t) /\ R = atLock[i] /\ S = SeenIds(t) /\ T = RowIds(i) /\ full = Full(i)
        /\ c = call[t].cand /\ n = pos[t]
  OBVIOUS
<1>2. Partial(i, R, S, T, full)
  BY <1>1 DEF PartOf
<1>3. /\ pc[t] = "scan" /\ call'[t] = call[t] /\ pos'[t] = pos[t]
      /\ degree'[i] = degree[i] /\ cell'[i] = cell[i] /\ atLock'[i] = R
      /\ \/ pc'[t] \in {"append", "replace"}
         \/ pc'[t] = "unlock" /\ n > Len(c)
  BY <1>1 DEF EndOfList, Decide, TypeOK
<1>4. n \in Nat \ {0} /\ Len(c) \in Nat /\ n <= Len(c) + 1
  BY <1>1, <1>3, CallDist DEF HistoryTypes, InCall
<1>5. SeenIds(t)' = S
  <2>1. CASE pc'[t] \in {"append", "replace"}
    BY <1>1, <1>3, <2>1 DEF SeenIds
  <2>2. CASE pc'[t] = "unlock" /\ n > Len(c)
    <3>1. 1..n - 1 = 1..Len(c)
      BY <1>4, <2>2
    <3> QED BY <1>1, <1>3, <2>2, <3>1 DEF SeenIds, CallIds
  <2> QED BY <1>3, <2>1, <2>2
<1>6. RowIds(i)' = T /\ Full(i)' = full
  BY <1>1, <1>3, SameRow
<1> QED BY <1>1, <1>2, <1>3, <1>5, <1>6, PartIntro

\* The row after Append1 and after Replace.
LEMMA AppendIds ==
  ASSUME TypeOK, DecideInv, NEW t \in Thread, Append1(t), NEW i, i = RowOf(t)
  PROVE  RowIds(i)' = RowIds(i) \cup {Pair(t).id}
<1>1. PICK n : n = degree[i] + 1
  OBVIOUS
<1>2. /\ i \in Point /\ n \in Slot /\ degree[i] \in 0..kMaxDegree /\ degree'[i] = n
      /\ cell'[i] = [cell[i] EXCEPT ![n] = Pair(t)]
  BY <1>1, AppendEffect
<1>3. DOMAIN cell[i] = Slot /\ Used(i) \subseteq Slot
  BY <1>2, RowTypes DEF TypeOK
<1>4. Used(i)' = Used(i) \cup {n} /\ n \notin Used(i)
  BY <1>1, <1>2, KnnHeapAssumption DEF Used
<1>5. cell'[i][n] = Pair(t) /\ \A s \in Used(i) : cell'[i][s] = cell[i][s]
  BY <1>2, <1>3, <1>4
<1>6. RowIds(i)' = {cell'[i][s].id : s \in Used(i)'}
  BY DEF RowIds, Row
<1>7. RowIds(i) = {cell[i][s].id : s \in Used(i)}
  BY DEF RowIds, Row
<1> QED BY <1>4, <1>5, <1>6, <1>7

LEMMA ReplaceIds ==
  ASSUME TypeOK, NEW t \in Thread, Replace(t), NEW i, i = RowOf(t), RowDistinct(i)
  PROVE  \E s \in Slot : /\ IsRoot(i, s)
                         /\ RowIds(i)' = (RowIds(i) \ {cell[i][s].id}) \cup {Pair(t).id}
<1>1. i \in Point /\ degree' = degree
  BY ReplaceEffect
<1>2. PICK s \in Slot : IsRoot(i, s) /\ cell'[i] = [cell[i] EXCEPT ![s] = Pair(t)]
  BY ReplaceEffect
<1>3. DOMAIN cell[i] = Slot /\ Used(i) \subseteq Slot /\ s \in Used(i) /\ Used(i)' = Used(i)
  BY <1>1, <1>2, RowTypes DEF TypeOK, Used, IsRoot
<1>4. cell'[i][s] = Pair(t) /\ \A u \in Used(i) \ {s} : cell'[i][u] = cell[i][u]
  BY <1>2, <1>3
<1>5. RowIds(i)' = {cell'[i][u].id : u \in Used(i)}
  BY <1>3 DEF RowIds, Row
<1>6. RowIds(i) = {cell[i][u].id : u \in Used(i)}
  BY DEF RowIds, Row
<1>7. \A u \in Used(i) \ {s} : cell[i][u].id # cell[i][s].id
  BY <1>3 DEF RowDistinct
<1>8. {cell'[i][u].id : u \in Used(i)} =
        {cell[i][u].id : u \in Used(i) \ {s}} \cup {Pair(t).id}
  BY <1>3, <1>4
<1>9. {cell[i][u].id : u \in Used(i) \ {s}} = {cell[i][u].id : u \in Used(i)} \ {cell[i][s].id}
  BY <1>3, <1>7
<1> QED BY <1>2, <1>5, <1>6, <1>8, <1>9

LEMMA OwnAppend ==
  ASSUME TypeOK, HistoryTypes, DecideInv, NEW t \in Thread, Append1(t),
         UNCHANGED atLock, PartOf(t)
  PROVE  PartOf(t)'
<1>1. PICK i, R, S, T, full, more, p :
        /\ i = RowOf(t) /\ R = atLock[i] /\ S = SeenIds(t) /\ T = RowIds(i) /\ full = Full(i)
        /\ p = Pair(t).id /\ more = Full(i)'
  OBVIOUS
<1>2. Partial(i, R, S, T, full)
  BY <1>1 DEF PartOf
<1>3. ~ full
  <2>1. pc[t] = "append"
    BY DEF Append1
  <2>2. ~ Full(RowOf(t))
    BY <2>1 DEF DecideInv
  <2>3. full <=> Full(RowOf(t))
    BY <1>1
  <2> QED BY <2>2, <2>3
<1>4. Partial(i, R, S \cup {p}, T \cup {p}, more)
  <2>1. \A m : Partial(i, R, S \cup {p}, T \cup {p}, m)
    <3>1. Partial(i, R, S, T, FALSE)
      BY <1>2, <1>3 DEF Partial
    <3> QED BY <3>1, PartialAppend
  <2> QED BY <2>1
<1>5. /\ pc[t] = "append" /\ pc'[t] = "scan" /\ call'[t] = call[t] /\ pos'[t] = pos[t] + 1
      /\ atLock'[i] = R
  BY <1>1 DEF Append1, EndTurn, TypeOK
<1>6. SeenIds(t)' = S \cup {p}
  BY <1>1, <1>5, SeenGrows
<1>7. RowIds(i)' = T \cup {p}
  BY <1>1, AppendIds
<1> QED BY <1>1, <1>4, <1>5, <1>6, <1>7, PartIntro

LEMMA OwnReplace ==
  ASSUME TypeOK, HistoryTypes, DecideInv, DistInv, NEW t \in Thread, Replace(t),
         RowDistinct(RowOf(t)), UNCHANGED atLock, PartOf(t)
  PROVE  PartOf(t)'
<1>1. PICK i, R, S, T, full, c, n, p :
        /\ i = RowOf(t) /\ R = atLock[i] /\ S = SeenIds(t) /\ T = RowIds(i) /\ full = Full(i)
        /\ c = call[t].cand /\ n = pos[t] /\ p = c[n].id /\ Pair(t) = c[n]
  BY DEF Pair
<1>2. Partial(i, R, S, T, full)
  BY <1>1 DEF PartOf
<1>3. pc[t] = "replace" /\ full /\ ~ StopsAt(i, c[n]) /\ ~ IsPresent(i, c[n])
  BY <1>1 DEF DecideInv, Replace
<1>4. /\ i \in Point /\ Len(c) \in Nat /\ n \in Nat \ {0} /\ Ascending(c) /\ n <= Len(c)
      /\ \A q \in 1..Len(c) : /\ c[q].id \in Point /\ c[q].d \in Int
                              /\ Dist[i][c[q].id] = c[q].d
  BY <1>1, <1>3, CallDist DEF TypeOK
<1>5. PICK r \in Slot : /\ IsRoot(i, r)
                        /\ RowIds(i)' = (RowIds(i) \ {cell[i][r].id}) \cup {Pair(t).id}
  BY <1>1, ReplaceIds
<1>6. PICK far : far = cell[i][r].id
  OBVIOUS
<1>7. /\ far \in T /\ Dist[i][far] = cell[i][r].d /\ Dist[i][far] \in Int /\ r \in Used(i)
  BY <1>1, <1>4, <1>5, <1>6, RowDist DEF IsRoot
<1>8. n \in 1..Len(c) /\ Dist[i][p] = c[n].d /\ Dist[i][p] \in Int
  BY <1>1, <1>4
<1>9. Dist[i][p] < Dist[i][far]
  <2>1. ~ (c[n].d >= cell[i][r].d)
    BY <1>1, <1>3, <1>5 DEF StopsAt
  <2> QED BY <1>7, <1>8, <2>1
<1>10. p \notin T
  BY <1>1, <1>3, RowIdsMeans DEF IsPresent
<1>11. \A y \in T : Dist[i][y] <= Dist[i][far]
  <2> SUFFICES ASSUME NEW y \in T PROVE Dist[i][y] <= Dist[i][far]
    OBVIOUS
  <2>1. PICK s \in Used(i) : y = cell[i][s].id
    BY <1>1, RowIdsMeans
  <2>2. Dist[i][y] = cell[i][s].d /\ cell[i][s].d <= cell[i][r].d
    BY <1>4, <1>5, <2>1, RowDist DEF IsRoot
  <2> QED BY <1>7, <2>2
<1>12. \A x \in S : Dist[i][x] \in Int /\ Dist[i][x] <= Dist[i][p]
  <2> SUFFICES ASSUME NEW x \in S PROVE Dist[i][x] \in Int /\ Dist[i][x] <= Dist[i][p]
    OBVIOUS
  <2>1. PICK q \in 1..n - 1 : x = c[q].id
    BY <1>1, <1>3, SeenFacts
  <2>2. q \in 1..Len(c) /\ q <= n
    BY <1>4, <2>1
  <2>3. c[q].d <= c[n].d
    BY <1>4, <1>8, <2>2 DEF Ascending
  <2> QED BY <1>4, <1>8, <2>1, <2>2, <2>3
<1>13. \A x \in R \cup (S \cup {p}) : Dist[i][x] \in Int
  BY <1>1, <1>4, <1>8, <1>12 DEF DistInv
<1>14. Partial(i, R, S \cup {p}, (T \ {far}) \cup {p}, full)
  BY <1>2, <1>3, <1>7, <1>9, <1>10, <1>11, <1>12, <1>13, PartialReplace
<1>15. /\ pc'[t] = "scan" /\ call'[t] = call[t] /\ pos'[t] = pos[t] + 1
       /\ atLock'[i] = R /\ degree' = degree
  BY <1>1 DEF Replace, EndTurn, TypeOK
<1>16. SeenIds(t)' = S \cup {p}
  BY <1>1, <1>3, <1>15, SeenGrows
<1>17. RowIds(i)' = (T \ {far}) \cup {p} /\ Full(i)' = full
  BY <1>1, <1>5, <1>6, <1>15 DEF Full
<1> QED BY <1>1, <1>14, <1>15, <1>16, <1>17, PartIntro

\* What a step of t leaves alone of another call and its row.
LEMMA OtherCall ==
  ASSUME TypeOK, LockInv, NEW t \in Thread, NEW u \in Thread, u # t,
         \/ Merge(t) /\ UNCHANGED atLock
         \/ LockA(t),
         pc'[u] \in {"scan", "append", "replace", "unlock"}
  PROVE  /\ pc'[u] = pc[u] /\ call'[u] = call[u] /\ pos'[u] = pos[u] /\ InCall(u)
         /\ degree'[RowOf(u)] = degree[RowOf(u)] /\ cell'[RowOf(u)] = cell[RowOf(u)]
         /\ atLock'[RowOf(u)] = atLock[RowOf(u)]
<1>1. Merge(t)
  BY DEF LockA, Merge
<1>2. pc'[u] = pc[u] /\ call'[u] = call[u] /\ pos'[u] = pos[u]
  BY <1>1 DEF Merge, Begin, Lock, Break, Skip, Decide, Append1, Replace, EndTurn,
              EndOfList, Unlock, TypeOK
<1>3. InCall(u) /\ pc[u] # "idle"
  BY <1>2 DEF InCall
<1>4. RowOf(u) \in Point /\ locks[RowOf(u)] = u
  BY <1>3, PairFacts DEF LockInv
<1>5. degree'[RowOf(u)] = degree[RowOf(u)] /\ cell'[RowOf(u)] = cell[RowOf(u)]
  <2>1. CASE Append1(t)
    <3>1. RowOf(t) # RowOf(u)
      BY <1>4, <2>1 DEF Append1, LockInv, InCall
    <3>2. PICK n : n = degree[RowOf(t)] + 1
      OBVIOUS
    <3>3. /\ degree' = [degree EXCEPT ![RowOf(t)] = degree[RowOf(t)] + 1]
          /\ cell' = [cell EXCEPT ![RowOf(t)] = [cell[RowOf(t)] EXCEPT ![n] = Pair(t)]]
      BY <2>1, <3>2 DEF Append1
    <3> QED BY <1>4, <3>1, <3>3 DEF TypeOK
  <2>2. CASE Replace(t)
    <3>1. RowOf(t) # RowOf(u)
      BY <1>4, <2>2 DEF Replace, LockInv, InCall
    <3> QED BY <1>4, <2>2, <3>1, ReplaceEffect
  <2>3. CASE degree' = degree /\ cell' = cell
    BY <2>3
  <2> QED BY <1>1, <2>1, <2>2, <2>3 DEF Merge, Begin, Lock, Break, Skip, Decide,
                EndOfList, Unlock
<1>6. atLock'[RowOf(u)] = atLock[RowOf(u)]
  <2>1. CASE LockA(t)
    <3>1. locks[RowOf(t)] = NoThread
      BY <2>1 DEF LockA, Lock
    <3>2. RowOf(t) # RowOf(u)
      BY <1>4, <3>1, KnnHeapAssumption
    <3> QED BY <2>1, <3>2 DEF LockA
  <2> QED BY <2>1
<1> QED BY <1>2, <1>3, <1>5, <1>6

LEMMA MergeStep ==
  ASSUME TypeOK, LockInv, DecideInv, RowsRight, HistoryTypes, DistInv, MergeInv,
         [NextA]_<<vars, atLock, merged>>
  PROVE  MergeInv'
<1>0. \A u \in Thread : InCall(u) => PartOf(u)
  BY DEF MergeInv, PartOf
<1> SUFFICES ASSUME NEW u \in Thread, InCall(u)' PROVE PartOf(u)'
  BY DEF MergeInv, PartOf
<1>1. pc'[u] \in {"scan", "append", "replace", "unlock"}
  BY DEF InCall
<1>2. ASSUME NEW t \in Thread, t # u, (Merge(t) /\ UNCHANGED atLock) \/ LockA(t)
      PROVE  PartOf(u)'
  BY <1>0, <1>1, <1>2, OtherCall, PartFrame
<1>3. ASSUME LockA(u) PROVE PartOf(u)'
  <2>1. PICK i, R, full : i = RowOf(u) /\ R = RowIds(i) /\ full = Full(i)
    OBVIOUS
  <2>2. /\ pc[u] = "lock" /\ i \in Point /\ degree'[i] = degree[i] /\ cell'[i] = cell[i]
        /\ atLock'[i] = R
        /\ call'[u] = call[u] /\ pos'[u] = pos[u] /\ pc'[u] = "scan"
    BY <1>3, <2>1, PairFacts DEF LockA, Lock, HistoryTypes, TypeOK
  <2>3. pos[u] = 1
    BY <2>2 DEF HistoryTypes
  <2>4. SeenIds(u)' = {}
    BY <2>2, <2>3 DEF SeenIds
  <2>5. RowIds(i)' = R /\ Full(i)' = full
    BY <2>1, <2>2, SameRow
  <2>6. Partial(i, R, {}, R, full)
    BY PartialStart
  <2> QED BY <2>1, <2>2, <2>4, <2>5, <2>6, PartIntro
<1>4. ASSUME Begin(u) \/ Unlock(u) \/ Lock(u) PROVE ~ InCall(u)' \/ Lock(u)
  BY <1>4 DEF Begin, Unlock, InCall, TypeOK
<1>5. ASSUME Merge(u), UNCHANGED atLock, ~ Lock(u) PROVE PartOf(u)'
  <2>1. CASE Begin(u) \/ Unlock(u)
    BY <1>4, <1>5, <2>1
  <2>2. InCall(u) => PartOf(u)
    BY <1>0
  <2>3. CASE Break(u)
    BY <2>2, <2>3, <1>5, OwnBreak DEF Break, InCall
  <2>4. CASE Skip(u)
    BY <2>2, <2>4, <1>5, OwnSkip DEF Skip, InCall
  <2>5. CASE Decide(u) \/ EndOfList(u)
    BY <2>2, <2>5, <1>5, OwnPass DEF Decide, EndOfList, InCall
  <2>6. CASE Append1(u)
    BY <2>2, <2>6, <1>5, OwnAppend DEF Append1, InCall
  <2>7. CASE Replace(u)
    <3>1. pc[u] = "replace" /\ RowOf(u) \in Point
      BY <2>7, PairFacts DEF Replace
    <3>2. RowDistinct(RowOf(u))
      BY <3>1 DEF RowsRight, RowRight
    <3> QED BY <2>2, <2>7, <3>1, <3>2, <1>5, OwnReplace DEF InCall
  <2> QED BY <1>5, <2>1, <2>3, <2>4, <2>5, <2>6, <2>7 DEF Merge
<1>6. ASSUME NEW i \in Point, SortRow(i) PROVE FALSE
  BY <1>1, <1>6 DEF SortRow, Quiescent
<1>7. CASE UNCHANGED vars /\ UNCHANGED atLock
  BY <1>0, <1>7, PartFrame DEF vars, InCall
<1>8. ASSUME NEW t \in Thread, LockA(t) \/ UnlockA(t) PROVE PartOf(u)'
  <2>1. LockA(t) \/ (Merge(t) /\ UNCHANGED atLock /\ Unlock(t))
    BY <1>8 DEF UnlockA, Merge
  <2>2. CASE t = u
    <3>1. Unlock(u) => ~ Lock(u)
      BY DEF Unlock, Lock
    <3> QED BY <1>3, <1>5, <2>1, <2>2, <3>1
  <2> QED BY <1>2, <2>1, <2>2
<1>9. ASSUME OtherA PROVE PartOf(u)'
  <2>1. UNCHANGED atLock
    BY <1>9 DEF OtherA
  <2>2. ASSUME NEW t \in Thread, \/ Begin(t) \/ Break(t) \/ Skip(t) \/ Decide(t)
                                 \/ Append1(t) \/ Replace(t) \/ EndOfList(t)
        PROVE  PartOf(u)'
    <3>1. Merge(t) /\ ~ Lock(t)
      BY <2>2 DEF Merge, Lock, Begin, Break, Skip, Decide, Append1, Replace, EndOfList
    <3> QED BY <1>2, <1>5, <2>1, <3>1
  <2>3. Terminated => UNCHANGED vars
    BY DEF Terminated
  <2> QED BY <1>6, <1>7, <1>9, <2>1, <2>2, <2>3 DEF OtherA
<1> QED BY <1>7, <1>8, <1>9 DEF NextA

LEMMA NextOfNextA ==
  ASSUME [NextA]_<<vars, atLock, merged>>
  PROVE  [Next]_vars
<1>1. \A t \in Thread : LockA(t) \/ UnlockA(t) => Merge(t)
  BY DEF LockA, UnlockA, Merge
<1>2. OtherA => Next
  BY DEF OtherA, Next, Merge
<1> QED BY <1>1, <1>2 DEF NextA, Next

LEMMA HistoryStep ==
  ASSUME TypeOK, DistInv, HistoryTypes, [NextA]_<<vars, atLock, merged>>
  PROVE  HistoryTypes'
<1>1. atLock' \in [Point -> SUBSET Point] /\ merged' \in [Point -> SUBSET Point]
  <2>1. ASSUME NEW t \in Thread, LockA(t)
        PROVE  atLock' \in [Point -> SUBSET Point] /\ merged' = merged
    <3>1. RowOf(t) \in Point
      BY <2>1, PairFacts DEF LockA, Lock
    <3>2. RowIds(RowOf(t)) \subseteq Point
      BY <3>1, RowIdsMeans, RowDist
    <3> QED BY <2>1, <3>1, <3>2 DEF LockA, HistoryTypes
  <2>2. ASSUME NEW t \in Thread, UnlockA(t)
        PROVE  merged' \in [Point -> SUBSET Point] /\ atLock' = atLock
    <3>1. RowOf(t) \in Point /\ CallIds(t) \subseteq Point
      BY <2>2, CallDist DEF UnlockA, Unlock, CallIds
    <3>2. merged' = [merged EXCEPT ![RowOf(t)] = merged[RowOf(t)] \cup CallIds(t)]
      BY <2>2 DEF UnlockA, CallIds
    <3> QED BY <2>2, <3>1, <3>2 DEF UnlockA, HistoryTypes
  <2> QED BY <2>1, <2>2 DEF NextA, OtherA, HistoryTypes
<1>2. ASSUME NEW u \in Thread
      PROVE  /\ InCall(u)' => pos'[u] <= Len(call'[u].cand) + 1
             /\ pc'[u] = "lock" => pos'[u] = 1
  <2>0. /\ InCall(u) => pos[u] <= Len(call[u].cand) + 1
        /\ pc[u] = "lock" => pos[u] = 1
    BY DEF HistoryTypes
  <2>1. ASSUME NEW t \in Thread, Merge(t), t # u
        PROVE  pc'[u] = pc[u] /\ call'[u] = call[u] /\ pos'[u] = pos[u]
    BY <2>1 DEF Merge, Begin, Lock, Break, Skip, Decide, Append1, Replace, EndTurn,
                EndOfList, Unlock, TypeOK
  <2>2. CASE Merge(u)
    <3>1. pc[u] # "idle" => Len(call[u].cand) \in Nat /\ pos[u] \in Nat \ {0}
      BY CallDist
    <3>2. pc[u] \in {"append", "replace"} => pos[u] <= Len(call[u].cand)
      BY DEF TypeOK
    <3>3. CASE Begin(u)
      BY <3>3 DEF Begin, InCall, TypeOK
    <3>4. CASE Lock(u)
      <4>1. pc'[u] = "scan" /\ call'[u] = call[u] /\ pos'[u] = 1 /\ Len(call[u].cand) \in Nat
        BY <2>0, <3>1, <3>4 DEF Lock, TypeOK
      <4> QED BY <4>1
    <3>5. CASE Break(u) \/ Decide(u) \/ EndOfList(u)
      BY <2>0, <3>5 DEF Break, Decide, EndOfList, InCall, TypeOK
    <3>6. CASE Skip(u) \/ Append1(u) \/ Replace(u)
      <4>1. /\ pc'[u] = "scan" /\ call'[u] = call[u] /\ pos'[u] = pos[u] + 1
            /\ pc[u] \in {"scan", "append", "replace"}
        BY <3>6 DEF Skip, Append1, Replace, EndTurn, TypeOK
      <4>2. pos[u] <= Len(call[u].cand)
        BY <3>2, <3>6 DEF Skip, Append1, Replace
      <4>3. Len(call[u].cand) \in Nat /\ pos[u] \in Nat
        BY <3>1, <4>1
      <4> QED BY <4>1, <4>2, <4>3
    <3>7. CASE Unlock(u)
      BY <3>7 DEF Unlock, InCall, TypeOK
    <3> QED BY <2>2, <3>3, <3>4, <3>5, <3>6, <3>7 DEF Merge
  <2>3. CASE UNCHANGED <<pc, call, pos>>
    BY <2>0, <2>3 DEF InCall
  <2>4. (\E t \in Thread : Merge(t)) \/ UNCHANGED <<pc, call, pos>>
    BY NextOfNextA DEF Next, SortRow, Terminated, vars
  <2> QED BY <2>0, <2>1, <2>2, <2>3, <2>4 DEF InCall
<1> QED BY <1>1, <1>2 DEF HistoryTypes

LEMMA DistStep ==
  ASSUME TypeOK, TypeOK', DecideInv, DistInv, HistoryTypes, [NextA]_<<vars, atLock, merged>>
  PROVE  DistInv'
<1> SUFFICES ASSUME NEW i \in Point
             PROVE  /\ \A s \in Used(i)' : cell'[i][s].d = Dist[i][cell'[i][s].id]
                    /\ atLock'[i] \subseteq Point
                    /\ \A x \in atLock'[i] : Dist[i][x] \in Int
  BY DEF DistInv, Used
<1>0. /\ \A s \in Used(i) : cell[i][s].d = Dist[i][cell[i][s].id]
      /\ atLock[i] \subseteq Point /\ \A x \in atLock[i] : Dist[i][x] \in Int
  BY DEF DistInv
<1>1. ASSUME NEW t \in Thread, LockA(t), RowOf(t) = i
      PROVE  atLock'[i] \subseteq Point /\ \A x \in atLock'[i] : Dist[i][x] \in Int
  <2>1. atLock'[i] = RowIds(i)
    BY <1>1 DEF LockA, HistoryTypes
  <2> QED BY <2>1, RowIdsMeans, RowDist
<1>2. \/ atLock'[i] = atLock[i]
      \/ \E t \in Thread : LockA(t) /\ RowOf(t) = i
  BY DEF NextA, OtherA, UnlockA, LockA, HistoryTypes
<1>3. ASSUME NEW t \in Thread, Append1(t) \/ Replace(t)
      PROVE  Pair(t).d = Dist[RowOf(t)][Pair(t).id]
  <2>1. pc[t] \in {"append", "replace"}
    BY <1>3 DEF Append1, Replace
  <2>2. pos[t] \in 1..Len(call[t].cand)
    BY <2>1, CallDist DEF TypeOK
  <2> QED BY <2>1, <2>2, CallDist DEF Pair
<1>4. \A s \in Used(i)' : cell'[i][s].d = Dist[i][cell'[i][s].id]
  <2>1. CASE degree'[i] = degree[i] /\ cell'[i] = cell[i]
    BY <1>0, <2>1 DEF Used
  <2>2. ASSUME NEW t \in Thread, Append1(t), RowOf(t) = i
        PROVE  \A s \in Used(i)' : cell'[i][s].d = Dist[i][cell'[i][s].id]
    <3>1. PICK n : n = degree[i] + 1
      OBVIOUS
    <3>2. /\ n \in Slot /\ degree[i] \in 0..kMaxDegree /\ degree'[i] = n
          /\ cell'[i] = [cell[i] EXCEPT ![n] = Pair(t)]
      BY <2>2, <3>1, AppendEffect
    <3>3. DOMAIN cell[i] = Slot /\ Used(i) \subseteq Slot
      BY RowTypes DEF TypeOK
    <3>4. Used(i)' = Used(i) \cup {n} /\ n \notin Used(i)
      BY <3>1, <3>2, KnnHeapAssumption DEF Used
    <3>5. cell'[i][n] = Pair(t) /\ \A s \in Used(i) : cell'[i][s] = cell[i][s]
      BY <3>2, <3>3, <3>4
    <3> QED BY <1>0, <1>3, <2>2, <3>4, <3>5
  <2>3. ASSUME NEW t \in Thread, Replace(t), RowOf(t) = i
        PROVE  \A s \in Used(i)' : cell'[i][s].d = Dist[i][cell'[i][s].id]
    <3>1. PICK s \in Slot : cell'[i] = [cell[i] EXCEPT ![s] = Pair(t)]
      BY <2>3, ReplaceEffect
    <3>2. DOMAIN cell[i] = Slot /\ Used(i) \subseteq Slot /\ Used(i)' = Used(i)
      BY <2>3, ReplaceEffect, RowTypes DEF TypeOK, Used
    <3>3. \A u \in Used(i) : cell'[i][u] = IF u = s THEN Pair(t) ELSE cell[i][u]
      BY <3>1, <3>2
    <3> QED BY <1>0, <1>3, <2>3, <3>2, <3>3
  <2>4. ASSUME SortRow(i)
        PROVE  \A s \in Used(i)' : cell'[i][s].d = Dist[i][cell'[i][s].id]
    <3>1. PICK f \in [Slot -> Row(i) \cup {kEmptyCell}] :
             SortedRow(i, f) /\ cell' = [cell EXCEPT ![i] = f]
      BY <2>4 DEF SortRow
    <3>2. PICK p \in [Used(i) -> Used(i)] :
             f = [s \in Slot |-> IF s \in Used(i) THEN cell[i][p[s]] ELSE cell[i][s]]
      BY <3>1 DEF SortedRow
    <3>3. Used(i) \subseteq Slot /\ Used(i)' = Used(i)
      BY <2>4, RowTypes DEF SortRow, Used
    <3>4. \A u \in Used(i) : cell'[i][u] = cell[i][p[u]]
      BY <3>1, <3>2, <3>3 DEF TypeOK
    <3> QED BY <1>0, <3>2, <3>3, <3>4
  <2>5. \/ degree'[i] = degree[i] /\ cell'[i] = cell[i]
        \/ \E t \in Thread : (Append1(t) \/ Replace(t)) /\ RowOf(t) = i
        \/ SortRow(i)
    <3>1. ASSUME NEW t \in Thread, Append1(t), RowOf(t) # i
          PROVE  degree'[i] = degree[i] /\ cell'[i] = cell[i]
      <4>1. PICK n : n = degree[RowOf(t)] + 1
        OBVIOUS
      <4>2. /\ degree' = [degree EXCEPT ![RowOf(t)] = degree[RowOf(t)] + 1]
            /\ cell' = [cell EXCEPT ![RowOf(t)] = [cell[RowOf(t)] EXCEPT ![n] = Pair(t)]]
        BY <3>1, <4>1 DEF Append1
      <4> QED BY <3>1, <4>2 DEF TypeOK
    <3>2. ASSUME NEW t \in Thread, Replace(t), RowOf(t) # i
          PROVE  degree'[i] = degree[i] /\ cell'[i] = cell[i]
      BY <3>2, ReplaceEffect
    <3>3. ASSUME NEW j \in Point, SortRow(j), j # i
          PROVE  degree'[i] = degree[i] /\ cell'[i] = cell[i]
      BY <3>3 DEF SortRow, TypeOK
    <3>4. ASSUME NEW t \in Thread, Merge(t), ~ Append1(t), ~ Replace(t)
          PROVE  degree'[i] = degree[i] /\ cell'[i] = cell[i]
      BY <3>4 DEF Merge, Begin, Lock, Break, Skip, Decide, EndOfList, Unlock
    <3> QED BY <3>1, <3>2, <3>3, <3>4, NextOfNextA DEF Next, Terminated, vars
  <2> QED BY <2>1, <2>2, <2>3, <2>4, <2>5
<1> QED BY <1>0, <1>1, <1>2, <1>4

-----------------------------------------------------------------------------
(* The call as a whole. *)

LEMMA RowSize ==
  ASSUME TypeOK, NEW i \in Point, RowDistinct(i)
  PROVE  Cardinality(RowIds(i)) = degree[i] /\ degree[i] \in 0..kMaxDegree
<1>1. degree[i] \in 0..kMaxDegree /\ degree[i] \in Nat
  BY KnnHeapAssumption DEF TypeOK
<1>2. IsFiniteSet(Used(i)) /\ Cardinality(Used(i)) = degree[i]
  <2>1. PICK n \in Nat : n = degree[i]
    BY <1>1
  <2>2. IsFiniteSet(1..n) /\ Cardinality(1..n) = n
    <3>1. 1 \in Int /\ n \in Int /\ (IF 1 > n THEN 0 ELSE n - 1 + 1) = n
      BY <2>1
    <3> QED BY <3>1, FS_Interval
  <2>3. Used(i) = 1..n
    BY <2>1 DEF Used
  <2> QED BY <2>1, <2>2, <2>3
<1>3. PICK g : g = [s \in Used(i) |-> cell[i][s].id]
  OBVIOUS
<1>4. g \in [Used(i) -> RowIds(i)]
  BY <1>3, RowIdsMeans
<1>5. \A u, v \in Used(i) : g[u] = g[v] => u = v
  BY <1>3 DEF RowDistinct
<1>6. \A x \in RowIds(i) : \E s \in Used(i) : g[s] = x
  BY <1>3, RowIdsMeans
<1>7. g \in Bijection(Used(i), RowIds(i))
  BY <1>4, <1>5, <1>6 DEF Bijection, Injection, Surjection, IsInjective
<1>8. ExistsBijection(Used(i), RowIds(i))
  BY <1>7 DEF ExistsBijection
<1> QED BY <1>1, <1>2, <1>8, FS_Bijection

\* A row that has been offered all of a call is one NearestTable allows.
LEMMA WholeCall ==
  ASSUME TypeOK, NEW i \in Point, RowDistinct(i), NEW R, NEW S,
         Partial(i, R, S, RowIds(i), Full(i))
  PROVE  RowIds(i) \in Table!KeptAfter(i, R, S)
<1>1. Cardinality(RowIds(i)) = degree[i] /\ degree[i] \in 0..kMaxDegree
  BY RowSize
<1>2. Cardinality(RowIds(i)) <= kMaxDegree
  BY <1>1, KnnHeapAssumption
<1>3. RowIds(i) # R \cup S => Cardinality(RowIds(i)) = kMaxDegree
  BY <1>1 DEF Partial, Full
<1>4. \A T : Table!Cardinality(T) = Cardinality(T)
  BY DEF Table!Cardinality, Cardinality
<1>5. Table!IsNearest(i, RowIds(i), R \cup S)
  BY <1>2, <1>3, <1>4 DEF Partial, Table!IsNearest
<1> QED BY <1>5 DEF Partial, Table!KeptAfter

\* The rows as callers see them: NearestTable's kept.
Seen == [i \in Point |-> IF locks[i] = NoThread THEN RowIds(i) ELSE atLock[i]]

LEMMA UnlockIsMerge ==
  ASSUME TypeOK, LockInv, RowsRight, HistoryTypes, MergeInv, NEW t \in Thread, UnlockA(t)
  PROVE  \E i \in Point : \E S \in SUBSET Point : Table!Merge(i, S)
<1>1. PICK i, S : i = RowOf(t) /\ S = CallIds(t)
  OBVIOUS
<1>2. pc[t] = "unlock" /\ i \in Point /\ S \in SUBSET Point
  BY <1>1, CallDist DEF UnlockA, Unlock, CallIds
<1>3. InCall(t) /\ locks[i] = t /\ t # NoThread
  BY <1>1, <1>2, KnnHeapAssumption DEF InCall, LockInv
<1>4. Partial(i, atLock[i], S, RowIds(i), Full(i))
  BY <1>1, <1>2, <1>3 DEF MergeInv, SeenIds
<1>5. RowIds(i) \in Table!KeptAfter(i, atLock[i], S)
  BY <1>2, <1>4, WholeCall DEF RowsRight, RowRight
<1>6. /\ locks' = [locks EXCEPT ![i] = NoThread]
      /\ UNCHANGED <<degree, cell, atLock>>
      /\ merged' = [merged EXCEPT ![i] = merged[i] \cup S]
  BY <1>1 DEF UnlockA, Unlock, CallIds
<1>7. \A j \in Point : RowIds(j)' = RowIds(j)
  BY <1>6 DEF RowIds, Row, Used
<1>8. Seen' = [Seen EXCEPT ![i] = RowIds(i)] /\ Seen[i] = atLock[i]
  BY <1>2, <1>3, <1>6, <1>7 DEF Seen, TypeOK
<1>9. PICK T : T = RowIds(i) /\ T \in Table!KeptAfter(i, Seen[i], S) /\ Seen' = [Seen EXCEPT ![i] = T]
  BY <1>5, <1>8
<1>10. Table!Merge(i, S)
  BY <1>6, <1>9 DEF Table!Merge, Seen
<1> QED BY <1>2, <1>10

\* No other step shows.
LEMMA OtherIsStutter ==
  ASSUME TypeOK, LockInv, DecideInv, HistoryTypes, [NextA]_<<vars, atLock, merged>>,
         ~ \E t \in Thread : UnlockA(t)
  PROVE  Seen' = Seen /\ merged' = merged
<1>1. merged' = merged
  BY DEF NextA, OtherA, LockA
<1> SUFFICES ASSUME NEW i \in Point
             PROVE  (IF locks'[i] = NoThread THEN RowIds(i)' ELSE atLock'[i]) =
                    (IF locks[i] = NoThread THEN RowIds(i) ELSE atLock[i])
  BY <1>1 DEF Seen
<1>2. ASSUME NEW t \in Thread, LockA(t)
      PROVE  /\ \A j \in Point : RowIds(j)' = RowIds(j)
             /\ locks[RowOf(t)] = NoThread
             /\ locks'[i] = IF i = RowOf(t) THEN t ELSE locks[i]
             /\ atLock'[i] = IF i = RowOf(t) THEN RowIds(i) ELSE atLock[i]
  <2>1. degree' = degree /\ cell' = cell
    BY <1>2 DEF LockA, Lock
  <2>2. /\ locks[RowOf(t)] = NoThread
        /\ locks' = [locks EXCEPT ![RowOf(t)] = t]
        /\ atLock' = [atLock EXCEPT ![RowOf(t)] = RowIds(RowOf(t))]
    BY <1>2 DEF LockA, Lock
  <2>3. \A j \in Point : RowIds(j)' = RowIds(j)
    BY <2>1 DEF RowIds, Row, Used
  <2>4. DOMAIN locks = Point /\ DOMAIN atLock = Point
    BY DEF HistoryTypes, TypeOK
  <2>5. PICK k : k = RowOf(t)
    OBVIOUS
  <2> QED BY <2>2, <2>3, <2>4, <2>5
<1>3. ASSUME NEW t \in Thread, Append1(t) \/ Replace(t)
      PROVE  /\ locks[RowOf(t)] = t /\ locks' = locks
             /\ i # RowOf(t) => degree'[i] = degree[i] /\ cell'[i] = cell[i]
  <2>1. locks[RowOf(t)] = t /\ locks' = locks
    BY <1>3 DEF Append1, Replace, EndTurn, LockInv, InCall
  <2>2. ASSUME Append1(t), i # RowOf(t) PROVE degree'[i] = degree[i] /\ cell'[i] = cell[i]
    <3>1. PICK n : n = degree[RowOf(t)] + 1
      OBVIOUS
    <3>2. /\ degree' = [degree EXCEPT ![RowOf(t)] = degree[RowOf(t)] + 1]
          /\ cell' = [cell EXCEPT ![RowOf(t)] = [cell[RowOf(t)] EXCEPT ![n] = Pair(t)]]
      BY <2>2, <3>1 DEF Append1
    <3> QED BY <2>2, <3>2 DEF TypeOK
  <2>3. ASSUME Replace(t), i # RowOf(t) PROVE degree'[i] = degree[i] /\ cell'[i] = cell[i]
    BY <2>3, ReplaceEffect
  <2> QED BY <1>3, <2>1, <2>2, <2>3
<1>4. ASSUME NEW j \in Point, SortRow(j) PROVE RowIds(i)' = RowIds(i) /\ locks' = locks
  <2>1. PICK f \in [Slot -> Row(j) \cup {kEmptyCell}] :
           SortedRow(j, f) /\ cell' = [cell EXCEPT ![j] = f]
    BY <1>4 DEF SortRow
  <2>2. degree' = degree /\ locks' = locks
    BY <1>4 DEF SortRow
  <2>3. CASE i # j
    <3>1. cell'[i] = cell[i] /\ degree'[i] = degree[i]
      BY <2>1, <2>2, <2>3 DEF TypeOK
    <3> QED BY <2>2, <3>1, SameRow
  <2>4. CASE i = j
    <3>1. PICK p \in [Used(i) -> Used(i)] :
             /\ \A v \in Used(i) : \E u \in Used(i) : p[u] = v
             /\ f = [s \in Slot |-> IF s \in Used(i) THEN cell[i][p[s]] ELSE cell[i][s]]
      BY <2>1, <2>4 DEF SortedRow
    <3>2. Used(i) \subseteq Slot /\ Used(i)' = Used(i)
      BY <2>2, RowTypes DEF Used
    <3>3. \A u \in Used(i) : cell'[i][u] = cell[i][p[u]]
      BY <2>1, <2>4, <3>1, <3>2 DEF TypeOK
    <3>4. {cell'[i][u].id : u \in Used(i)} = {cell[i][u].id : u \in Used(i)}
      BY <3>1, <3>3
    <3>5. RowIds(i) = {cell[i][u].id : u \in Used(i)}
      BY DEF RowIds, Row
    <3>6. RowIds(i)' = {cell'[i][u].id : u \in Used(i)'}
      BY DEF RowIds, Row
    <3> QED BY <2>2, <3>2, <3>4, <3>5, <3>6
  <2> QED BY <2>3, <2>4
<1>5. ASSUME UNCHANGED <<locks, degree, cell, atLock>>
      PROVE  RowIds(i)' = RowIds(i) /\ locks'[i] = locks[i] /\ atLock'[i] = atLock[i]
  BY <1>5, SameRow
<1>6. CASE \E t \in Thread : LockA(t)
  BY <1>2, <1>6, KnnHeapAssumption
<1>7. CASE UNCHANGED <<locks, degree, cell, atLock>>
  BY <1>5, <1>7
<1>8. CASE \E t \in Thread : (Append1(t) \/ Replace(t)) /\ UNCHANGED atLock
  <2>1. PICK t \in Thread : (Append1(t) \/ Replace(t)) /\ UNCHANGED atLock
    BY <1>8
  <2>2. CASE i = RowOf(t)
    BY <1>3, <2>1, <2>2, KnnHeapAssumption
  <2>3. CASE i # RowOf(t)
    <3>1. RowIds(i)' = RowIds(i)
      BY <1>3, <2>1, <2>3, SameRow
    <3> QED BY <1>3, <2>1, <3>1
  <2> QED BY <2>2, <2>3
<1>9. CASE \E j \in Point : SortRow(j) /\ UNCHANGED atLock
  BY <1>4, <1>9
<1> QED BY <1>6, <1>7, <1>8, <1>9 DEF NextA, OtherA, vars, Begin, Break, Skip, Decide,
        EndOfList, Terminated

-----------------------------------------------------------------------------
(***************************************************************************)
(* merge_neighbors, pair by pair under the row's mutex, implements         *)
(* NearestTable's one-step merge (ImplementsNearestTable): a row as the    *)
(* other threads can see it goes from what it was at Lock to the nearest   *)
(* of that and the whole list at Unlock, and nothing else ever shows.      *)
(***************************************************************************)
THEOREM MergeIsAtomic == SpecA => ImplementsNearestTable
<1> DEFINE IInv == /\ TypeOK /\ LockInv /\ DecideInv /\ RowsRight
                   /\ HistoryTypes /\ DistInv /\ MergeInv
<1>1. InitA => IInv
  <2> SUFFICES ASSUME InitA PROVE IInv
    OBVIOUS
  <2>1. TypeOK
    BY KnnHeapAssumption DEF InitA, Init, TypeOK, Used, Slot
  <2>2. RowsRight
    BY DEF InitA, Init, RowsRight, RowRight, RowDistinct, RowNearest, RowOffered, Row, Used
  <2>3. \A t \in Thread : pc[t] = "idle" /\ ~ InCall(t)
    BY DEF InitA, Init, InCall
  <2>4. LockInv /\ DecideInv /\ HistoryTypes /\ MergeInv
    BY <2>3 DEF InitA, LockInv, DecideInv, HistoryTypes, MergeInv
  <2>5. DistInv
    BY DEF InitA, Init, DistInv, Used
  <2> QED BY <2>1, <2>2, <2>4, <2>5
<1>2. IInv /\ [NextA]_<<vars, atLock, merged>> => IInv'
  <2> SUFFICES ASSUME IInv, [NextA]_<<vars, atLock, merged>> PROVE IInv'
    OBVIOUS
  <2>1. [Next]_vars
    BY NextOfNextA
  <2>2. TypeOK' /\ LockInv' /\ DecideInv' /\ RowsRight'
    BY <2>1, TypeStep, LockStep, DecideStep, RowsStep
  <2>3. HistoryTypes' /\ DistInv' /\ MergeInv'
    BY <2>2, HistoryStep, DistStep, MergeStep
  <2> QED BY <2>2, <2>3
<1>3. InitA => Table!Init
  <2> SUFFICES ASSUME InitA PROVE Table!Init
    OBVIOUS
  <2>1. \A i \in Point : locks[i] = NoThread /\ RowIds(i) = {}
    BY DEF InitA, Init, RowIds, Row, Used
  <2> QED BY <2>1 DEF InitA, Table!Init
<1>4. IInv /\ [NextA]_<<vars, atLock, merged>> => [Table!Next]_<<Seen, merged>>
  BY UnlockIsMerge, OtherIsStutter DEF Table!Next
<1>5. [Table!Next]_<<Seen, merged>> =>
        [Table!Next]_<<[i \in Point |-> IF locks[i] = NoThread THEN RowIds(i) ELSE atLock[i]],
                       merged>>
  BY DEF Seen
<1> QED BY <1>1, <1>2, <1>3, <1>4, <1>5, PTL DEF SpecA, ImplementsNearestTable, Table!Spec
=============================================================================
