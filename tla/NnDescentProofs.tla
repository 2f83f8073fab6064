-------------------------- MODULE NnDescentProofs --------------------------
(***************************************************************************)
(* What nn_descent_pass guarantees for every number of points and passes,  *)
(* every distance, every Hamming filter and every size of the table of     *)
(* seen ids: no point becomes its own neighbour, and no merge, forward or  *)
(* reverse, from whatever stale copy it was found, makes a row worse.      *)
(***************************************************************************)
EXTENDS NnDescent, FiniteSetTheorems, TLAPS

-----------------------------------------------------------------------------
(* What a merge leaves behind (Nearest). *)

LEMMA SubsetFacts ==
  ASSUME NEW S \in SUBSET Point
  PROVE  IsFiniteSet(S) /\ Cardinality(S) \in Nat
BY NnDescentAssumption, FS_Subset, FS_CardinalityType

LEMMA KeptFacts ==
  ASSUME NEW i \in Point, NEW R \in SUBSET Point, NEW S \in SUBSET Point,
         NEW T \in KeptAfter(i, R, S)
  PROVE  /\ T \subseteq R \cup S
         /\ Cardinality(T) <= k
         /\ T # R \cup S => Cardinality(T) = k
         /\ \A x \in (R \cup S) \ T, y \in T : Dist[i][y] <= Dist[i][x]
BY DEF KeptAfter, IsNearest

LEMMA MoreNearby ==
  ASSUME NEW i \in Point, NEW A \in SUBSET Point, NEW B \in SUBSET Point, NEW d,
         \A x \in A : Dist[i][x] <= d => x \in B
  PROVE  CountWithin(i, B, d) >= CountWithin(i, A, d)
<1> DEFINE a == {x \in A : Dist[i][x] <= d}
           b == {x \in B : Dist[i][x] <= d}
<1>1. a \in SUBSET b /\ b \in SUBSET Point /\ a \in SUBSET Point
  OBVIOUS
<1>2. IsFiniteSet(b) /\ Cardinality(a) \in Nat /\ Cardinality(b) \in Nat
  BY <1>1, SubsetFacts
<1> HIDE DEF a, b
<1>3. Cardinality(a) <= Cardinality(b)
  BY <1>1, <1>2, FS_Subset
<1> QED BY <1>2, <1>3 DEF CountWithin, a, b

\* A row of at most k that a merge changes has as many neighbours within d as
\* before: either all of the near ones are still there, or one of them was
\* dropped, which takes a full row without anything farther.
LEMMA KeptImproves ==
  ASSUME NEW i \in Point, NEW R \in SUBSET Point, NEW S \in SUBSET Point,
         NEW T \in KeptAfter(i, R, S), Cardinality(R) <= k, NEW d \in Int
  PROVE  CountWithin(i, T, d) >= CountWithin(i, R, d)
<1>1. T \in SUBSET Point
  BY KeptFacts
<1>2. CASE \A x \in R : Dist[i][x] <= d => x \in T
  BY <1>1, <1>2, MoreNearby
<1>3. CASE \E x \in R : Dist[i][x] <= d /\ x \notin T
  <2>1. PICK x \in R : Dist[i][x] <= d /\ x \notin T
    BY <1>3
  <2>2. \A y \in Point : Dist[i][y] \in Int
    BY NnDescentAssumption
  <2>3. \A y \in T : Dist[i][y] <= d
    <3> SUFFICES ASSUME NEW y \in T PROVE Dist[i][y] <= d
      OBVIOUS
    <3>1. Dist[i][y] <= Dist[i][x]
      BY <2>1, KeptFacts
    <3>2. y \in Point /\ x \in Point
      BY <1>1
    <3> QED BY <2>1, <2>2, <3>1, <3>2
  <2>4. CountWithin(i, T, d) = Cardinality(T)
    <3>1. {y \in T : Dist[i][y] <= d} = T
      BY <2>3
    <3> QED BY <3>1 DEF CountWithin
  <2>5. Cardinality(T) = k
    BY <2>1, KeptFacts
  <2>6. CountWithin(i, R, d) <= Cardinality(R) /\ CountWithin(i, R, d) \in Nat
    <3>1. {y \in R : Dist[i][y] <= d} \in SUBSET R
      OBVIOUS
    <3>2. IsFiniteSet(R)
      BY SubsetFacts
    <3>3. /\ IsFiniteSet({y \in R : Dist[i][y] <= d})
          /\ Cardinality({y \in R : Dist[i][y] <= d}) <= Cardinality(R)
      BY <3>1, <3>2, FS_Subset
    <3> QED BY <3>3, FS_CardinalityType DEF CountWithin
  <2>7. Cardinality(R) \in Nat /\ k \in Nat
    BY SubsetFacts, NnDescentAssumption
  <2> QED BY <2>4, <2>5, <2>6, <2>7
<1> QED BY <1>2, <1>3

-----------------------------------------------------------------------------
(***************************************************************************)
(* The strengthening: what is still to be merged for a point does not hold *)
(* that point either, no row is longer than the table is wide, and a pass  *)
(* is under way only while there is one to go.                             *)
(***************************************************************************)
FwdOK == \A u \in Point : u \notin fwd[u]
RowsFit == \A u \in Point : Cardinality(row[u]) <= k
PassLeft == phase # "final" => pass < Passes

IInv == NoSelfLoops /\ FwdOK /\ RowsFit /\ PassLeft

LEMMA CandFacts ==
  ASSUME TypeOK, NEW u \in Point
  PROVE  Scored(u) \in SUBSET Point /\ u \notin Scored(u)
<1>1. \A S, m, distance : FirstOf(S, m, distance) \subseteq S
  BY DEF FirstOf
<1>2. snap[u] \subseteq Point /\ \A v \in Point : snap[v] \subseteq Point
  BY DEF TypeOK
<1>3. Expanded(u) \subseteq Point
  BY <1>1, <1>2 DEF Expanded
<1>4. Walked(u) \subseteq Point
  BY <1>2, <1>3 DEF Walked
<1>5. Cand(u) \subseteq Point /\ u \notin Cand(u)
  BY <1>4 DEF Cand
<1> QED BY <1>1, <1>5 DEF Scored

\* A merge of pairs without the row's own point into one row.
LEMMA MergeKeeps ==
  ASSUME TypeOK, NoSelfLoops, RowsFit, NEW i \in Point, NEW S \in SUBSET Point,
         i \notin S, NEW T \in KeptAfter(i, row[i], S), row' = [row EXCEPT ![i] = T]
  PROVE  /\ row' \in [Point -> SUBSET Point]
         /\ \A u \in Point : u \notin row'[u]
         /\ RowsFit'
<1>1. row[i] \in SUBSET Point /\ i \notin row[i]
  BY DEF TypeOK, NoSelfLoops
<1>2. T \subseteq row[i] \cup S /\ Cardinality(T) <= k
  BY <1>1, KeptFacts
<1> QED BY <1>1, <1>2 DEF TypeOK, NoSelfLoops, RowsFit

LEMMA InvStep ==
  ASSUME IInv, [Next]_vars
  PROVE  IInv'
<1> USE NnDescentAssumption
<1>0. TypeOK /\ NoSelfLoops /\ FwdOK /\ RowsFit /\ PassLeft
  BY DEF IInv, NoSelfLoops
<1>1. ASSUME NEW u \in Point, TakeSnapshot(u) PROVE IInv'
  BY <1>0, <1>1 DEF TakeSnapshot, IInv, TypeOK, NoSelfLoops, FwdOK, RowsFit, PassLeft
<1>2. ASSUME NEW u \in Point, Collect(u) PROVE IInv'
  BY <1>0, <1>2, CandFacts DEF Collect, IInv, TypeOK, NoSelfLoops, FwdOK, RowsFit, PassLeft
<1>3. ASSUME NEW u \in Point, MergeForward(u) PROVE IInv'
  <2>1. PICK T \in KeptAfter(u, row[u], fwd[u]) : row' = [row EXCEPT ![u] = T]
    BY <1>3 DEF MergeForward
  <2>2. fwd[u] \in SUBSET Point /\ u \notin fwd[u]
    BY <1>0 DEF TypeOK, FwdOK
  <2>3. /\ row' \in [Point -> SUBSET Point]
        /\ \A v \in Point : v \notin row'[v]
        /\ RowsFit'
    BY <1>0, <2>1, <2>2, MergeKeeps
  <2> QED BY <1>0, <1>3, <2>3 DEF MergeForward, IInv, TypeOK, NoSelfLoops, FwdOK, PassLeft
<1>4. ASSUME NEW u \in Point, MergeReverse(u) PROVE IInv'
  <2>1. PICK w \in fwd[u] :
          /\ \E T \in KeptAfter(w, row[w], {u}) : row' = [row EXCEPT ![w] = T]
          /\ fwd' = [fwd EXCEPT ![u] = @ \ {w}]
          /\ pc' = [pc EXCEPT ![u] = IF fwd[u] = {w} THEN "done" ELSE "reverse"]
    BY <1>4 DEF MergeReverse
  <2>2. PICK T \in KeptAfter(w, row[w], {u}) : row' = [row EXCEPT ![w] = T]
    BY <2>1
  <2>3. w \in Point /\ w \notin {u} /\ {u} \in SUBSET Point
    BY <1>0, <2>1 DEF TypeOK, FwdOK
  <2>4. /\ row' \in [Point -> SUBSET Point]
        /\ \A v \in Point : v \notin row'[v]
        /\ RowsFit'
    BY <1>0, <2>2, <2>3, MergeKeeps
  <2>5. fwd' \in [Point -> SUBSET Point] /\ FwdOK'
    BY <1>0, <2>1 DEF TypeOK, FwdOK
  <2>6. pc' \in [Point -> {"start", "forward", "reverse", "done"}]
    BY <1>0, <2>1 DEF TypeOK
  <2> QED BY <1>0, <1>4, <2>4, <2>5, <2>6 DEF MergeReverse, IInv, TypeOK, NoSelfLoops, PassLeft
<1>5. CASE JoinSnapshot
  BY <1>0, <1>5 DEF JoinSnapshot, IInv, TypeOK, NoSelfLoops, FwdOK, RowsFit, PassLeft
<1>6. CASE JoinSweep
  BY <1>0, <1>6 DEF JoinSweep, IInv, TypeOK, NoSelfLoops, FwdOK, RowsFit, PassLeft
<1>7. CASE UNCHANGED vars
  BY <1>0, <1>7 DEF vars, IInv, TypeOK, NoSelfLoops, FwdOK, RowsFit, PassLeft
<1> QED BY <1>1, <1>2, <1>3, <1>4, <1>5, <1>6, <1>7 DEF Next, Body, Finished

LEMMA InvInit == Init => IInv
<1> SUFFICES ASSUME Init PROVE IInv
  OBVIOUS
<1>1. TypeOK
  BY NnDescentAssumption DEF Init, TypeOK
<1>2. \A u \in Point : u \notin row[u] /\ Cardinality(row[u]) <= k
  BY NnDescentAssumption DEF Init
<1>3. PassLeft
  BY NnDescentAssumption DEF Init, PassLeft
<1> QED BY <1>1, <1>2, <1>3 DEF Init, IInv, NoSelfLoops, FwdOK, RowsFit

(***************************************************************************)
(* No loop body of any pass puts a point into its own row, although the    *)
(* rows it walks nearly all hold that point (insert_new of u itself).      *)
(***************************************************************************)
THEOREM NoPointIsItsOwnNeighbour == Spec => []NoSelfLoops
<1>1. IInv => NoSelfLoops
  BY DEF IInv
<1> QED BY <1>1, InvInit, InvStep, PTL DEF Spec

LEMMA ImproveStep ==
  ASSUME IInv, [Next]_vars, NEW i \in Point, NEW d \in Int
  PROVE  CountWithin(i, row'[i], d) >= CountWithin(i, row[i], d)
<1>0. row[i] \in SUBSET Point /\ Cardinality(row[i]) <= k
  BY DEF IInv, NoSelfLoops, TypeOK, RowsFit
<1>1. CASE row'[i] = row[i]
  BY <1>0, <1>1, MoreNearby
<1>2. CASE \E S \in SUBSET Point : row'[i] \in KeptAfter(i, row[i], S)
  BY <1>0, <1>2, KeptImproves
<1>3. ASSUME NEW u \in Point, MergeForward(u)
      PROVE  row'[i] = row[i] \/ \E S \in SUBSET Point : row'[i] \in KeptAfter(i, row[i], S)
  <2>1. fwd[u] \in SUBSET Point
    BY DEF IInv, NoSelfLoops, TypeOK
  <2> QED BY <1>3, <2>1 DEF MergeForward, IInv, NoSelfLoops, TypeOK
<1>4. ASSUME NEW u \in Point, MergeReverse(u)
      PROVE  row'[i] = row[i] \/ \E S \in SUBSET Point : row'[i] \in KeptAfter(i, row[i], S)
  <2>1. PICK w \in fwd[u] : \E T \in KeptAfter(w, row[w], {u}) : row' = [row EXCEPT ![w] = T]
    BY <1>4 DEF MergeReverse
  <2>2. {u} \in SUBSET Point
    OBVIOUS
  <2> QED BY <2>1, <2>2 DEF IInv, NoSelfLoops, TypeOK
<1>5. CASE row' = row
  BY <1>1, <1>5
<1> QED BY <1>1, <1>2, <1>3, <1>4, <1>5
        DEF Next, Body, TakeSnapshot, JoinSnapshot, Collect, JoinSweep, Finished, vars

(***************************************************************************)
(* The candidates of a pass come from a copy that is out of date; merging  *)
(* them never makes a row worse than it is by then.                        *)
(***************************************************************************)
THEOREM PassesOnlyImproveRows == Spec => RowsOnlyImprove
<1>1. IInv /\ [Next]_vars =>
        [\A i \in Point : row'[i] # row[i] =>
            \A d \in {Dist[i][j] : j \in Point} :
               CountWithin(i, row'[i], d) >= CountWithin(i, row[i], d)]_vars
  <2> SUFFICES ASSUME IInv, [Next]_vars, NEW i \in Point,
                      NEW d \in {Dist[i][j] : j \in Point}
               PROVE  CountWithin(i, row'[i], d) >= CountWithin(i, row[i], d)
    OBVIOUS
  <2>1. d \in Int
    BY NnDescentAssumption
  <2> QED BY <2>1, ImproveStep
<1> QED BY <1>1, InvInit, InvStep, PTL DEF Spec, RowsOnlyImprove
-----------------------------------------------------------------------------
(* What a row owes to all it was offered, not only to the last merge.      *)

\* A row that holds the nearest of A, merged with S, holds the nearest of both:
\* what the row had already refused is no nearer than a full row.
LEMMA NearestSoFar ==
  ASSUME NEW i \in Point, NEW A \in SUBSET Point, NEW S \in SUBSET Point, NEW R,
         IsNearest(i, R, A), NEW T \in KeptAfter(i, R, S)
  PROVE  IsNearest(i, T, A \cup S)
<1>1. /\ R \subseteq A /\ Cardinality(R) <= k
      /\ R # A => Cardinality(R) = k
      /\ \A x \in A \ R, y \in R : Dist[i][y] <= Dist[i][x]
  BY DEF IsNearest
<1>2. R \in SUBSET Point
  BY <1>1
<1>3. /\ T \subseteq R \cup S /\ Cardinality(T) <= k
      /\ T # R \cup S => Cardinality(T) = k
      /\ \A x \in (R \cup S) \ T, y \in T : Dist[i][y] <= Dist[i][x]
  BY <1>2, KeptFacts
<1>4. T \in SUBSET Point /\ T \subseteq A \cup S
  BY <1>1, <1>2, <1>3
<1>5. /\ IsFiniteSet(T) /\ Cardinality(T) \in Nat
      /\ IsFiniteSet(R) /\ Cardinality(R) \in Nat /\ k \in Nat
  BY <1>2, <1>4, SubsetFacts, NnDescentAssumption
<1>6. ASSUME R \subseteq T, Cardinality(R) = k PROVE T = R
  <2>1. Cardinality(R) <= Cardinality(T)
    BY <1>5, <1>6, FS_Subset
  <2>2. Cardinality(R) = Cardinality(T)
    BY <1>3, <1>5, <1>6, <2>1
  <2> QED BY <1>5, <1>6, <2>2, FS_Subset
<1>7. T # A \cup S => Cardinality(T) = k
  BY <1>1, <1>3, <1>6
<1>8. ASSUME NEW x \in (A \cup S) \ T, NEW y \in T PROVE Dist[i][y] <= Dist[i][x]
  <2>1. CASE x \in R \cup S
    BY <1>3, <1>8, <2>1
  <2>2. CASE x \notin R \cup S
    <3>1. x \in A \ R /\ Cardinality(R) = k
      BY <1>1, <1>8, <2>2
    <3>2. CASE y \in R
      BY <1>1, <3>1, <3>2
    <3>3. CASE y \notin R
      <4>1. PICK r \in R : r \notin T
        BY <1>6, <1>8, <3>1, <3>3
      <4>2. Dist[i][y] <= Dist[i][r] /\ Dist[i][r] <= Dist[i][x]
        BY <1>1, <1>3, <3>1, <4>1
      <4>3. Dist[i][x] \in Int /\ Dist[i][y] \in Int /\ Dist[i][r] \in Int
        BY <1>2, <1>4, <1>8, <4>1, NnDescentAssumption
      <4> QED BY <4>2, <4>3
    <3> QED BY <3>2, <3>3
  <2> QED BY <2>1, <2>2
<1> QED BY <1>3, <1>4, <1>7, <1>8 DEF IsNearest

\* How many of the nearest lie within d is decided, whatever the ties.
LEMMA NearestCount ==
  ASSUME NEW i \in Point, NEW A \in SUBSET Point, NEW R, IsNearest(i, R, A), NEW d \in Int
  PROVE  CountWithin(i, R, d) = IF CountWithin(i, A, d) < k THEN CountWithin(i, A, d) ELSE k
<1>1. /\ R \subseteq A /\ Cardinality(R) <= k
      /\ R # A => Cardinality(R) = k
      /\ \A x \in A \ R, y \in R : Dist[i][y] <= Dist[i][x]
  BY DEF IsNearest
<1>2. PICK a : a = {x \in A : Dist[i][x] <= d}
  OBVIOUS
<1>3. PICK r : r = {x \in R : Dist[i][x] <= d}
  OBVIOUS
<1>4. r \in SUBSET a /\ r \in SUBSET R /\ a \in SUBSET Point /\ R \in SUBSET Point
  BY <1>1, <1>2, <1>3
<1>5. /\ IsFiniteSet(a) /\ IsFiniteSet(R)
      /\ Cardinality(a) \in Nat /\ Cardinality(r) \in Nat /\ Cardinality(R) \in Nat /\ k \in Nat
  BY <1>4, SubsetFacts, NnDescentAssumption
<1>6. Cardinality(r) <= Cardinality(a) /\ Cardinality(r) <= Cardinality(R)
  BY <1>4, <1>5, FS_Subset
<1>7. CountWithin(i, A, d) = Cardinality(a) /\ CountWithin(i, R, d) = Cardinality(r)
  BY <1>2, <1>3 DEF CountWithin
<1>8. CASE a \subseteq R
  <2>1. a = r
    BY <1>2, <1>3, <1>4, <1>8
  <2> QED BY <1>1, <1>5, <1>6, <1>7, <2>1
<1>9. CASE ~ (a \subseteq R)
  <2>1. PICK x \in a : x \notin R
    BY <1>9
  <2>2. x \in A \ R /\ x \in Point /\ Dist[i][x] <= d
    BY <1>2, <1>4, <2>1
  <2>3. \A y \in R : Dist[i][y] <= d
    <3> SUFFICES ASSUME NEW y \in R PROVE Dist[i][y] <= d
      OBVIOUS
    <3>1. Dist[i][y] <= Dist[i][x] /\ y \in Point
      BY <1>1, <1>4, <2>2
    <3>2. Dist[i][y] \in Int /\ Dist[i][x] \in Int
      BY <2>2, <3>1, NnDescentAssumption
    <3> QED BY <2>2, <3>1, <3>2
  <2>4. r = R /\ Cardinality(R) = k
    BY <1>1, <1>3, <2>2, <2>3
  <2> QED BY <1>5, <1>6, <1>7, <2>4
<1> QED BY <1>8, <1>9

-----------------------------------------------------------------------------
(***************************************************************************)
(* The strengthening: while a pass sweeps, every row holds the nearest of  *)
(* its copy and of what the bodies have offered it so far, in whatever     *)
(* order they did; a body that is done has offered all it scored.          *)
(***************************************************************************)
Gave(u) == IF pc[u] = "start" THEN {} ELSE Scored(u) \ fwd[u]
Took(u) == IF pc[u] \in {"reverse", "done"} THEN Scored(u) ELSE {}
Offered(i) == snap[i] \cup Took(i) \cup {u \in Point : i \in Gave(u)}

CopyMatches ==
  /\ phase = "snapshot" => \A u \in Point : pc[u] \in {"start", "done"}
  /\ phase = "snapshot" => \A u \in Point : pc[u] = "done" => snap[u] = row[u]

BodiesAgree ==
  phase = "sweep" =>
    \A u \in Point : /\ pc[u] = "forward" => fwd[u] = Scored(u)
                     /\ pc[u] = "reverse" => fwd[u] \subseteq Scored(u)
                     /\ pc[u] = "done" => fwd[u] = {}

RowsHoldOffered ==
  phase = "sweep" => \A i \in Point : IsNearest(i, row[i], Offered(i))

PInv == IInv /\ CopyMatches /\ BodiesAgree /\ RowsHoldOffered

\* What a body scores depends on the copy alone.
LEMMA ScoredFixed ==
  ASSUME snap' = snap, setting' = setting, NEW u
  PROVE  Scored(u)' = Scored(u)
<1>1. Expanded(u)' = Expanded(u)
  BY DEF Expanded
<1>2. Walked(u)' = Walked(u)
  BY <1>1 DEF Walked
<1>3. Cand(u)' = Cand(u)
  BY <1>2 DEF Cand
<1> QED BY <1>3 DEF Scored

LEMMA OfferedFacts ==
  ASSUME TypeOK, NEW i \in Point
  PROVE  Offered(i) \in SUBSET Point
<1>1. Scored(i) \in SUBSET Point
  BY CandFacts
<1> QED BY <1>1 DEF Offered, Took, TypeOK

\* Nobody has merged anything into row i, and nobody owes it more or less.
LEMMA RowUntouched ==
  ASSUME NEW i \in Point, phase = "sweep", RowsHoldOffered, row'[i] = row[i],
         Offered(i)' = Offered(i)
  PROVE  IsNearest(i, row'[i], Offered(i)')
BY DEF RowsHoldOffered

LEMMA CollectOffers ==
  ASSUME IInv, NEW u \in Point, Collect(u)
  PROVE  /\ \A v \in Point : Scored(v)' = Scored(v)
         /\ \A i \in Point : Offered(i)' = Offered(i)
<1>0. TypeOK
  BY DEF IInv, NoSelfLoops
<1>1. \A v \in Point : Scored(v)' = Scored(v)
  BY ScoredFixed DEF Collect
<1>2. \A S, m, distance : FirstOf(S, m, distance) \subseteq S
  BY DEF FirstOf
<1>3. Cand(u) = {} => Scored(u) = {}
  BY <1>2 DEF Scored
<1>4. /\ pc[u] = "start" /\ fwd'[u] = Scored(u) /\ snap' = snap
      /\ pc'[u] = IF Cand(u) = {} THEN "done" ELSE "forward"
      /\ \A v \in Point : v # u => pc'[v] = pc[v] /\ fwd'[v] = fwd[v]
  BY <1>0 DEF Collect, TypeOK
<1>5. Gave(u) = {} /\ Took(u) = {} /\ Gave(u)' = {}
  BY <1>1, <1>4 DEF Gave, Took
<1>6. Took(u)' = {}
  BY <1>1, <1>3, <1>4 DEF Took
<1>7. \A v \in Point : Gave(v)' = Gave(v) /\ Took(v)' = Took(v)
  <2> SUFFICES ASSUME NEW v \in Point PROVE Gave(v)' = Gave(v) /\ Took(v)' = Took(v)
    OBVIOUS
  <2>1. CASE v = u
    BY <1>5, <1>6, <2>1
  <2>2. CASE v # u
    BY <1>1, <1>4, <2>2 DEF Gave, Took
  <2> QED BY <2>1, <2>2
<1> QED BY <1>1, <1>4, <1>7 DEF Offered

LEMMA ForwardOffers ==
  ASSUME IInv, BodiesAgree, phase = "sweep", NEW u \in Point, MergeForward(u)
  PROVE  /\ \A v \in Point : Scored(v)' = Scored(v)
         /\ fwd[u] = Scored(u)
         /\ Offered(u)' = Offered(u) \cup fwd[u]
         /\ \A i \in Point : i # u => Offered(i)' = Offered(i)
<1>0. TypeOK
  BY DEF IInv, NoSelfLoops
<1>1. \A v \in Point : Scored(v)' = Scored(v)
  BY ScoredFixed DEF MergeForward
<1>2. /\ pc[u] = "forward" /\ pc'[u] = "reverse" /\ fwd' = fwd /\ snap' = snap
      /\ \A v \in Point : v # u => pc'[v] = pc[v]
  BY <1>0 DEF MergeForward, TypeOK
<1>3. fwd[u] = Scored(u)
  BY <1>2 DEF BodiesAgree
<1>4. \A v \in Point : Gave(v)' = Gave(v)
  BY <1>1, <1>2 DEF Gave
<1>5. Took(u) = {} /\ Took(u)' = fwd[u]
  BY <1>1, <1>2, <1>3 DEF Took
<1>6. \A v \in Point : v # u => Took(v)' = Took(v)
  BY <1>1, <1>2 DEF Took
<1> QED BY <1>1, <1>2, <1>3, <1>4, <1>5, <1>6 DEF Offered

LEMMA ReverseOffers ==
  ASSUME IInv, BodiesAgree, phase = "sweep", NEW u \in Point, MergeReverse(u)
  PROVE  /\ \A v \in Point : Scored(v)' = Scored(v)
         /\ fwd'[u] \subseteq Scored(u)
         /\ pc'[u] \in {"reverse", "done"}
         /\ pc'[u] = "done" => fwd'[u] = {}
         /\ \E w \in Point : /\ \E T \in KeptAfter(w, row[w], {u}) : row' = [row EXCEPT ![w] = T]
                             /\ Offered(w)' = Offered(w) \cup {u}
                             /\ \A i \in Point : i # w => Offered(i)' = Offered(i)
<1>0. TypeOK
  BY DEF IInv, NoSelfLoops
<1>1. \A v \in Point : Scored(v)' = Scored(v)
  BY ScoredFixed DEF MergeReverse
<1>2. PICK w \in fwd[u] :
        /\ \E T \in KeptAfter(w, row[w], {u}) : row' = [row EXCEPT ![w] = T]
        /\ fwd' = [fwd EXCEPT ![u] = fwd[u] \ {w}]
        /\ pc' = [pc EXCEPT ![u] = IF fwd[u] = {w} THEN "done" ELSE "reverse"]
  BY DEF MergeReverse
<1>3. pc[u] = "reverse" /\ snap' = snap /\ w \in Point
  BY <1>0, <1>2 DEF MergeReverse, TypeOK
<1>4. fwd[u] \subseteq Scored(u) /\ w \in Scored(u)
  BY <1>2, <1>3 DEF BodiesAgree
<1>5. /\ fwd'[u] = fwd[u] \ {w} /\ pc'[u] = IF fwd[u] = {w} THEN "done" ELSE "reverse"
      /\ \A v \in Point : v # u => pc'[v] = pc[v] /\ fwd'[v] = fwd[v]
  BY <1>0, <1>2 DEF TypeOK
<1>6. Gave(u)' = Gave(u) \cup {w}
  BY <1>1, <1>3, <1>4, <1>5 DEF Gave
<1>7. \A v \in Point : v # u => Gave(v)' = Gave(v)
  BY <1>1, <1>5 DEF Gave
<1>8. \A v \in Point : Took(v)' = Took(v)
  <2> SUFFICES ASSUME NEW v \in Point PROVE Took(v)' = Took(v)
    OBVIOUS
  <2>1. CASE v = u
    BY <1>1, <1>3, <1>5, <2>1 DEF Took
  <2>2. CASE v # u
    BY <1>1, <1>5, <2>2 DEF Took
  <2> QED BY <2>1, <2>2
<1>9. {v \in Point : w \in Gave(v)'} = {v \in Point : w \in Gave(v)} \cup {u}
  BY <1>6, <1>7
<1>10. \A i \in Point : i # w => {v \in Point : i \in Gave(v)'} = {v \in Point : i \in Gave(v)}
  BY <1>6, <1>7
<1>11. Offered(w)' = Offered(w) \cup {u} /\ \A i \in Point : i # w => Offered(i)' = Offered(i)
  BY <1>3, <1>8, <1>9, <1>10 DEF Offered
<1> QED BY <1>1, <1>2, <1>3, <1>4, <1>5, <1>11

\* One more merge of S into row w.
LEMMA OneMerge ==
  ASSUME IInv, RowsHoldOffered, phase = "sweep",
         NEW w \in Point, NEW S \in SUBSET Point, NEW T \in KeptAfter(w, row[w], S),
         row' = [row EXCEPT ![w] = T], Offered(w)' = Offered(w) \cup S,
         \A i \in Point : i # w => Offered(i)' = Offered(i)
  PROVE  \A i \in Point : IsNearest(i, row'[i], Offered(i)')
<1>0. TypeOK
  BY DEF IInv, NoSelfLoops
<1>1. Offered(w) \in SUBSET Point /\ IsNearest(w, row[w], Offered(w))
  BY <1>0, OfferedFacts DEF RowsHoldOffered
<1>2. IsNearest(w, T, Offered(w) \cup S)
  BY <1>1, NearestSoFar
<1>3. row'[w] = T /\ \A i \in Point : i # w => row'[i] = row[i]
  BY <1>0 DEF TypeOK
<1> QED BY <1>2, <1>3 DEF RowsHoldOffered

LEMMA PassStep ==
  ASSUME PInv, [Next]_vars
  PROVE  PInv'
<1>0. /\ IInv /\ TypeOK /\ RowsFit /\ CopyMatches /\ BodiesAgree /\ RowsHoldOffered
      /\ IInv' /\ TypeOK'
  BY InvStep DEF PInv, IInv, NoSelfLoops
<1>1. ASSUME NEW u \in Point, TakeSnapshot(u) PROVE PInv'
  <2>1. CopyMatches'
    <3>1. phase = "snapshot" /\ row' = row
      BY <1>1 DEF TakeSnapshot
    <3>2. snap'[u] = row[u] /\ pc'[u] = "done"
      BY <1>0, <1>1 DEF TakeSnapshot, TypeOK
    <3>3. \A v \in Point : v # u => snap'[v] = snap[v] /\ pc'[v] = pc[v]
      BY <1>0, <1>1 DEF TakeSnapshot, TypeOK
    <3> QED BY <1>0, <3>1, <3>2, <3>3 DEF CopyMatches
  <2> QED BY <1>0, <1>1, <2>1 DEF TakeSnapshot, PInv, BodiesAgree, RowsHoldOffered
<1>2. ASSUME NEW u \in Point, Collect(u) PROVE PInv'
  <2>1. /\ \A v \in Point : Scored(v)' = Scored(v)
        /\ \A i \in Point : Offered(i)' = Offered(i)
    BY <1>0, <1>2, CollectOffers
  <2>2. phase = "sweep" /\ phase' = "sweep" /\ row' = row
    BY <1>2 DEF Collect
  <2>3. RowsHoldOffered'
    BY <1>0, <2>1, <2>2 DEF RowsHoldOffered
  <2>4. BodiesAgree'
    <3>1. \A S, m, distance : FirstOf(S, m, distance) \subseteq S
      BY DEF FirstOf
    <3>2. Cand(u) = {} => Scored(u) = {}
      BY <3>1 DEF Scored
    <3>3. /\ fwd'[u] = Scored(u)
          /\ pc'[u] = IF Cand(u) = {} THEN "done" ELSE "forward"
          /\ \A v \in Point : v # u => pc'[v] = pc[v] /\ fwd'[v] = fwd[v]
      BY <1>0, <1>2 DEF Collect, TypeOK
    <3> QED BY <1>0, <2>1, <2>2, <3>2, <3>3 DEF BodiesAgree
  <2> QED BY <1>0, <2>2, <2>3, <2>4 DEF PInv, CopyMatches
<1>3. ASSUME NEW u \in Point, MergeForward(u) PROVE PInv'
  <2>1. phase' = phase /\ fwd' = fwd /\ snap' = snap /\ pc[u] = "forward" /\ pc'[u] = "reverse"
    BY <1>0, <1>3 DEF MergeForward, TypeOK
  <2>2. phase # "snapshot" /\ phase # "final" => phase = "sweep"
    BY <1>0 DEF TypeOK
  <2>3. CopyMatches'
    BY <1>0, <2>1 DEF CopyMatches
  <2>4. CASE phase = "sweep"
    <3>1. /\ \A v \in Point : Scored(v)' = Scored(v)
          /\ fwd[u] = Scored(u)
          /\ Offered(u)' = Offered(u) \cup fwd[u]
          /\ \A i \in Point : i # u => Offered(i)' = Offered(i)
      BY <1>0, <1>3, <2>4, ForwardOffers
    <3>2. PICK T \in KeptAfter(u, row[u], fwd[u]) : row' = [row EXCEPT ![u] = T]
      BY <1>3 DEF MergeForward
    <3>3. fwd[u] \in SUBSET Point
      BY <1>0 DEF TypeOK
    <3>4. \A i \in Point : IsNearest(i, row'[i], Offered(i)')
      BY <1>0, <2>4, <3>1, <3>2, <3>3, OneMerge
    <3>5. RowsHoldOffered'
      BY <3>4 DEF RowsHoldOffered
    <3>6. \A v \in Point : v # u => pc'[v] = pc[v]
      BY <1>0, <1>3 DEF MergeForward, TypeOK
    <3>7. BodiesAgree'
      BY <1>0, <2>1, <2>4, <3>1, <3>6 DEF BodiesAgree
    <3> QED BY <1>0, <2>3, <3>5, <3>7 DEF PInv
  <2>5. CASE phase # "sweep"
    BY <1>0, <2>1, <2>3, <2>5 DEF PInv, BodiesAgree, RowsHoldOffered
  <2> QED BY <2>4, <2>5
<1>4. ASSUME NEW u \in Point, MergeReverse(u) PROVE PInv'
  <2>1. phase' = phase /\ snap' = snap /\ pc[u] = "reverse"
    BY <1>4 DEF MergeReverse
  <2>2. CopyMatches'
    BY <1>0, <2>1 DEF CopyMatches
  <2>3. CASE phase = "sweep"
    <3>1. /\ \A v \in Point : Scored(v)' = Scored(v)
          /\ fwd'[u] \subseteq Scored(u)
          /\ pc'[u] \in {"reverse", "done"}
          /\ pc'[u] = "done" => fwd'[u] = {}
      BY <1>0, <1>4, <2>3, ReverseOffers
    <3>2. PICK w \in Point :
                 /\ \E T \in KeptAfter(w, row[w], {u}) : row' = [row EXCEPT ![w] = T]
                 /\ Offered(w)' = Offered(w) \cup {u}
                 /\ \A i \in Point : i # w => Offered(i)' = Offered(i)
      BY <1>0, <1>4, <2>3, ReverseOffers
    <3>3. PICK T \in KeptAfter(w, row[w], {u}) : row' = [row EXCEPT ![w] = T]
      BY <3>2
    <3>4. \A i \in Point : IsNearest(i, row'[i], Offered(i)')
      BY <1>0, <2>3, <3>2, <3>3, OneMerge
    <3>5. RowsHoldOffered'
      BY <3>4 DEF RowsHoldOffered
    <3>6. \A v \in Point : v # u => pc'[v] = pc[v] /\ fwd'[v] = fwd[v]
      BY <1>0, <1>4 DEF MergeReverse, TypeOK
    <3>7. BodiesAgree'
      BY <1>0, <2>1, <2>3, <3>1, <3>6 DEF BodiesAgree
    <3> QED BY <1>0, <2>2, <3>5, <3>7 DEF PInv
  <2>4. CASE phase # "sweep"
    BY <1>0, <2>1, <2>2, <2>4 DEF PInv, BodiesAgree, RowsHoldOffered
  <2> QED BY <2>3, <2>4
<1>5. CASE JoinSnapshot
  <2>1. \A i \in Point : snap'[i] = row'[i] /\ pc'[i] = "start"
    BY <1>0, <1>5 DEF JoinSnapshot, CopyMatches
  <2>2. phase' = "sweep"
    BY <1>5 DEF JoinSnapshot
  <2>3. \A i \in Point : Offered(i)' = row'[i]
    BY <2>1 DEF Offered, Took, Gave
  <2>4. \A i \in Point : Cardinality(row'[i]) <= k
    BY <1>0, <1>5 DEF JoinSnapshot, RowsFit
  <2>5. RowsHoldOffered'
    BY <2>3, <2>4 DEF RowsHoldOffered, IsNearest
  <2> QED BY <1>0, <2>1, <2>2, <2>5 DEF PInv, CopyMatches, BodiesAgree
<1>6. CASE JoinSweep
  <2>1. phase' # "sweep" /\ \A u \in Point : pc'[u] = "start"
    BY <1>6 DEF JoinSweep
  <2> QED BY <1>0, <2>1 DEF PInv, CopyMatches, BodiesAgree, RowsHoldOffered
<1>7. CASE UNCHANGED vars
  <2>1. snap' = snap /\ setting' = setting /\ row' = row /\ pc' = pc /\ fwd' = fwd /\ phase' = phase
    BY <1>7 DEF vars
  <2>2. \A v \in Point : Scored(v)' = Scored(v)
    BY <2>1, ScoredFixed
  <2>3. \A i \in Point : Offered(i)' = Offered(i)
    BY <2>1, <2>2 DEF Offered, Took, Gave
  <2>4. RowsHoldOffered'
    BY <1>0, <2>1, <2>3 DEF RowsHoldOffered
  <2> QED BY <1>0, <2>1, <2>2, <2>4 DEF PInv, CopyMatches, BodiesAgree
<1> QED BY <1>1, <1>2, <1>3, <1>4, <1>5, <1>6, <1>7 DEF Next, Body, Finished

LEMMA PassEnds == PInv => PassIsDeterminate
<1> SUFFICES ASSUME PInv, phase = "sweep", \A u \in Point : pc[u] = "done",
                    NEW i \in Point, NEW d \in {Dist[i][j] : j \in Point}
             PROVE  CountWithin(i, row[i], d) =
                      IF CountWithin(i, snap[i] \cup Gained(i), d) < k
                      THEN CountWithin(i, snap[i] \cup Gained(i), d) ELSE k
  BY DEF PassIsDeterminate
<1>1. TypeOK /\ BodiesAgree /\ RowsHoldOffered
  BY DEF PInv, IInv, NoSelfLoops
<1>2. \A u \in Point : Gave(u) = Scored(u) /\ Took(u) = Scored(u)
  BY <1>1 DEF Gave, Took, BodiesAgree
<1>3. Offered(i) = snap[i] \cup Gained(i)
  BY <1>2 DEF Offered, Gained
<1>4. IsNearest(i, row[i], Offered(i)) /\ Offered(i) \in SUBSET Point
  BY <1>1, OfferedFacts DEF RowsHoldOffered
<1>5. d \in Int
  BY NnDescentAssumption
<1> QED BY <1>3, <1>4, <1>5, NearestCount

(***************************************************************************)
(* PassIsDeterminate: however the bodies of a pass interleave, and         *)
(* although each merges into rows that others are changing, a pass leaves  *)
(* every row with the distances of the nearest of what the copy promised.  *)
(***************************************************************************)
THEOREM PassesAreDeterminate == Spec => []PassIsDeterminate
<1>1. Init => PInv
  <2> SUFFICES ASSUME Init PROVE PInv
    OBVIOUS
  <2>1. phase # "sweep" /\ \A u \in Point : pc[u] = "start"
    BY DEF Init
  <2> QED BY <2>1, InvInit DEF PInv, CopyMatches, BodiesAgree, RowsHoldOffered
<1> QED BY <1>1, PassStep, PassEnds, PTL DEF Spec

=============================================================================
