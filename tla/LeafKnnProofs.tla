--------------------------- MODULE LeafKnnProofs ---------------------------
(***************************************************************************)
(* The callers of the leaf kernel, for any set of leaves, distances,       *)
(* workers, widths and batch sizes: what a worker's thread_local buffers   *)
(* hold is of the leaf it is at, every list it merges ascends, and the     *)
(* table ends up with the nearest of all edges of all leaves.              *)
(*                                                                         *)
(* First come the operators of the model: the list of a point exists and   *)
(* ascends, EdgesOf has there and back for each of its entries and nothing *)
(* else, the buffers hold all that was pushed, sorting a row permutes it,  *)
(* and merging what is left into a row that holds the nearest so far gives *)
(* the nearest of both.  Then what each step of a worker does with its own *)
(* state (...Works), and last the invariant of all of them (...Inv).       *)
(***************************************************************************)
EXTENDS LeafKnn, SequenceTheorems, FiniteSetTheorems, TLAPS

-----------------------------------------------------------------------------
(* Recursion over numbers: a set of them has a least one. *)

LEMMA Least1 ==
  ASSUME NEW T \in SUBSET Nat, T # {}
  PROVE  \E x \in T : \A y \in T : x <= y
<1>1. PICK F : F = {1..n : n \in T}
  OBVIOUS
<1>2. F \subseteq FiniteSubsetsOf(Nat) /\ F # {}
  <2>1. \A n \in T : IsFiniteSet(1..n) /\ 1..n \in SUBSET Nat
    <3> TAKE n \in T
    <3>1. IsFiniteSet(1..n)
      BY FS_Interval
    <3> QED BY <3>1
  <2> QED BY <1>1, <2>1 DEF FiniteSubsetsOf
<1>3. PICK A \in F : \A B \in F : ~ (<<B, A>> \in StrictSubsetOrdering(Nat))
  BY <1>2, FS_StrictSubsetOrderingWellFounded, WFMin
<1>4. PICK x \in T : A = 1..x
  BY <1>1, <1>3
<1>5. ASSUME NEW y \in T, y < x PROVE FALSE
  <2>1. 1..y \in F /\ 1..y \in SUBSET Nat /\ A \in SUBSET Nat
    BY <1>1, <1>4
  <2>2. 1..y \subseteq A
    BY <1>4, <1>5
  <2>3. x \in A /\ x \notin 1..y
    BY <1>4, <1>5
  <2> QED BY <1>3, <2>1, <2>2, <2>3 DEF StrictSubsetOrdering
<1> QED BY <1>5

\* Induction up to n, for what holds of the numbers in T.
LEMMA UpTo ==
  ASSUME NEW n \in Nat, NEW T, 0 \in T, \A i \in 1..n : i - 1 \in T => i \in T
  PROVE  \A i \in 0..n : i \in T
<1> SUFFICES ASSUME NEW m \in 0..n, m \notin T PROVE FALSE
  OBVIOUS
<1>1. PICK R : R = {i \in 0..n : i \notin T}
  OBVIOUS
<1>2. R \in SUBSET Nat /\ R # {}
  BY <1>1
<1>3. PICK x \in R : \A y \in R : x <= y
  BY <1>2, Least1
<1>4. x \in 1..n /\ x - 1 \in 0..n /\ ~ (x <= x - 1)
  BY <1>1, <1>3
<1>5. x - 1 \notin R
  BY <1>3, <1>4
<1> QED BY <1>1, <1>3, <1>4, <1>5

-----------------------------------------------------------------------------
(* What is ordered can be lined up. *)

\* L relates a to b when a goes in front of b.
LinearOn(L, S) ==
  /\ \A a \in S : <<a, a>> \notin L
  /\ \A a, b, c \in S : <<a, b>> \in L /\ <<b, c>> \in L => <<a, c>> \in L
  /\ \A a, b \in S : a # b => <<a, b>> \in L \/ <<b, a>> \in L

LEMMA LineUp ==
  ASSUME NEW S, IsFiniteSet(S), NEW L, LinearOn(L, S)
  PROVE  /\ Cardinality(S) \in Nat
         /\ \E f \in [1..Cardinality(S) -> S] :
              /\ \A s \in S : \E r \in 1..Cardinality(S) : f[r] = s
              /\ \A r, q \in 1..Cardinality(S) : r < q => <<f[r], f[q]>> \in L
<1>1. PICK n : n = Cardinality(S) /\ n \in Nat
  BY FS_CardinalityType
<1>2. PICK In : In = [s \in S |-> {o \in S : <<o, s>> \in L}]
  OBVIOUS
<1>3. \A s \in S : In[s] \in SUBSET S /\ s \in S \ In[s]
  BY <1>2 DEF LinearOn
<1>4. \A s \in S : IsFiniteSet(In[s]) /\ Cardinality(In[s]) \in Nat /\ Cardinality(In[s]) < n
  <2> TAKE s \in S
  <2>1. IsFiniteSet(In[s]) /\ Cardinality(In[s]) <= n /\ (n = Cardinality(In[s]) => S = In[s])
    BY <1>1, <1>3, FS_Subset
  <2>2. Cardinality(In[s]) \in Nat
    BY <2>1, FS_CardinalityType
  <2> QED BY <1>1, <1>3, <2>1, <2>2
<1>5. ASSUME NEW a \in S, NEW b \in S, <<a, b>> \in L
      PROVE  Cardinality(In[a]) < Cardinality(In[b])
  <2>1. In[a] \in SUBSET In[b] /\ a \in In[b] /\ a \notin In[a]
    BY <1>2, <1>3, <1>5 DEF LinearOn
  <2>2. Cardinality(In[a]) <= Cardinality(In[b]) /\ Cardinality(In[a]) # Cardinality(In[b])
    BY <1>4, <2>1, FS_Subset
  <2> QED BY <1>4, <2>2
<1>6. PICK g : g = [s \in S |-> Cardinality(In[s]) + 1]
  OBVIOUS
<1>7. g \in [S -> 1..n]
  BY <1>1, <1>4, <1>6
<1>8. \A a, b \in S : <<a, b>> \in L => g[a] < g[b]
  BY <1>4, <1>5, <1>6
<1>9. g \in Injection(S, 1..n)
  <2>1. \A a, b \in S : g[a] = g[b] => a = b
    <3> SUFFICES ASSUME NEW a \in S, NEW b \in S, g[a] = g[b], a # b PROVE FALSE
      OBVIOUS
    <3>1. <<a, b>> \in L \/ <<b, a>> \in L
      BY DEF LinearOn
    <3>2. g[a] < g[b] \/ g[b] < g[a]
      BY <1>8, <3>1
    <3> QED BY <1>7, <3>2
  <2> QED BY <1>7, <2>1 DEF Injection, IsInjective
<1>10. IsFiniteSet(1..n) /\ Cardinality(1..n) = n
  BY <1>1, FS_Interval
<1>11. g \in Surjection(S, 1..n)
  BY <1>1, <1>9, <1>10, FS_Injection
<1>12. PICK f : f = [r \in 1..n |-> CHOOSE s \in S : g[s] = r]
  OBVIOUS
<1>13. \A r \in 1..n : f[r] \in S /\ g[f[r]] = r
  BY <1>11, <1>12 DEF Surjection
<1>14. f \in [1..n -> S]
  BY <1>12, <1>13
<1>15. \A s \in S : \E r \in 1..n : f[r] = s
  <2> TAKE s \in S
  <2>1. g[s] \in 1..n
    BY <1>7
  <2>2. f[g[s]] \in S /\ g[f[g[s]]] = g[s]
    BY <1>13, <2>1
  <2>3. f[g[s]] = s
    BY <1>9, <2>2 DEF Injection, IsInjective
  <2> QED BY <2>1, <2>3
<1>16. ASSUME NEW r \in 1..n, NEW q \in 1..n, r < q PROVE <<f[r], f[q]>> \in L
  <2>1. f[r] \in S /\ f[q] \in S /\ g[f[r]] = r /\ g[f[q]] = q
    BY <1>13
  <2>2. CASE f[r] = f[q]
    BY <1>16, <2>1, <2>2
  <2>3. CASE f[r] # f[q] /\ <<f[q], f[r]>> \in L
    <3>1. q < r
      BY <1>8, <2>1, <2>3
    <3> QED BY <1>16, <3>1
  <2> QED BY <2>1, <2>2, <2>3 DEF LinearOn
<1> QED BY <1>1, <1>14, <1>15, <1>16
-----------------------------------------------------------------------------
(* The list of a row. *)

\* What TopOf chooses from.
IsTop(top, leaf, i, metric) ==
  /\ \A r, q \in DOMAIN top : r < q => top[r] = top[q] \/ Before(leaf, i, metric, top[r], top[q])
  /\ \A j \in (1..Len(leaf)) \ {i} :
       \/ Cardinality({r \in DOMAIN top : top[r] = j}) = Times(leaf, i, j)
       \/ /\ Cardinality({r \in DOMAIN top : top[r] = j}) < Times(leaf, i, j)
          /\ \A r \in DOMAIN top : top[r] = j \/ Before(leaf, i, metric, top[r], j)

LEMMA TopIs ==
  ASSUME NEW leaf, NEW i, NEW metric
  PROVE  TopOf(leaf, i, metric) =
           CHOOSE top \in [1..ListLen(leaf, i) -> (1..Len(leaf)) \ {i}] : IsTop(top, leaf, i, metric)
BY DEF TopOf, IsTop

LEMMA LeafIs ==
  ASSUME NEW X, NEW s \in Seq(X)
  PROVE  /\ Len(s) \in Nat /\ DOMAIN s = 1..Len(s)
         /\ \A j \in 1..Len(s) : s[j] \in X
BY LenProperties, ElementOfSeq

LEMMA RowOfLength ==
  ASSUME NEW X, NEW n \in Nat, NEW s \in [1..n -> X]
  PROVE  s \in Seq(X) /\ Len(s) = n
<1>1. s \in Seq(X)
  BY SeqDef
<1> QED BY <1>1, LenProperties

LEMMA TimesRange ==
  ASSUME NEW leaf, NEW i, NEW j
  PROVE  Times(leaf, i, j) \in {0, 1, 2}
BY DEF Times, TimesScored

LEMMA ScoredFinite ==
  ASSUME NEW leaf, Len(leaf) \in Nat, NEW i
  PROVE  IsFiniteSet(Scored(leaf, i))
<1>1. IsFiniteSet(1..Len(leaf))
  BY FS_Interval
<1>2. (1..Len(leaf)) \ {i} \in SUBSET (1..Len(leaf))
  OBVIOUS
<1>3. IsFiniteSet((1..Len(leaf)) \ {i})
  BY <1>1, <1>2, FS_Subset
<1>4. IsFiniteSet({1, 2})
  <2>1. 1 \in Int /\ 2 \in Int /\ 1..2 = {1, 2}
    OBVIOUS
  <2>2. IsFiniteSet(1..2)
    BY <2>1, FS_Interval
  <2> QED BY <2>1, <2>2
<1>5. IsFiniteSet(((1..Len(leaf)) \ {i}) \X {1, 2})
  BY <1>3, <1>4, FS_Product
<1>6. Scored(leaf, i) \in SUBSET (((1..Len(leaf)) \ {i}) \X {1, 2})
  BY DEF Scored
<1> QED BY <1>5, <1>6, FS_Subset

\* The order of the scores of a row.
Order(leaf, i, metric) ==
  {p \in Scored(leaf, i) \X Scored(leaf, i) :
     \/ p[1][1] = p[2][1] /\ p[1][2] < p[2][2]
     \/ p[1][1] # p[2][1] /\ Before(leaf, i, metric, p[1][1], p[2][1])}

LEMMA LexTotal ==
  ASSUME NEW D, NEW d \in [D -> Int], NEW a \in D, NEW b \in D, a \in Int, b \in Int,
         NEW x \in Int, NEW y \in Int, a # b \/ x # y
  PROVE  \/ d[a] < d[b] \/ (d[a] = d[b] /\ a < b) \/ (a = b /\ x < y)
         \/ d[b] < d[a] \/ (d[b] = d[a] /\ b < a) \/ (b = a /\ y < x)
<1>1. PICK da, db : da = d[a] /\ db = d[b]
  OBVIOUS
<1>2. da \in Int /\ db \in Int
  BY <1>1
<1>3. \/ da < db \/ (da = db /\ a < b) \/ (a = b /\ x < y)
      \/ db < da \/ (db = da /\ b < a) \/ (b = a /\ y < x)
  BY <1>2
<1> QED BY <1>1, <1>3

LEMMA OrderIsLinear ==
  ASSUME NEW leaf \in Seq(Point), NEW i \in 1..Len(leaf), NEW metric \in [Point -> [Point -> Int]]
  PROVE  LinearOn(Order(leaf, i, metric), Scored(leaf, i))
<1>1. PICK d : d = [j \in 1..Len(leaf) |-> metric[leaf[i]][leaf[j]]]
  OBVIOUS
<1>2. d \in [1..Len(leaf) -> Int]
  <2>1. \A j \in 1..Len(leaf) : leaf[j] \in Point
    BY LeafIs
  <2>2. metric[leaf[i]] \in [Point -> Int]
    BY <2>1
  <2> QED BY <1>1, <2>1, <2>2
<1>3. \A a, b \in 1..Len(leaf) : Before(leaf, i, metric, a, b) <=> d[a] < d[b] \/ (d[a] = d[b] /\ a < b)
  BY <1>1 DEF Before
<1>4. \A s \in Scored(leaf, i) :
         /\ s[1] \in 1..Len(leaf) /\ s[2] \in {1, 2} /\ s = <<s[1], s[2]>>
         /\ d[s[1]] \in Int /\ s[1] \in Int /\ s[2] \in Int
  BY <1>2 DEF Scored
<1>5. \A a, b \in Scored(leaf, i) :
        <<a, b>> \in Order(leaf, i, metric) <=>
          \/ d[a[1]] < d[b[1]]
          \/ d[a[1]] = d[b[1]] /\ a[1] < b[1]
          \/ a[1] = b[1] /\ a[2] < b[2]
  <2> TAKE a, b \in Scored(leaf, i)
  <2>1. <<a, b>> \in Order(leaf, i, metric) <=>
          \/ a[1] = b[1] /\ a[2] < b[2]
          \/ a[1] # b[1] /\ Before(leaf, i, metric, a[1], b[1])
    BY DEF Order
  <2>2. /\ a[1] \in 1..Len(leaf) /\ b[1] \in 1..Len(leaf) /\ d[a[1]] \in Int /\ d[b[1]] \in Int
        /\ a[1] \in Int /\ b[1] \in Int
    BY <1>4
  <2>3. Before(leaf, i, metric, a[1], b[1]) <=>
          d[a[1]] < d[b[1]] \/ (d[a[1]] = d[b[1]] /\ a[1] < b[1])
    BY <1>3, <2>2
  <2>4. a[2] \in Int /\ b[2] \in Int
    BY <1>4
  <2>5. PICK x, y : x = a[1] /\ y = b[1]
    OBVIOUS
  <2>6. x \in Int /\ y \in Int /\ d[x] \in Int /\ d[y] \in Int
    BY <2>2, <2>5
  <2>7. CASE x = y
    BY <2>1, <2>5, <2>6, <2>7
  <2>8. CASE x # y
    BY <2>1, <2>3, <2>5, <2>6, <2>8
  <2> QED BY <2>7, <2>8
<1>6. \A a \in Scored(leaf, i) : <<a, a>> \notin Order(leaf, i, metric)
  <2> TAKE a \in Scored(leaf, i)
  <2>1. d[a[1]] \in Int /\ a[1] \in Int /\ a[2] \in Int
    BY <1>4
  <2>2. \A x \in Int : ~ (x < x)
    OBVIOUS
  <2> QED BY <1>5, <2>1, <2>2
<1>7. ASSUME NEW a \in Scored(leaf, i), NEW b \in Scored(leaf, i), NEW c \in Scored(leaf, i),
             <<a, b>> \in Order(leaf, i, metric), <<b, c>> \in Order(leaf, i, metric)
      PROVE  <<a, c>> \in Order(leaf, i, metric)
  <2>1. /\ d[a[1]] \in Int /\ d[b[1]] \in Int /\ d[c[1]] \in Int
        /\ a[1] \in Int /\ b[1] \in Int /\ c[1] \in Int
        /\ a[2] \in Int /\ b[2] \in Int /\ c[2] \in Int
    BY <1>4
  <2>2. \/ d[a[1]] < d[b[1]]
        \/ d[a[1]] = d[b[1]] /\ a[1] < b[1]
        \/ a[1] = b[1] /\ a[2] < b[2]
    BY <1>5, <1>7
  <2>3. \/ d[b[1]] < d[c[1]]
        \/ d[b[1]] = d[c[1]] /\ b[1] < c[1]
        \/ b[1] = c[1] /\ b[2] < c[2]
    BY <1>5, <1>7
  <2>4. \/ d[a[1]] < d[c[1]]
        \/ d[a[1]] = d[c[1]] /\ a[1] < c[1]
        \/ a[1] = c[1] /\ a[2] < c[2]
    <3>1. PICK a1, b1, c1 : a1 = a[1] /\ b1 = b[1] /\ c1 = c[1]
      OBVIOUS
    <3>2. PICK a2, b2, c2 : a2 = a[2] /\ b2 = b[2] /\ c2 = c[2]
      OBVIOUS
    <3>3. a1 \in 1..Len(leaf) /\ b1 \in 1..Len(leaf) /\ c1 \in 1..Len(leaf)
      BY <1>4, <3>1
    <3>4. d[a1] < d[b1] \/ (d[a1] = d[b1] /\ a1 < b1) \/ (a1 = b1 /\ a2 < b2)
      BY <2>2, <3>1, <3>2
    <3>5. d[b1] < d[c1] \/ (d[b1] = d[c1] /\ b1 < c1) \/ (b1 = c1 /\ b2 < c2)
      BY <2>3, <3>1, <3>2
    <3>6. a1 \in Int /\ b1 \in Int /\ c1 \in Int /\ a2 \in Int /\ b2 \in Int /\ c2 \in Int
      BY <2>1, <3>1, <3>2
    <3>7. d[a1] < d[c1] \/ (d[a1] = d[c1] /\ a1 < c1) \/ (a1 = c1 /\ a2 < c2)
      <4>1. PICK da, db, dc : da = d[a1] /\ db = d[b1] /\ dc = d[c1]
        OBVIOUS
      <4>2. da \in Int /\ db \in Int /\ dc \in Int
        BY <1>2, <3>3, <4>1
      <4>3. (a1 = b1 => da = db) /\ (b1 = c1 => db = dc)
        BY <4>1
      <4>4. da < db \/ (da = db /\ a1 < b1) \/ (a1 = b1 /\ a2 < b2)
        BY <3>4, <4>1
      <4>5. db < dc \/ (db = dc /\ b1 < c1) \/ (b1 = c1 /\ b2 < c2)
        BY <3>5, <4>1
      <4>6. da < dc \/ (da = dc /\ a1 < c1) \/ (a1 = c1 /\ a2 < c2)
        BY <3>6, <4>2, <4>3, <4>4, <4>5
      <4> QED BY <4>1, <4>6
    <3> QED BY <3>1, <3>2, <3>7
  <2> QED BY <1>5, <2>4
<1>8. ASSUME NEW a \in Scored(leaf, i), NEW b \in Scored(leaf, i), a # b
      PROVE  <<a, b>> \in Order(leaf, i, metric) \/ <<b, a>> \in Order(leaf, i, metric)
  <2>1. /\ d[a[1]] \in Int /\ d[b[1]] \in Int
        /\ a[1] \in Int /\ b[1] \in Int /\ a[2] \in Int /\ b[2] \in Int
    BY <1>4
  <2>2. a[1] # b[1] \/ a[2] # b[2]
    BY <1>4, <1>8
  <2>3. \/ d[a[1]] < d[b[1]] \/ (d[a[1]] = d[b[1]] /\ a[1] < b[1]) \/ (a[1] = b[1] /\ a[2] < b[2])
        \/ d[b[1]] < d[a[1]] \/ (d[b[1]] = d[a[1]] /\ b[1] < a[1]) \/ (b[1] = a[1] /\ b[2] < a[2])
    <3>1. PICK a1, b1 : a1 = a[1] /\ b1 = b[1]
      OBVIOUS
    <3>2. PICK a2, b2 : a2 = a[2] /\ b2 = b[2]
      OBVIOUS
    <3>3. a1 \in 1..Len(leaf) /\ b1 \in 1..Len(leaf)
      BY <1>4, <3>1
    <3>4. a1 \in Int /\ b1 \in Int /\ a2 \in Int /\ b2 \in Int /\ (a1 # b1 \/ a2 # b2)
      BY <2>1, <2>2, <3>1, <3>2
    <3>5. \/ d[a1] < d[b1] \/ (d[a1] = d[b1] /\ a1 < b1) \/ (a1 = b1 /\ a2 < b2)
          \/ d[b1] < d[a1] \/ (d[b1] = d[a1] /\ b1 < a1) \/ (b1 = a1 /\ b2 < a2)
      BY <1>2, <3>3, <3>4, LexTotal
    <3> QED BY <3>1, <3>2, <3>5
  <2> QED BY <1>5, <2>3
<1> QED BY <1>6, <1>7, <1>8 DEF LinearOn

\* The scores of one point.
LEMMA ScoresOf ==
  ASSUME NEW leaf, NEW i, NEW j \in (1..Len(leaf)) \ {i},
         NEW C, \A s : s \in C <=> s \in Scored(leaf, i) /\ s[1] = j
  PROVE  IsFiniteSet(C) /\ Cardinality(C) = Times(leaf, i, j)
<1>1. PICK t : t = Times(leaf, i, j) /\ t \in {0, 1, 2}
  BY TimesRange
<1>2. C = {<<j, c>> : c \in 1..t}
  <2>1. \A s : s \in C <=> \E c \in {1, 2} : s = <<j, c>> /\ c <= t
    BY <1>1 DEF Scored
  <2>2. \A c : c \in 1..t <=> c \in {1, 2} /\ c <= t
    BY <1>1
  <2> QED BY <2>1, <2>2
<1>3. PICK f : f = [c \in 1..t |-> <<j, c>>]
  OBVIOUS
<1>4. f \in Bijection(1..t, C)
  <2>1. f \in [1..t -> C]
    BY <1>2, <1>3
  <2>2. \A a, b \in 1..t : f[a] = f[b] => a = b
    BY <1>3
  <2>3. \A x \in C : \E c \in 1..t : f[c] = x
    BY <1>2, <1>3
  <2> QED BY <2>1, <2>2, <2>3 DEF Bijection, Injection, Surjection, IsInjective
<1>5. IsFiniteSet(1..t) /\ Cardinality(1..t) = t
  <2>1. t \in Int /\ 1 \in Int /\ (1 > t => t = 0) /\ t - 1 + 1 = t
    BY <1>1
  <2> QED BY <2>1, FS_Interval
<1> QED BY <1>1, <1>4, <1>5, FS_Bijection DEF ExistsBijection

\* A number of entries in front of all others.
LEMMA TopExists ==
  ASSUME NEW leaf \in Seq(Point), NEW i \in 1..Len(leaf), NEW metric \in [Point -> [Point -> Int]],
         leaf_k \in Nat
  PROVE  \E top \in [1..ListLen(leaf, i) -> (1..Len(leaf)) \ {i}] : IsTop(top, leaf, i, metric)
<1>1. PICK S : S = Scored(leaf, i)
  OBVIOUS
<1>2. IsFiniteSet(S)
  BY <1>1, ScoredFinite, LeafIs
<1>3. PICK n : n = Cardinality(S) /\ n \in Nat
  BY <1>2, FS_CardinalityType
<1>4. PICK f \in [1..n -> S] : /\ \A s \in S : \E r \in 1..n : f[r] = s
                               /\ \A r, q \in 1..n : r < q => <<f[r], f[q]>> \in Order(leaf, i, metric)
  BY <1>1, <1>2, <1>3, OrderIsLinear, LineUp
<1>5. PICK m : m = ListLen(leaf, i) /\ m \in Nat /\ m <= n
  BY <1>1, <1>3 DEF ListLen
<1>6. \A s \in S : /\ s[1] \in (1..Len(leaf)) \ {i} /\ s[2] \in {1, 2} /\ s = <<s[1], s[2]>>
  BY <1>1 DEF Scored
<1>7. PICK top : top = [r \in 1..m |-> f[r][1]]
  OBVIOUS
<1>8. \A r \in 1..m : r \in 1..n /\ f[r] \in S
  <2>1. 1..m \subseteq 1..n
    BY <1>3, <1>5
  <2> QED BY <1>4, <2>1
<1>9. top \in [1..m -> (1..Len(leaf)) \ {i}] /\ DOMAIN top = 1..m
  BY <1>6, <1>7, <1>8
<1>10. \A a, b \in S : <<a, b>> \in Order(leaf, i, metric) =>
          a[1] = b[1] \/ Before(leaf, i, metric, a[1], b[1])
  BY DEF Order
<1>11. ASSUME NEW r \in 1..m, NEW q \in 1..m, r < q
       PROVE  top[r] = top[q] \/ Before(leaf, i, metric, top[r], top[q])
  BY <1>4, <1>7, <1>8, <1>10, <1>11
<1>12. ASSUME NEW j \in (1..Len(leaf)) \ {i}
       PROVE  \/ Cardinality({r \in 1..m : top[r] = j}) = Times(leaf, i, j)
              \/ /\ Cardinality({r \in 1..m : top[r] = j}) < Times(leaf, i, j)
                 /\ \A r \in 1..m : top[r] = j \/ Before(leaf, i, metric, top[r], j)
  <2>1. PICK C : C = {s \in S : s[1] = j}
    OBVIOUS
  <2>2. IsFiniteSet(C) /\ Cardinality(C) = Times(leaf, i, j) /\ Times(leaf, i, j) \in Nat
    <3>1. \A s : s \in C <=> s \in Scored(leaf, i) /\ s[1] = j
      BY <1>1, <2>1
    <3>2. IsFiniteSet(C) /\ Cardinality(C) = Times(leaf, i, j)
      BY <1>12, <3>1, ScoresOf
    <3>3. Times(leaf, i, j) \in {0, 1, 2}
      BY TimesRange
    <3>4. \A t \in {0, 1, 2} : t \in Nat
      OBVIOUS
    <3> QED BY <3>2, <3>3, <3>4
  <2>3. PICK R : R = {r \in 1..m : top[r] = j}
    OBVIOUS
  <2>4. PICK g : g = [r \in R |-> f[r]]
    OBVIOUS
  <2>5. \A r, q \in 1..n : f[r] = f[q] => r = q
    <3> SUFFICES ASSUME NEW r \in 1..n, NEW q \in 1..n, r < q PROVE f[r] # f[q]
      OBVIOUS
    <3>1. <<f[r], f[q]>> \in Order(leaf, i, metric) /\ f[r] \in S
      BY <1>4
    <3>2. <<f[r], f[r]>> \notin Order(leaf, i, metric)
      BY <1>1, <3>1, OrderIsLinear DEF LinearOn
    <3> QED BY <3>1, <3>2
  <2>6. g \in Injection(R, C)
    <3>1. g \in [R -> C]
      BY <1>7, <1>8, <2>1, <2>3, <2>4
    <3>2. \A r, q \in R : g[r] = g[q] => r = q
      BY <1>8, <2>3, <2>4, <2>5
    <3> QED BY <3>1, <3>2 DEF Injection, IsInjective
  <2>7. /\ IsFiniteSet(R) /\ Cardinality(R) <= Cardinality(C)
        /\ Cardinality(R) = Cardinality(C) => g \in Surjection(R, C)
    BY <2>2, <2>6, FS_Injection
  <2>8. CASE Cardinality(R) = Cardinality(C)
    BY <2>2, <2>3, <2>8
  <2>9. CASE Cardinality(R) # Cardinality(C)
    <3>1. Cardinality(R) \in Nat /\ Cardinality(R) < Times(leaf, i, j)
      BY <2>2, <2>7, <2>9, FS_CardinalityType
    <3>2. PICK s \in C : \A r \in R : f[r] # s
      <4>1. SUFFICES ASSUME \A s \in C : \E r \in R : f[r] = s PROVE FALSE
        OBVIOUS
      <4>2. g \in Surjection(R, C)
        BY <2>4, <2>6, <4>1 DEF Surjection, Injection
      <4> QED BY <2>2, <2>6, <2>9, <4>2, FS_Injection
    <3>3. s \in S /\ s[1] = j
      BY <2>1, <3>2
    <3>4. PICK p \in 1..n : f[p] = s
      BY <1>4, <3>3
    <3>5. p \notin 1..m
      BY <1>7, <2>3, <3>2, <3>3, <3>4
    <3>6. \A r \in 1..m : r < p
      BY <1>3, <1>5, <3>4, <3>5
    <3>7. ASSUME NEW r \in 1..m PROVE top[r] = j \/ Before(leaf, i, metric, top[r], j)
      <4>1. r \in 1..n /\ f[r] \in S /\ <<f[r], f[p]>> \in Order(leaf, i, metric)
        BY <1>4, <1>8, <3>4, <3>6
      <4> QED BY <1>7, <1>10, <3>3, <3>4, <4>1
    <3> QED BY <2>3, <3>1, <3>7
  <2> QED BY <2>8, <2>9
<1>13. IsTop(top, leaf, i, metric)
  BY <1>9, <1>11, <1>12 DEF IsTop
<1> QED BY <1>5, <1>9, <1>13

LEMMA TopFacts ==
  ASSUME NEW leaf \in Seq(Point), NEW i \in 1..Len(leaf), NEW metric \in [Point -> [Point -> Int]],
         leaf_k \in Nat, NEW top, top = TopOf(leaf, i, metric)
  PROVE  /\ top \in Seq((1..Len(leaf)) \ {i})
         /\ \A r, q \in 1..Len(top) :
              r < q => metric[leaf[i]][leaf[top[r]]] <= metric[leaf[i]][leaf[top[q]]]
<1>1. PICK m : m = ListLen(leaf, i) /\ m \in Nat
  <2>1. Cardinality(Scored(leaf, i)) \in Nat
    BY LeafIs, ScoredFinite, FS_CardinalityType
  <2> QED BY <2>1 DEF ListLen
<1>2. top \in [1..m -> (1..Len(leaf)) \ {i}] /\ IsTop(top, leaf, i, metric)
  BY <1>1, TopIs, TopExists
<1>3. top \in Seq((1..Len(leaf)) \ {i}) /\ Len(top) = m
  <2>1. top \in Seq((1..Len(leaf)) \ {i})
    <3>1. PICK X : X = (1..Len(leaf)) \ {i}
      OBVIOUS
    <3>2. Seq(X) = UNION {[1..n -> X] : n \in Nat}
      BY SeqDef
    <3>3. top \in [1..m -> X]
      BY <1>2, <3>1
    <3>4. top \in Seq(X)
      BY <1>1, <3>2, <3>3
    <3> QED BY <3>1, <3>4
  <2> QED BY <1>1, <1>2, <2>1, LenProperties
<1>4. ASSUME NEW r \in 1..m, NEW q \in 1..m, r < q
      PROVE  metric[leaf[i]][leaf[top[r]]] <= metric[leaf[i]][leaf[top[q]]]
  <2>1. top[r] = top[q] \/ Before(leaf, i, metric, top[r], top[q])
    BY <1>2, <1>4 DEF IsTop
  <2>2. top[r] \in 1..Len(leaf) /\ top[q] \in 1..Len(leaf)
    BY <1>2
  <2>3. leaf[i] \in Point /\ leaf[top[r]] \in Point /\ leaf[top[q]] \in Point
    BY <2>2, LeafIs
  <2>4. metric[leaf[i]][leaf[top[r]]] \in Int /\ metric[leaf[i]][leaf[top[q]]] \in Int
    BY <2>3
  <2>5. CASE top[r] = top[q]
    <3>1. \A x \in Int : x <= x
      OBVIOUS
    <3> QED BY <2>4, <2>5, <3>1
  <2>6. CASE Before(leaf, i, metric, top[r], top[q])
    <3>1. PICK x, y : x = metric[leaf[i]][leaf[top[r]]] /\ y = metric[leaf[i]][leaf[top[q]]]
      OBVIOUS
    <3>2. x \in Int /\ y \in Int /\ (x < y \/ x = y)
      BY <2>4, <2>6, <3>1 DEF Before
    <3>3. x <= y
      BY <3>2
    <3> QED BY <3>1, <3>3
  <2> QED BY <2>1, <2>5, <2>6
<1> QED BY <1>3, <1>4
-----------------------------------------------------------------------------
(* FlattenSeq. *)

Flattens(f, n, s) == f = [i \in 1..n |-> IF i = 1 THEN s[i] ELSE f[i - 1] \o s[i]]

LEMMA FlattensOne ==
  ASSUME NEW n \in Nat, NEW s, n > 0, NEW f, Flattens(f, n - 1, s)
  PROVE  \E g : Flattens(g, n, s)
<1>1. PICK g : g = [i \in 1..n |-> IF i = n THEN IF n = 1 THEN s[n] ELSE f[n - 1] \o s[n]
                                   ELSE f[i]]
  OBVIOUS
<1>2. \A i \in 1..n - 1 : i \in 1..n /\ i # n /\ g[i] = f[i]
  BY <1>1
<1>3. \A i \in 1..n - 1 : f[i] = IF i = 1 THEN s[i] ELSE f[i - 1] \o s[i]
  BY DEF Flattens
<1>4. ASSUME NEW i \in 1..n
      PROVE  g[i] = IF i = 1 THEN s[i] ELSE g[i - 1] \o s[i]
  <2>1. CASE i = n
    <3>1. n # 1 => n - 1 \in 1..n - 1
      OBVIOUS
    <3> QED BY <1>1, <1>2, <2>1, <3>1
  <2>2. CASE i # n
    <3>1. i \in 1..n - 1 /\ (i # 1 => i - 1 \in 1..n - 1)
      BY <2>2
    <3> QED BY <1>2, <1>3, <3>1
  <2> QED BY <2>1, <2>2
<1>5. g = [i \in 1..n |-> IF i = 1 THEN s[i] ELSE g[i - 1] \o s[i]]
  BY <1>1, <1>4
<1> QED BY <1>5 DEF Flattens

LEMMA FlattensExists ==
  ASSUME NEW n \in Nat, NEW s
  PROVE  \E f : Flattens(f, n, s)
<1>1. PICK T : T = {i \in 0..n : \E f : Flattens(f, i, s)}
  OBVIOUS
<1>2. 0 \in T
  <2>1. PICK f : f = [i \in 1..0 |-> s]
    OBVIOUS
  <2>2. f = [i \in 1..0 |-> IF i = 1 THEN s[i] ELSE f[i - 1] \o s[i]]
    BY <2>1
  <2>3. Flattens(f, 0, s)
    BY <2>2 DEF Flattens
  <2> QED BY <1>1, <2>3
<1>3. ASSUME NEW i \in 1..n, i - 1 \in T PROVE i \in T
  <2>1. PICK f : Flattens(f, i - 1, s)
    BY <1>1, <1>3
  <2>2. \E g : Flattens(g, i, s)
    BY <2>1, FlattensOne
  <2> QED BY <1>1, <2>2
<1>4. n \in T
  BY <1>2, <1>3, UpTo
<1> QED BY <1>1, <1>4

\* t has what the first n sequences of s have.
Gathers(t, n, X, s) ==
  /\ t \in Seq(X)
  /\ \A x \in 1..Len(t) : \E i \in 1..n : \E y \in 1..Len(s[i]) : s[i][y] = t[x]
  /\ \A i \in 1..n : \A y \in 1..Len(s[i]) : \E x \in 1..Len(t) : t[x] = s[i][y]

LEMMA GathersMore ==
  ASSUME NEW X, NEW n \in Nat, n > 1, NEW s, NEW t, Gathers(t, n - 1, X, s), s[n] \in Seq(X)
  PROVE  Gathers(t \o s[n], n, X, s)
<1>1. PICK w : w = s[n]
  OBVIOUS
<1>2. PICK u : u = t \o w
  OBVIOUS
<1>3. t \in Seq(X) /\ w \in Seq(X) /\ Len(t) \in Nat /\ Len(w) \in Nat
  BY <1>1, LenProperties DEF Gathers
<1>4. /\ u \in Seq(X) /\ Len(u) = Len(t) + Len(w)
      /\ \A x \in 1..Len(u) : u[x] = IF x <= Len(t) THEN t[x] ELSE w[x - Len(t)]
  BY <1>2, <1>3, ConcatProperties
<1>5. \A i \in 1..n : i = n \/ i \in 1..n - 1
  OBVIOUS
<1>6. \A i \in 1..n - 1 : i \in 1..n
  OBVIOUS
<1>7. ASSUME NEW x \in 1..Len(u) PROVE \E i \in 1..n : \E y \in 1..Len(s[i]) : s[i][y] = u[x]
  <2>1. CASE x <= Len(t)
    <3>1. x \in 1..Len(t) /\ u[x] = t[x]
      BY <1>3, <1>4, <2>1
    <3> QED BY <1>6, <3>1 DEF Gathers
  <2>2. CASE ~ (x <= Len(t))
    <3>1. x - Len(t) \in 1..Len(w) /\ u[x] = w[x - Len(t)]
      BY <1>3, <1>4, <2>2
    <3>2. n \in 1..n
      OBVIOUS
    <3> QED BY <1>1, <3>1, <3>2
  <2> QED BY <2>1, <2>2
<1>8. ASSUME NEW i \in 1..n, NEW y \in 1..Len(s[i]) PROVE \E x \in 1..Len(u) : u[x] = s[i][y]
  <2>1. CASE i = n
    <3>1. y \in 1..Len(w) /\ s[i][y] = w[y]
      BY <1>1, <1>8, <2>1
    <3>2. Len(t) + y \in 1..Len(u) /\ ~ (Len(t) + y <= Len(t)) /\ Len(t) + y - Len(t) = y
      BY <1>3, <1>4, <3>1
    <3>3. u[Len(t) + y] = w[y]
      BY <1>4, <3>2
    <3> QED BY <3>1, <3>2, <3>3
  <2>2. CASE i \in 1..n - 1
    <3>1. PICK x \in 1..Len(t) : t[x] = s[i][y]
      BY <1>8, <2>2 DEF Gathers
    <3>2. x \in 1..Len(u) /\ x <= Len(t)
      BY <1>3, <1>4
    <3> QED BY <1>4, <3>1, <3>2
  <2> QED BY <1>5, <2>1, <2>2
<1>9. Gathers(u, n, X, s)
  BY <1>4, <1>7, <1>8, Zenon DEF Gathers
<1> QED BY <1>1, <1>2, <1>9, Zenon

LEMMA FlattenGathers ==
  ASSUME NEW X, NEW s, Len(s) \in Nat \ {0}, \A i \in 1..Len(s) : s[i] \in Seq(X)
  PROVE  Gathers(FlattenSeq(s), Len(s), X, s)
<1>1. PICK n : n = Len(s) /\ n \in Nat /\ n # 0
  OBVIOUS
<1>2. PICK f : /\ f = CHOOSE g : Flattens(g, n, s)
               /\ Flattens(f, n, s)
  BY <1>1, FlattensExists
<1>3. FlattenSeq(s) = f[n]
  BY <1>1, <1>2, Zenon DEF FlattenSeq, Flattens
<1>4. \A i \in 1..n : f[i] = IF i = 1 THEN s[i] ELSE f[i - 1] \o s[i]
  BY <1>2 DEF Flattens
<1>5. PICK T : T = {i \in 0..n : i = 0 \/ Gathers(f[i], i, X, s)}
  OBVIOUS
<1>6. 0 \in T
  BY <1>1, <1>5
<1>7. ASSUME NEW i \in 1..n, i - 1 \in T PROVE i \in T
  <2>1. s[i] \in Seq(X)
    BY <1>1
  <2>2. CASE i = 1
    <3>1. f[1] = s[1] /\ s[1] \in Seq(X)
      BY <1>4, <2>1, <2>2
    <3>2. 1..1 = {1}
      OBVIOUS
    <3>3. Gathers(s[1], 1, X, s)
      BY <3>1, <3>2 DEF Gathers
    <3> QED BY <1>5, <2>2, <3>1, <3>3
  <2>3. CASE i # 1
    <3>1. i > 1 /\ i \in Nat /\ i - 1 # 0
      BY <1>1, <2>3
    <3>2. Gathers(f[i - 1], i - 1, X, s)
      BY <1>5, <1>7, <3>1
    <3>3. Gathers(f[i - 1] \o s[i], i, X, s)
      BY <2>1, <3>1, <3>2, GathersMore
    <3> QED BY <1>4, <1>5, <2>3, <3>3
  <2> QED BY <2>2, <2>3
<1>8. n \in T
  <2>1. \A i \in 0..n : i \in T
    BY <1>1, <1>6, <1>7, UpTo
  <2> QED BY <1>1, <2>1
<1> QED BY <1>1, <1>3, <1>5, <1>8
-----------------------------------------------------------------------------
(* The edges of a leaf. *)

Edge(n) == [tgt : 1..n, src : Point]

ALeaf(leaf) == leaf \in Leaves /\ Len(leaf) > 1

LEMMA LeafFacts ==
  ASSUME NEW leaf, ALeaf(leaf)
  PROVE  /\ leaf \in Seq(Point) /\ Len(leaf) \in Nat \ {0} /\ DOMAIN leaf = 1..Len(leaf)
         /\ \A i \in 1..Len(leaf) : leaf[i] \in Point
         /\ \A i, j \in 1..Len(leaf) : leaf[i] = leaf[j] => i = j
<1>1. leaf \in Seq(Point) /\ IsInjective(leaf)
  BY LeafKnnAssumption DEF ALeaf
<1>2. Len(leaf) \in Nat /\ DOMAIN leaf = 1..Len(leaf) /\ \A i \in 1..Len(leaf) : leaf[i] \in Point
  BY <1>1, LeafIs
<1>3. Len(leaf) # 0
  BY <1>2 DEF ALeaf
<1>4. \A i, j \in 1..Len(leaf) : leaf[i] = leaf[j] => i = j
  BY <1>1, <1>2 DEF IsInjective
<1> QED BY <1>1, <1>2, <1>3, <1>4

LEMMA TopIsList ==
  ASSUME NEW leaf, ALeaf(leaf), NEW i \in 1..Len(leaf), NEW h \in HammingLeaf
  PROVE  /\ Top(leaf, i, h) \in Seq((1..Len(leaf)) \ {i})
         /\ Len(Top(leaf, i, h)) \in Nat
         /\ \A r \in 1..Len(Top(leaf, i, h)) : Top(leaf, i, h)[r] \in (1..Len(leaf)) \ {i}
         /\ ~ h => \A r, q \in 1..Len(Top(leaf, i, h)) : r < q =>
              Dist[leaf[i]][leaf[Top(leaf, i, h)[r]]] <= Dist[leaf[i]][leaf[Top(leaf, i, h)[q]]]
<1>1. PICK metric : metric = IF h THEN Ham ELSE Dist
  OBVIOUS
<1>2. metric \in [Point -> [Point -> Int]] /\ leaf_k \in Nat
  BY <1>1, LeafKnnAssumption
<1>3. PICK top : top = TopOf(leaf, i, metric)
  OBVIOUS
<1>4. Top(leaf, i, h) = top
  BY <1>1, <1>3 DEF Top
<1>5. leaf \in Seq(Point)
  BY LeafFacts
<1>6. /\ top \in Seq((1..Len(leaf)) \ {i})
      /\ \A r, q \in 1..Len(top) :
           r < q => metric[leaf[i]][leaf[top[r]]] <= metric[leaf[i]][leaf[top[q]]]
  BY <1>2, <1>3, <1>5, TopFacts
<1>7. Len(top) \in Nat /\ \A r \in 1..Len(top) : top[r] \in (1..Len(leaf)) \ {i}
  BY <1>6, LeafIs
<1>8. ~ h => metric = Dist
  BY <1>1
<1> QED BY <1>4, <1>6, <1>7, <1>8

EdgeList(leaf, h) == EdgesOf[leaf][h]

There(leaf, i, r, h) == [tgt |-> i, src |-> leaf[Top(leaf, i, h)[r]]]
Back(leaf, i, r, h) == [tgt |-> Top(leaf, i, h)[r], src |-> leaf[i]]

LEMMA RowEdges ==
  ASSUME NEW leaf, ALeaf(leaf), NEW i \in 1..Len(leaf), NEW h \in HammingLeaf,
         NEW s, s = EdgesOfRow(leaf, i, h)
  PROVE  /\ s \in Seq(Edge(Len(leaf)))
         /\ \A y \in 1..Len(s) : \E r \in 1..Len(Top(leaf, i, h)) :
              s[y] \in {There(leaf, i, r, h), Back(leaf, i, r, h)}
         /\ \A r \in 1..Len(Top(leaf, i, h)) :
              /\ \E y \in 1..Len(s) : s[y] = There(leaf, i, r, h)
              /\ \E y \in 1..Len(s) : s[y] = Back(leaf, i, r, h)
<1>1. PICK top : top = Top(leaf, i, h)
  OBVIOUS
<1>2. PICK m : m = Len(top)
  OBVIOUS
<1>3. m \in Nat /\ \A r \in 1..m : top[r] \in (1..Len(leaf)) \ {i}
  BY <1>1, <1>2, TopIsList
<1>4. /\ s = [x \in 1..(2 * m) |->
           IF x % 2 = 1 THEN [tgt |-> i, src |-> leaf[top[(x + 1) \div 2]]]
                        ELSE [tgt |-> top[(x + 1) \div 2], src |-> leaf[i]]]
  BY <1>1, <1>2 DEF EdgesOfRow
<1>5. \A r \in 1..m : There(leaf, i, r, h) = [tgt |-> i, src |-> leaf[top[r]]]
                   /\ Back(leaf, i, r, h) = [tgt |-> top[r], src |-> leaf[i]]
  BY <1>1 DEF There, Back
<1>6. \A x \in 1..(2 * m) : (x + 1) \div 2 \in 1..m
  BY <1>3
<1>7. \A x \in 1..(2 * m) : s[x] \in {There(leaf, i, (x + 1) \div 2, h), Back(leaf, i, (x + 1) \div 2, h)}
  BY <1>4, <1>5, <1>6
<1>8. \A r \in 1..m : There(leaf, i, r, h) \in Edge(Len(leaf))
                   /\ Back(leaf, i, r, h) \in Edge(Len(leaf))
  <2> TAKE r \in 1..m
  <2>1. top[r] \in 1..Len(leaf) /\ leaf[top[r]] \in Point /\ leaf[i] \in Point
    BY <1>3, LeafFacts
  <2> QED BY <1>5, <2>1 DEF Edge
<1>9. s \in [1..(2 * m) -> Edge(Len(leaf))]
  <2>1. PICK X : X = Edge(Len(leaf))
    OBVIOUS
  <2>2. \A x \in 1..(2 * m) : s[x] \in X
    <3> TAKE x \in 1..(2 * m)
    <3>1. PICK r : r = (x + 1) \div 2
      OBVIOUS
    <3>2. There(leaf, i, r, h) \in X /\ Back(leaf, i, r, h) \in X
      BY <1>6, <1>8, <2>1, <3>1
    <3> QED BY <1>7, <3>1, <3>2
  <2>3. s \in [1..(2 * m) -> X]
    BY <1>4, <2>2
  <2> QED BY <2>1, <2>3
<1>10. s \in Seq(Edge(Len(leaf))) /\ Len(s) = 2 * m
  <2>1. PICK X : X = Edge(Len(leaf))
    OBVIOUS
  <2>2. 2 * m \in Nat
    BY <1>3
  <2>3. Seq(X) = UNION {[1..n -> X] : n \in Nat}
    BY SeqDef
  <2>4. s \in [1..(2 * m) -> X]
    BY <1>9, <2>1
  <2>5. s \in Seq(X)
    BY <2>2, <2>3, <2>4
  <2>6. Len(s) = 2 * m
    BY <2>2, <2>4, <2>5, LenProperties
  <2> QED BY <2>1, <2>5, <2>6
<1>11. ASSUME NEW r \in 1..m
       PROVE  /\ \E y \in 1..Len(s) : s[y] = There(leaf, i, r, h)
              /\ \E y \in 1..Len(s) : s[y] = Back(leaf, i, r, h)
  <2>1. /\ 2 * r - 1 \in 1..(2 * m) /\ (2 * r - 1) % 2 = 1 /\ ((2 * r - 1) + 1) \div 2 = r
        /\ 2 * r \in 1..(2 * m) /\ (2 * r) % 2 # 1 /\ (2 * r + 1) \div 2 = r
    BY <1>3
  <2>2. s[2 * r - 1] = There(leaf, i, r, h)
    BY <1>4, <1>5, <2>1
  <2>3. s[2 * r] = Back(leaf, i, r, h)
    BY <1>4, <1>5, <2>1
  <2> QED BY <1>10, <2>1, <2>2, <2>3
<1>12. \A y \in 1..Len(s) : \E r \in 1..m : s[y] \in {There(leaf, i, r, h), Back(leaf, i, r, h)}
  BY <1>6, <1>7, <1>10
<1> QED BY <1>1, <1>2, <1>10, <1>11, <1>12

LEMMA EdgesAre ==
  ASSUME NEW leaf, ALeaf(leaf), NEW h \in HammingLeaf
  PROVE  /\ EdgeList(leaf, h) \in Seq(Edge(Len(leaf)))
         /\ \A x \in 1..Len(EdgeList(leaf, h)) : \E i \in 1..Len(leaf) : \E r \in 1..Len(Top(leaf, i, h)) :
              EdgeList(leaf, h)[x] \in {There(leaf, i, r, h), Back(leaf, i, r, h)}
         /\ \A i \in 1..Len(leaf) : \A r \in 1..Len(Top(leaf, i, h)) :
              /\ \E x \in 1..Len(EdgeList(leaf, h)) : EdgeList(leaf, h)[x] = There(leaf, i, r, h)
              /\ \E x \in 1..Len(EdgeList(leaf, h)) : EdgeList(leaf, h)[x] = Back(leaf, i, r, h)
<1>0. PICK s : s = EdgeList(leaf, h)
  OBVIOUS
<1>1. PICK n : n = Len(leaf) /\ n \in Nat \ {0}
  BY LeafFacts
<1>2. PICK ss : ss = [i \in 1..n |-> EdgesOfRow(leaf, i, h)]
  OBVIOUS
<1>3. s = FlattenSeq(ss)
  <2>1. leaf \in {l \in Leaves : Len(l) > 1}
    BY DEF ALeaf
  <2>2. EdgeList(leaf, h) = FlattenSeq([i \in 1..Len(leaf) |-> EdgesOfRow(leaf, i, h)])
    BY <2>1 DEF EdgesOf, EdgeList
  <2> QED BY <1>0, <1>1, <1>2, <2>2
<1>4. \A i \in 1..n : ss[i] = EdgesOfRow(leaf, i, h)
  BY <1>2
<1>5. PICK X : X = Edge(Len(leaf))
  OBVIOUS
<1>6. \A i \in 1..n : ss[i] \in Seq(X)
  BY <1>1, <1>4, <1>5, RowEdges
<1>7. ss \in Seq(Seq(X)) /\ Len(ss) = n
  <2>1. ss \in [1..n -> Seq(X)]
    BY <1>2, <1>6
  <2>2. Seq(Seq(X)) = UNION {[1..l -> Seq(X)] : l \in Nat}
    BY SeqDef
  <2>3. ss \in Seq(Seq(X))
    BY <1>1, <2>1, <2>2
  <2>4. Len(ss) = n
    <3>1. PICK Y : Y = Seq(X)
      OBVIOUS
    <3>2. n \in Nat /\ ss \in [1..n -> Y]
      BY <1>1, <2>1, <3>1
    <3> QED BY <3>2, RowOfLength
  <2> QED BY <2>3, <2>4
<1>8. Gathers(s, n, X, ss)
  BY <1>1, <1>3, <1>6, <1>7, FlattenGathers
<1>9. s \in Seq(X)
  BY <1>8 DEF Gathers
<1>10. ASSUME NEW x \in 1..Len(s)
       PROVE  \E i \in 1..n : \E r \in 1..Len(Top(leaf, i, h)) :
                s[x] \in {There(leaf, i, r, h), Back(leaf, i, r, h)}
  <2>1. PICK i \in 1..n : \E y \in 1..Len(ss[i]) : ss[i][y] = s[x]
    BY <1>8 DEF Gathers
  <2>2. PICK y \in 1..Len(ss[i]) : ss[i][y] = s[x]
    BY <2>1
  <2>3. \E r \in 1..Len(Top(leaf, i, h)) : ss[i][y] \in {There(leaf, i, r, h), Back(leaf, i, r, h)}
    BY <1>1, <1>4, RowEdges
  <2> QED BY <2>2, <2>3
<1>11. ASSUME NEW i \in 1..n, NEW r \in 1..Len(Top(leaf, i, h))
       PROVE  /\ \E x \in 1..Len(s) : s[x] = There(leaf, i, r, h)
              /\ \E x \in 1..Len(s) : s[x] = Back(leaf, i, r, h)
  <2>0. PICK es : es = EdgesOfRow(leaf, i, h) /\ ss[i] = es
    BY <1>4
  <2>a. i \in 1..Len(leaf)
    BY <1>1
  <2>b. \A q \in 1..Len(Top(leaf, i, h)) :
          /\ \E y \in 1..Len(es) : es[y] = There(leaf, i, q, h)
          /\ \E y \in 1..Len(es) : es[y] = Back(leaf, i, q, h)
    BY <2>0, <2>a, RowEdges
  <2>1. PICK y \in 1..Len(es) : es[y] = There(leaf, i, r, h)
    BY <2>b
  <2>2. PICK z \in 1..Len(es) : es[z] = Back(leaf, i, r, h)
    BY <2>b
  <2>3. \A w \in 1..Len(ss[i]) : \E x \in 1..Len(s) : s[x] = ss[i][w]
    BY <1>8 DEF Gathers
  <2> QED BY <2>0, <2>1, <2>2, <2>3
<1> QED BY <1>0, <1>1, <1>5, <1>9, <1>10, <1>11

LEMMA EdgesHave ==
  ASSUME NEW leaf, ALeaf(leaf), NEW h \in HammingLeaf,
         NEW i \in 1..Len(leaf), NEW r \in 1..Len(Top(leaf, i, h))
  PROVE  /\ \E x \in 1..Len(EdgeList(leaf, h)) : EdgeList(leaf, h)[x] = There(leaf, i, r, h)
         /\ \E x \in 1..Len(EdgeList(leaf, h)) : EdgeList(leaf, h)[x] = Back(leaf, i, r, h)
BY EdgesAre

\* An edge joins two points of the leaf.
LEMMA EdgesJoin ==
  ASSUME NEW leaf, ALeaf(leaf), NEW h \in HammingLeaf, NEW x \in 1..Len(EdgeList(leaf, h))
  PROVE  /\ EdgeList(leaf, h)[x].tgt \in 1..Len(leaf) /\ EdgeList(leaf, h)[x].src \in Point
         /\ \E j \in 1..Len(leaf) : j # EdgeList(leaf, h)[x].tgt /\ EdgeList(leaf, h)[x].src = leaf[j]
<1>a. PICK s : s = EdgeList(leaf, h)
  OBVIOUS
<1>0. PICK i \in 1..Len(leaf) : \E r \in 1..Len(Top(leaf, i, h)) :
        s[x] \in {There(leaf, i, r, h), Back(leaf, i, r, h)}
  BY <1>a, EdgesAre
<1>1. PICK r \in 1..Len(Top(leaf, i, h)) : s[x] \in {There(leaf, i, r, h), Back(leaf, i, r, h)}
  BY <1>0
<1>2. PICK j : j = Top(leaf, i, h)[r] /\ j \in 1..Len(leaf) /\ j # i
  BY TopIsList
<1>3. leaf[i] \in Point /\ leaf[j] \in Point
  BY <1>2, LeafFacts
<1>4. There(leaf, i, r, h) = [tgt |-> i, src |-> leaf[j]] /\ Back(leaf, i, r, h) = [tgt |-> j, src |-> leaf[i]]
  BY <1>2 DEF There, Back
<1>5. CASE s[x] = [tgt |-> i, src |-> leaf[j]]
  <2>1. s[x].tgt = i /\ s[x].src = leaf[j]
    BY <1>5
  <2> QED BY <1>a, <1>2, <1>3, <2>1
<1>6. CASE s[x] = [tgt |-> j, src |-> leaf[i]]
  <2>1. s[x].tgt = j /\ s[x].src = leaf[i]
    BY <1>6
  <2> QED BY <1>a, <1>2, <1>3, <2>1
<1> QED BY <1>1, <1>4, <1>5, <1>6
-----------------------------------------------------------------------------
(* The buffers. *)

LEMMA CapFacts ==
  cap \in Nat \ {0} /\ leaf_k \in Nat \ {0} /\ k \in Nat \ {0}
<1>1. leaf_k \in Nat \ {0} /\ k \in Nat \ {0}
  BY LeafKnnAssumption
<1>2. 2 * leaf_k \in Nat \ {0}
  BY <1>1
<1> QED BY <1>1, <1>2 DEF cap

LEMMA RowsApart ==
  ASSUME NEW w \in Nat \ {0}, NEW n \in Nat, NEW i \in 1..n, NEW j \in 1..n, NEW c \in 0..(w - 1),
         NEW d \in 0..(w - 1)
  PROVE  /\ (i - 1) * w + c + 1 \in 1..(n * w)
         /\ i < j => (i - 1) * w + c + 1 < (j - 1) * w + d + 1
<1>1. PICK u : u = (i - 1) * w /\ u \in Nat
  OBVIOUS
<1>2. u + w = i * w
  BY <1>1
<1>3. i * w <= n * w
  OBVIOUS
<1>4. i * w \in Nat /\ n * w \in Nat
  OBVIOUS
<1>5. u + c + 1 \in 1..(n * w)
  BY <1>1, <1>2, <1>3, <1>4
<1>6. ASSUME i < j PROVE u + c + 1 < (j - 1) * w + d + 1
  <2>1. PICK v : v = (j - 1) * w /\ v \in Nat
    OBVIOUS
  <2>2. i <= j - 1
    BY <1>6
  <2>3. i * w <= (j - 1) * w
    BY <2>2
  <2>4. u + w <= v
    BY <1>2, <2>1, <2>3
  <2> QED BY <1>1, <2>1, <2>4
<1> QED BY <1>1, <1>5, <1>6

LEMMA CellsApart ==
  ASSUME NEW n \in Nat, NEW i \in 1..n, NEW c \in 0..(cap - 1)
  PROVE  /\ Cell(i, c) \in 1..(n * cap)
         /\ \A j \in 1..n : \A d \in 0..(cap - 1) : Cell(i, c) = Cell(j, d) => i = j /\ c = d
<1>1. PICK w : w = cap /\ w \in Nat \ {0}
  BY CapFacts
<1>2. c \in 0..(w - 1)
  BY <1>1
<1>3. Cell(i, c) = (i - 1) * w + c + 1
  BY <1>1 DEF Cell
<1>4. (i - 1) * w + c + 1 \in 1..(n * w)
  BY <1>1, <1>2, RowsApart
<1>5. ASSUME NEW j \in 1..n, NEW d \in 0..(w - 1), Cell(i, c) = Cell(j, d) PROVE i = j /\ c = d
  <2>1. Cell(j, d) = (j - 1) * w + d + 1
    BY <1>1 DEF Cell
  <2>2. i < j => (i - 1) * w + c + 1 < (j - 1) * w + d + 1
    BY <1>1, <1>2, RowsApart
  <2>3. j < i => (j - 1) * w + d + 1 < (i - 1) * w + c + 1
    BY <1>1, <1>2, RowsApart
  <2>4. PICK u, v : u = (i - 1) * w /\ v = (j - 1) * w /\ u \in Int /\ v \in Int
    BY <1>1
  <2>5. ~ (i < j) /\ ~ (j < i)
    BY <1>3, <1>5, <2>1, <2>2, <2>3, <2>4
  <2>6. i = j
    BY <2>5
  <2>7. u = v
    BY <2>4, <2>6
  <2> QED BY <1>3, <1>5, <2>1, <2>4, <2>6, <2>7
<1> QED BY <1>1, <1>3, <1>4, <1>5

\* The buffers hold the first m of a leaf's edges.
Holds(a, cnt, sp, m, n, edges, size) ==
  /\ a \in Seq(Point \cup {NoEdge}) /\ Len(a) = size
  /\ cnt \in [1..n -> 0..cap]
  /\ sp \in Seq(Edge(n))
  /\ \A i \in 1..n : \A c \in 0..(cnt[i] - 1) :
       \E x \in 1..m : edges[x].tgt = i /\ edges[x].src = a[Cell(i, c)]
  /\ \A y \in 1..Len(sp) : \E x \in 1..m : edges[x] = sp[y]
  /\ \A x \in 1..m : \/ \E c \in 0..(cnt[edges[x].tgt] - 1) : a[Cell(edges[x].tgt, c)] = edges[x].src
                     \/ \E y \in 1..Len(sp) : sp[y] = edges[x]

LEMMA HoldsMore ==
  ASSUME NEW n \in Nat, NEW edges \in Seq(Edge(n)), NEW m \in 1..Len(edges),
         NEW size \in Nat, n * cap <= size,
         NEW p, p = m - 1, NEW a, NEW cnt, NEW sp, Holds(a, cnt, sp, p, n, edges, size)
  PROVE  \E a2, cnt2, sp2 : /\ PushEdge(<<a, cnt, sp>>, edges[m]) = <<a2, cnt2, sp2>>
                            /\ Holds(a2, cnt2, sp2, m, n, edges, size)
<1>1. PICK e : e = edges[m]
  OBVIOUS
<1>2. e \in Edge(n) /\ e.tgt \in 1..n /\ e.src \in Point
  <2>1. edges[m] \in Edge(n)
    BY ElementOfSeq
  <2> QED BY <1>1, <2>1 DEF Edge
<1>3. /\ a \in Seq(Point \cup {NoEdge}) /\ Len(a) = size /\ DOMAIN a = 1..size
      /\ cnt \in [1..n -> 0..cap] /\ sp \in Seq(Edge(n)) /\ Len(sp) \in Nat
  BY LenProperties DEF Holds
<1>4. PICK t, q : t = e.tgt /\ q = cnt[t]
  OBVIOUS
<1>5. t \in 1..n /\ q \in 0..cap /\ cap \in Nat \ {0}
  BY <1>2, <1>3, <1>4, CapFacts
<1>6. \A x \in 1..m : x = m \/ x \in 1..m - 1
  BY LenProperties
<1>7. \A x \in 1..m - 1 : x \in 1..m
  BY LenProperties
<1>8. m \in 1..m
  BY LenProperties
<1>9. \A x \in 1..m : edges[x].tgt \in 1..n
  <2> TAKE x \in 1..m
  <2>1. x \in 1..Len(edges)
    BY LenProperties
  <2>2. edges[x] \in Edge(n)
    BY <2>1, ElementOfSeq
  <2> QED BY <2>2 DEF Edge
<1>10. CASE q < cap
  <2>1. PICK a2, cnt2 : a2 = [a EXCEPT ![Cell(t, q)] = e.src] /\ cnt2 = [cnt EXCEPT ![t] = q + 1]
    OBVIOUS
  <2>2. PushEdge(<<a, cnt, sp>>, e) = <<a2, cnt2, sp>>
    BY <1>4, <1>10, <2>1 DEF PushEdge
  <2>3. q \in 0..(cap - 1) /\ q + 1 \in 0..cap
    BY <1>5, <1>10
  <2>4. Cell(t, q) \in 1..size
    <3>1. Cell(t, q) \in 1..(n * cap)
      BY <1>5, <2>3, CellsApart
    <3> QED BY <1>5, <3>1
  <2>5. a2 \in Seq(Point \cup {NoEdge}) /\ Len(a2) = size
    BY <1>2, <1>3, <2>1, <2>4, ExceptSeq
  <2>6. cnt2 \in [1..n -> 0..cap] /\ cnt2[t] = q + 1 /\ \A i \in 1..n : i # t => cnt2[i] = cnt[i]
    BY <1>3, <1>5, <2>1, <2>3
  <2>7. \A y \in 1..size : a2[y] = IF y = Cell(t, q) THEN e.src ELSE a[y]
    BY <1>3, <2>1
  <2>8. ASSUME NEW i \in 1..n, NEW c \in 0..(cap - 1), ~ (i = t /\ c = q)
        PROVE  a2[Cell(i, c)] = a[Cell(i, c)]
    <3>1. Cell(i, c) # Cell(t, q)
      BY <1>5, <2>3, <2>8, CellsApart
    <3>2. Cell(i, c) \in 1..size
      <4>1. Cell(i, c) \in 1..(n * cap)
        BY CellsApart
      <4> QED BY <1>5, <4>1
    <3> QED BY <2>7, <3>1, <3>2
  <2>9. a2[Cell(t, q)] = e.src
    BY <2>4, <2>7
  <2>10. \A i \in 1..n : \A c \in 0..(cnt[i] - 1) :
            c \in 0..(cap - 1) /\ c \in 0..(cnt2[i] - 1) /\ ~ (i = t /\ c = q)
    <3> TAKE i \in 1..n
    <3> TAKE c \in 0..(cnt[i] - 1)
    <3>1. PICK l : l = cnt[i] /\ l \in 0..cap /\ c \in 0..(l - 1)
      BY <1>3
    <3>2. CASE i = t
      <4>1. cnt2[i] = q + 1 /\ l = q
        BY <1>4, <2>6, <3>1, <3>2
      <4> QED BY <1>5, <3>1, <4>1
    <3>3. CASE i # t
      <4>1. cnt2[i] = l
        BY <2>6, <3>1, <3>3
      <4> QED BY <1>5, <3>1, <3>3, <4>1
    <3> QED BY <3>2, <3>3
  <2>11. ASSUME NEW i \in 1..n, NEW c \in 0..(cnt2[i] - 1)
         PROVE  \E x \in 1..m : edges[x].tgt = i /\ edges[x].src = a2[Cell(i, c)]
    <3>1. CASE i = t /\ c = q
      BY <1>1, <1>4, <1>8, <2>9, <3>1
    <3>2. CASE ~ (i = t /\ c = q)
      <4>1. c \in 0..(cnt[i] - 1)
        <5>1. CASE i = t
          <6>1. cnt2[i] = q + 1 /\ cnt[i] = q /\ c # q
            BY <1>4, <2>6, <3>2, <5>1
          <6>2. c \in 0..((q + 1) - 1)
            BY <2>11, <6>1
          <6> QED BY <1>5, <6>1, <6>2
        <5>2. CASE i # t
          BY <2>6, <2>11, <5>2
        <5> QED BY <5>1, <5>2
      <4>2. \E x \in 1..m - 1 : edges[x].tgt = i /\ edges[x].src = a[Cell(i, c)]
        BY <4>1 DEF Holds
      <4>3. a2[Cell(i, c)] = a[Cell(i, c)]
        BY <2>8, <2>10, <3>2, <4>1
      <4> QED BY <1>7, <4>2, <4>3
    <3> QED BY <3>1, <3>2
  <2>12. \A y \in 1..Len(sp) : \E x \in 1..m : edges[x] = sp[y]
    BY <1>7 DEF Holds
  <2>13. ASSUME NEW x \in 1..m
         PROVE  \/ \E c \in 0..(cnt2[edges[x].tgt] - 1) : a2[Cell(edges[x].tgt, c)] = edges[x].src
                \/ \E y \in 1..Len(sp) : sp[y] = edges[x]
    <3>1. CASE x = m
      <4>1. q \in 0..(cnt2[t] - 1)
        BY <1>5, <2>6
      <4> QED BY <1>1, <1>4, <2>9, <3>1, <4>1
    <3>2. CASE x \in 1..m - 1
      <4>1. PICK i : i = edges[x].tgt /\ i \in 1..n
        BY <1>9
      <4>2. \/ \E c \in 0..(cnt[i] - 1) : a[Cell(i, c)] = edges[x].src
            \/ \E y \in 1..Len(sp) : sp[y] = edges[x]
        BY <3>2, <4>1 DEF Holds
      <4>3. CASE \E c \in 0..(cnt[i] - 1) : a[Cell(i, c)] = edges[x].src
        <5>1. PICK c \in 0..(cnt[i] - 1) : a[Cell(i, c)] = edges[x].src
          BY <4>3
        <5>2. c \in 0..(cnt2[i] - 1) /\ a2[Cell(i, c)] = a[Cell(i, c)]
          BY <2>8, <2>10, <4>1
        <5> QED BY <4>1, <5>1, <5>2
      <4> QED BY <4>2, <4>3
    <3> QED BY <1>6, <3>1, <3>2
  <2>14. Holds(a2, cnt2, sp, m, n, edges, size)
    BY <1>3, <2>5, <2>6, <2>11, <2>12, <2>13 DEF Holds
  <2> QED BY <1>1, <2>2, <2>14
<1>11. CASE ~ (q < cap)
  <2>1. PICK sp2 : sp2 = Append(sp, e)
    OBVIOUS
  <2>2. PushEdge(<<a, cnt, sp>>, e) = <<a, cnt, sp2>>
    BY <1>4, <1>11, <2>1 DEF PushEdge
  <2>3. /\ sp2 \in Seq(Edge(n)) /\ Len(sp2) = Len(sp) + 1
        /\ \A y \in 1..Len(sp) : sp2[y] = sp[y]
        /\ sp2[Len(sp) + 1] = e
    BY <1>2, <1>3, <2>1, AppendProperties
  <2>4. \A y \in 1..Len(sp2) : y = Len(sp) + 1 \/ y \in 1..Len(sp)
    BY <1>3, <2>3
  <2>5. \A y \in 1..Len(sp) : y \in 1..Len(sp2)
    BY <1>3, <2>3
  <2>6. Len(sp) + 1 \in 1..Len(sp2)
    BY <1>3, <2>3
  <2>7. \A i \in 1..n : \A c \in 0..(cnt[i] - 1) :
          \E x \in 1..m : edges[x].tgt = i /\ edges[x].src = a[Cell(i, c)]
    BY <1>7 DEF Holds
  <2>8. ASSUME NEW y \in 1..Len(sp2) PROVE \E x \in 1..m : edges[x] = sp2[y]
    <3>1. CASE y = Len(sp) + 1
      BY <1>1, <1>8, <2>3, <3>1
    <3>2. CASE y \in 1..Len(sp)
      <4>1. \E x \in 1..m - 1 : edges[x] = sp[y]
        BY <3>2 DEF Holds
      <4> QED BY <1>7, <2>3, <3>2, <4>1
    <3> QED BY <2>4, <3>1, <3>2
  <2>9. ASSUME NEW x \in 1..m
        PROVE  \/ \E c \in 0..(cnt[edges[x].tgt] - 1) : a[Cell(edges[x].tgt, c)] = edges[x].src
               \/ \E y \in 1..Len(sp2) : sp2[y] = edges[x]
    <3>1. CASE x = m
      BY <1>1, <2>3, <2>6, <3>1
    <3>2. CASE x \in 1..m - 1
      <4>1. \/ \E c \in 0..(cnt[edges[x].tgt] - 1) : a[Cell(edges[x].tgt, c)] = edges[x].src
            \/ \E y \in 1..Len(sp) : sp[y] = edges[x]
        BY <3>2 DEF Holds
      <4> QED BY <2>3, <2>5, <4>1
    <3> QED BY <1>6, <3>1, <3>2
  <2>10. Holds(a, cnt, sp2, m, n, edges, size)
    BY <1>3, <2>3, <2>7, <2>8, <2>9 DEF Holds
  <2> QED BY <1>1, <2>2, <2>10
<1> QED BY <1>10, <1>11
Pushes(f, n, a, cnt, edges) ==
  f = [m \in 0..n |-> IF m = 0 THEN << a, cnt, <<>> >> ELSE PushEdge(f[m - 1], edges[m])]

LEMMA PushesOne ==
  ASSUME NEW n \in Nat, n > 0, NEW a, NEW cnt, NEW edges, NEW f, Pushes(f, n - 1, a, cnt, edges)
  PROVE  \E g : Pushes(g, n, a, cnt, edges)
<1>1. PICK g : g = [m \in 0..n |-> IF m = n THEN PushEdge(f[n - 1], edges[n]) ELSE f[m]]
  OBVIOUS
<1>2. \A m \in 0..n - 1 : m \in 0..n /\ m # n /\ g[m] = f[m]
  BY <1>1
<1>3. \A m \in 0..n - 1 : f[m] = IF m = 0 THEN << a, cnt, <<>> >> ELSE PushEdge(f[m - 1], edges[m])
  BY DEF Pushes
<1>4. ASSUME NEW m \in 0..n
      PROVE  g[m] = IF m = 0 THEN << a, cnt, <<>> >> ELSE PushEdge(g[m - 1], edges[m])
  <2>1. CASE m = n
    <3>1. n - 1 \in 0..n - 1 /\ n # 0
      OBVIOUS
    <3> QED BY <1>1, <1>2, <2>1, <3>1
  <2>2. CASE m # n /\ m # 0
    <3>1. m \in 0..n - 1 /\ m - 1 \in 0..n - 1
      BY <2>2
    <3> QED BY <1>2, <1>3, <2>2, <3>1
  <2>3. CASE m # n /\ m = 0
    <3>1. m \in 0..n - 1
      BY <2>3
    <3> QED BY <1>2, <1>3, <2>3, <3>1
  <2> QED BY <2>1, <2>2, <2>3
<1>5. g = [m \in 0..n |-> IF m = 0 THEN << a, cnt, <<>> >> ELSE PushEdge(g[m - 1], edges[m])]
  BY <1>1, <1>4
<1> QED BY <1>5 DEF Pushes

LEMMA PushesExists ==
  ASSUME NEW n \in Nat, NEW a, NEW cnt, NEW edges
  PROVE  \E f : Pushes(f, n, a, cnt, edges)
<1>1. PICK T : T = {i \in 0..n : \E f : Pushes(f, i, a, cnt, edges)}
  OBVIOUS
<1>2. 0 \in T
  <2>1. PICK f : f = [m \in 0..0 |-> << a, cnt, <<>> >>]
    OBVIOUS
  <2>2. f = [m \in 0..0 |-> IF m = 0 THEN << a, cnt, <<>> >> ELSE PushEdge(f[m - 1], edges[m])]
    BY <2>1
  <2>3. Pushes(f, 0, a, cnt, edges)
    BY <2>2 DEF Pushes
  <2> QED BY <1>1, <2>3
<1>3. ASSUME NEW i \in 1..n, i - 1 \in T PROVE i \in T
  <2>1. PICK f : Pushes(f, i - 1, a, cnt, edges)
    BY <1>1, <1>3
  <2>2. \E g : Pushes(g, i, a, cnt, edges)
    BY <2>1, PushesOne
  <2> QED BY <1>1, <2>2
<1>4. \A i \in 0..n : i \in T
  BY <1>2, <1>3, UpTo
<1> QED BY <1>1, <1>4

LEMMA PushedHolds ==
  ASSUME NEW n \in Nat, NEW edges \in Seq(Edge(n)),
         NEW a \in Seq(Point \cup {NoEdge}), n * cap <= Len(a),
         NEW cnt, cnt = [i \in 1..n |-> 0]
  PROVE  \E a2, cnt2, sp2 : /\ Pushed(a, cnt, edges) = <<a2, cnt2, sp2>>
                            /\ Holds(a2, cnt2, sp2, Len(edges), n, edges, Len(a))
<1>1. PICK l : l = Len(edges) /\ l \in Nat
  BY LenProperties
<1>2. PICK f : /\ f = CHOOSE g : Pushes(g, l, a, cnt, edges)
               /\ Pushes(f, l, a, cnt, edges)
  BY <1>1, PushesExists
<1>3. Pushed(a, cnt, edges) = f[l]
  BY <1>1, <1>2, Zenon DEF Pushed, Pushes
<1>4. PICK size : size = Len(a) /\ size \in Nat
  BY LenProperties
<1>5. PICK T : T = {m \in 0..l : \E a2, cnt2, sp2 :
                      f[m] = <<a2, cnt2, sp2>> /\ Holds(a2, cnt2, sp2, m, n, edges, size)}
  OBVIOUS
<1>6. 0 \in T
  <2>1. 0 \in 0..l
    BY <1>1
  <2>2. f[0] = << a, cnt, <<>> >>
    BY <1>2, <2>1 DEF Pushes
  <2>3. cnt \in [1..n -> 0..cap] /\ \A i \in 1..n : cnt[i] - 1 = -1
    BY CapFacts
  <2>4. <<>> \in Seq(Edge(n)) /\ Len(<<>>) = 0
    OBVIOUS
  <2>5. 0..(-1) = {} /\ 1..0 = {}
    OBVIOUS
  <2>6. Holds(a, cnt, <<>>, 0, n, edges, size)
    BY <1>4, <2>3, <2>4, <2>5 DEF Holds
  <2> QED BY <1>5, <2>1, <2>2, <2>6
<1>7. ASSUME NEW m \in 1..l, m - 1 \in T PROVE m \in T
  <2>1. PICK a2, cnt2, sp2 : f[m - 1] = <<a2, cnt2, sp2>> /\ Holds(a2, cnt2, sp2, m - 1, n, edges, size)
    BY <1>5, <1>7
  <2>2. m \in 0..l /\ m # 0 /\ m \in 1..Len(edges)
    BY <1>1
  <2>3. f[m] = PushEdge(f[m - 1], edges[m])
    BY <1>2, <2>2 DEF Pushes
  <2>4. \E a3, cnt3, sp3 : /\ PushEdge(<<a2, cnt2, sp2>>, edges[m]) = <<a3, cnt3, sp3>>
                           /\ Holds(a3, cnt3, sp3, m, n, edges, size)
    <3>1. n * cap <= size /\ size \in Nat
      BY <1>4
    <3>2. m \in 1..Len(edges)
      BY <2>2
    <3>3. PICK p : p = m - 1 /\ Holds(a2, cnt2, sp2, p, n, edges, size)
      BY <2>1
    <3> QED BY <3>1, <3>2, <3>3, HoldsMore
  <2> QED BY <1>5, <2>1, <2>2, <2>3, <2>4
<1>8. l \in T
  <2>1. \A m \in 0..l : m \in T
    BY <1>1, <1>6, <1>7, UpTo
  <2> QED BY <1>1, <2>1
<1> QED BY <1>1, <1>3, <1>4, <1>5, <1>8

LEMMA GrownHolds ==
  ASSUME NEW n \in Nat, NEW a \in Seq(Point \cup {NoEdge})
  PROVE  Grown(a, n) \in Seq(Point \cup {NoEdge}) /\ n * cap <= Len(Grown(a, n))
<1>1. PICK l, w : l = Len(a) /\ l \in Nat /\ w = n * cap /\ w \in Nat
  BY LenProperties, CapFacts
<1>2. CASE l < w
  <2>1. PICK z : z = [x \in 1..(w - l) |-> NoEdge]
    OBVIOUS
  <2>2. w - l \in Nat /\ z \in [1..(w - l) -> Point \cup {NoEdge}]
    BY <1>1, <1>2, <2>1
  <2>3. z \in Seq(Point \cup {NoEdge}) /\ Len(z) = w - l
    BY <2>2, RowOfLength
  <2>4. Grown(a, n) = a \o z
    BY <1>1, <1>2, <2>1 DEF Grown
  <2>5. a \o z \in Seq(Point \cup {NoEdge}) /\ Len(a \o z) = Len(a) + Len(z)
    BY <2>3, ConcatProperties
  <2> QED BY <1>1, <1>2, <2>3, <2>4, <2>5
<1>3. CASE ~ (l < w)
  <2>1. Grown(a, n) = a
    BY <1>1, <1>3 DEF Grown
  <2> QED BY <1>1, <1>3, <2>1
<1> QED BY <1>2, <1>3

LEMMA GatherHolds ==
  ASSUME NEW leaf, ALeaf(leaf), NEW h \in HammingLeaf, NEW a \in Seq(Point \cup {NoEdge}), NEW cnt,
         NEW edges, edges = EdgeList(leaf, h)
  PROVE  \E a2, cnt2, sp2 :
           /\ Pushed(Grown(a, Len(leaf)), Emptied(cnt, Len(leaf)), edges) = <<a2, cnt2, sp2>>
           /\ Holds(a2, cnt2, sp2, Len(edges), Len(leaf), edges, Len(a2))
           /\ Len(leaf) * cap <= Len(a2)
<1>1. PICK n : n = Len(leaf) /\ n \in Nat
  BY LeafFacts
<1>2. edges \in Seq(Edge(n))
  BY <1>1, EdgesAre
<1>3. PICK b, z : b = Grown(a, n) /\ z = Emptied(cnt, n)
  OBVIOUS
<1>4. b \in Seq(Point \cup {NoEdge}) /\ n * cap <= Len(b)
  BY <1>1, <1>3, GrownHolds
<1>5. z = [i \in 1..n |-> 0]
  BY <1>3 DEF Emptied
<1>6. PICK a2, cnt2, sp2 : /\ Pushed(b, z, edges) = <<a2, cnt2, sp2>>
                           /\ Holds(a2, cnt2, sp2, Len(edges), n, edges, Len(b))
  BY <1>1, <1>2, <1>4, <1>5, PushedHolds
<1>7. Len(a2) = Len(b)
  BY <1>6 DEF Holds
<1> QED BY <1>1, <1>3, <1>4, <1>6, <1>7
-----------------------------------------------------------------------------
(* What a merge leaves behind (Nearest). *)

LEMMA SubsetFacts ==
  ASSUME NEW S \in SUBSET Point
  PROVE  IsFiniteSet(S) /\ Cardinality(S) \in Nat
BY LeafKnnAssumption, FS_Subset, FS_CardinalityType

LEMMA Distances ==
  ASSUME NEW i \in Point, NEW j \in Point
  PROVE  Dist[i][j] \in Int
BY LeafKnnAssumption

LEMMA KeptFacts ==
  ASSUME NEW i \in Point, NEW R \in SUBSET Point, NEW S \in SUBSET Point,
         NEW T \in KeptAfter(i, R, S)
  PROVE  /\ T \subseteq R \cup S
         /\ Cardinality(T) <= k
         /\ T # R \cup S => Cardinality(T) = k
         /\ \A x \in (R \cup S) \ T, y \in T : Dist[i][y] <= Dist[i][x]
BY DEF KeptAfter, IsNearest

\* A row that holds the nearest of A, merged with S, holds the nearest of both.
LEMMA NearestSoFar ==
  ASSUME NEW i \in Point, NEW A \in SUBSET Point, NEW S \in SUBSET Point, NEW R,
         IsNearest(i, R, A), NEW T \in KeptAfter(i, R, S)
  PROVE  IsNearest(i, T, A \cup S)
<1>1. /\ R \subseteq A /\ Cardinality(R) <= k
      /\ R # A => Cardinality(R) = k
      /\ \A x \in A \ R, y \in R : Dist[i][y] <= Dist[i][x]
  BY DEF IsNearest
<1>2. R \in SUBSET Point
  BY <1>1
<1>3. /\ T \subseteq R \cup S /\ Cardinality(T) <= k
      /\ T # R \cup S => Cardinality(T) = k
      /\ \A x \in (R \cup S) \ T, y \in T : Dist[i][y] <= Dist[i][x]
  BY <1>2, KeptFacts
<1>4. T \in SUBSET Point /\ T \subseteq A \cup S
  BY <1>1, <1>2, <1>3
<1>5. /\ IsFiniteSet(T) /\ Cardinality(T) \in Nat
      /\ IsFiniteSet(R) /\ Cardinality(R) \in Nat /\ k \in Nat
  BY <1>2, <1>4, SubsetFacts, CapFacts
<1>6. ASSUME R \subseteq T, Cardinality(R) = k PROVE T = R
  <2>1. Cardinality(R) <= Cardinality(T)
    BY <1>5, <1>6, FS_Subset
  <2>2. Cardinality(R) = Cardinality(T)
    BY <1>3, <1>5, <1>6, <2>1
  <2> QED BY <1>5, <1>6, <2>2, FS_Subset
<1>7. T # A \cup S => Cardinality(T) = k
  BY <1>1, <1>3, <1>6
<1>8. ASSUME NEW x \in (A \cup S) \ T, NEW y \in T PROVE Dist[i][y] <= Dist[i][x]
  <2>1. CASE x \in R \cup S
    BY <1>3, <1>8, <2>1
  <2>2. CASE x \notin R \cup S
    <3>1. x \in A \ R /\ Cardinality(R) = k
      BY <1>1, <1>8, <2>2
    <3>2. CASE y \in R
      BY <1>1, <3>1, <3>2
    <3>3. CASE y \notin R
      <4>1. PICK r \in R : r \notin T
        BY <1>6, <1>8, <3>1, <3>3
      <4>2. Dist[i][y] <= Dist[i][r] /\ Dist[i][r] <= Dist[i][x]
        BY <1>1, <1>3, <3>1, <4>1
      <4>3. Dist[i][x] \in Int /\ Dist[i][y] \in Int /\ Dist[i][r] \in Int
        BY <1>2, <1>4, <1>8, <4>1, Distances
      <4> QED BY <4>2, <4>3
    <3> QED BY <3>2, <3>3
  <2> QED BY <2>1, <2>2
<1> QED BY <1>3, <1>4, <1>7, <1>8 DEF IsNearest

\* How many of the nearest lie within d is decided, whatever the ties.
LEMMA NearestCount ==
  ASSUME NEW i \in Point, NEW A \in SUBSET Point, NEW R, IsNearest(i, R, A), NEW d \in Int
  PROVE  CountWithin(i, R, d) = IF CountWithin(i, A, d) < k THEN CountWithin(i, A, d) ELSE k
<1>1. /\ R \subseteq A /\ Cardinality(R) <= k
      /\ R # A => Cardinality(R) = k
      /\ \A x \in A \ R, y \in R : Dist[i][y] <= Dist[i][x]
  BY DEF IsNearest
<1>2. PICK a : a = {x \in A : Dist[i][x] <= d}
  OBVIOUS
<1>3. PICK r : r = {x \in R : Dist[i][x] <= d}
  OBVIOUS
<1>4. r \in SUBSET a /\ r \in SUBSET R /\ a \in SUBSET Point /\ R \in SUBSET Point
  BY <1>1, <1>2, <1>3
<1>5. /\ IsFiniteSet(a) /\ IsFiniteSet(R)
      /\ Cardinality(a) \in Nat /\ Cardinality(r) \in Nat /\ Cardinality(R) \in Nat /\ k \in Nat
  BY <1>4, SubsetFacts, CapFacts
<1>6. Cardinality(r) <= Cardinality(a) /\ Cardinality(r) <= Cardinality(R)
  BY <1>4, <1>5, FS_Subset
<1>7. CountWithin(i, A, d) = Cardinality(a) /\ CountWithin(i, R, d) = Cardinality(r)
  BY <1>2, <1>3 DEF CountWithin
<1>8. CASE a \subseteq R
  <2>1. a = r
    BY <1>2, <1>3, <1>4, <1>8
  <2> QED BY <1>1, <1>5, <1>6, <1>7, <2>1
<1>9. CASE ~ (a \subseteq R)
  <2>1. PICK x \in a : x \notin R
    BY <1>9
  <2>2. x \in A \ R /\ x \in Point /\ Dist[i][x] <= d
    BY <1>2, <1>4, <2>1
  <2>3. \A y \in R : Dist[i][y] <= d
    <3> SUFFICES ASSUME NEW y \in R PROVE Dist[i][y] <= d
      OBVIOUS
    <3>1. Dist[i][y] <= Dist[i][x] /\ y \in Point
      BY <1>1, <1>4, <2>2
    <3>2. Dist[i][y] \in Int /\ Dist[i][x] \in Int
      BY <2>2, <3>1, Distances
    <3> QED BY <2>2, <3>1, <3>2
  <2>4. r = R /\ Cardinality(R) = k
    BY <1>1, <1>3, <2>2, <2>3
  <2> QED BY <1>5, <1>6, <1>7, <2>4
<1> QED BY <1>8, <1>9

\* The merge of L into row me keeps every row's promise: what still waits may
\* only have lost L, for that row.
HasMerged(rows, into, waits) ==
  \A i \in Point : \E S \in SUBSET Point :
    /\ IsNearest(i, rows[i], S)
    /\ \A j \in S : <<i, j>> \in into
    /\ \A j \in Point : <<i, j>> \in into => j \in S \/ <<i, j>> \in waits

LEMMA MergeKeeps ==
  ASSUME NEW rows \in [Point -> SUBSET Point], NEW into, NEW waits, NEW waits2,
         HasMerged(rows, into, waits), NEW me \in Point, NEW L \in SUBSET Point,
         \A j \in L : <<me, j>> \in into,
         \A i, j \in Point : <<i, j>> \in waits => <<i, j>> \in waits2 \/ (i = me /\ j \in L),
         NEW T \in KeptAfter(me, rows[me], L)
  PROVE  /\ [rows EXCEPT ![me] = T] \in [Point -> SUBSET Point]
         /\ HasMerged([rows EXCEPT ![me] = T], into, waits2)
<1>1. PICK new : new = [rows EXCEPT ![me] = T]
  OBVIOUS
<1>2. T \in SUBSET Point /\ rows[me] \in SUBSET Point
  BY DEF KeptAfter
<1>3. new \in [Point -> SUBSET Point] /\ new[me] = T /\ \A i \in Point : i # me => new[i] = rows[i]
  BY <1>1, <1>2
<1>4. ASSUME NEW i \in Point
      PROVE  \E S \in SUBSET Point :
               /\ IsNearest(i, new[i], S)
               /\ \A j \in S : <<i, j>> \in into
               /\ \A j \in Point : <<i, j>> \in into => j \in S \/ <<i, j>> \in waits2
  <2>1. PICK S \in SUBSET Point :
          /\ IsNearest(i, rows[i], S)
          /\ \A j \in S : <<i, j>> \in into
          /\ \A j \in Point : <<i, j>> \in into => j \in S \/ <<i, j>> \in waits
    BY DEF HasMerged
  <2>2. CASE i = me
    <3>1. IsNearest(me, T, S \cup L)
      BY <2>1, <2>2, NearestSoFar
    <3>2. S \cup L \in SUBSET Point /\ new[i] = T
      BY <1>3, <2>2
    <3> QED BY <2>1, <2>2, <3>1, <3>2
  <2>3. CASE i # me
    BY <1>3, <2>1, <2>3
  <2> QED BY <2>2, <2>3
<1> QED BY <1>1, <1>3, <1>4 DEF HasMerged

LEMMA WaitingKeeps ==
  ASSUME NEW rows, NEW into, NEW waits, NEW waits2, HasMerged(rows, into, waits),
         \A i, j \in Point : <<i, j>> \in waits => <<i, j>> \in waits2
  PROVE  HasMerged(rows, into, waits2)
<1> SUFFICES ASSUME NEW i \in Point
             PROVE  \E S \in SUBSET Point :
                      /\ IsNearest(i, rows[i], S)
                      /\ \A j \in S : <<i, j>> \in into
                      /\ \A j \in Point : <<i, j>> \in into => j \in S \/ <<i, j>> \in waits2
  BY DEF HasMerged
<1>1. PICK S \in SUBSET Point :
        /\ IsNearest(i, rows[i], S)
        /\ \A j \in S : <<i, j>> \in into
        /\ \A j \in Point : <<i, j>> \in into => j \in S \/ <<i, j>> \in waits
  BY DEF HasMerged
<1> QED BY <1>1

-----------------------------------------------------------------------------
(* The order of a row's edges. *)

LEMMA SortedFacts ==
  ASSUME NEW m \in Nat, NEW list \in [1..m -> Point], NEW i, NEW s \in SortedEdges(list, i)
  PROVE  /\ s \in [1..m -> Point] /\ ToSet(s) = ToSet(list)
         /\ \A x, y \in 1..m : x < y => Dist[i][s[x]] <= Dist[i][s[y]]
<1>1. DOMAIN list = 1..m
  OBVIOUS
<1>2. ToSet(list) = {list[x] : x \in 1..m} /\ ToSet(list) \in SUBSET Point
  BY <1>1 DEF ToSet
<1>3. /\ s \in [1..m -> ToSet(list)]
      /\ \A x, y \in 1..m : x < y => Dist[i][s[x]] <= Dist[i][s[y]]
      /\ \A e \in ToSet(list) : Cardinality({x \in 1..m : s[x] = e}) = Cardinality({x \in 1..m : list[x] = e})
  BY <1>1 DEF SortedEdges
<1>4. s \in [1..m -> Point] /\ ToSet(s) = {s[x] : x \in 1..m}
  BY <1>2, <1>3 DEF ToSet
<1>5. IsFiniteSet(1..m)
  BY FS_Interval
<1>6. ASSUME NEW e \in ToSet(list) PROVE e \in ToSet(s)
  <2>1. PICK A, B : A = {x \in 1..m : s[x] = e} /\ B = {x \in 1..m : list[x] = e}
    OBVIOUS
  <2>2. A \in SUBSET (1..m) /\ B \in SUBSET (1..m) /\ B # {}
    BY <1>2, <2>1
  <2>3. IsFiniteSet(A) /\ IsFiniteSet(B)
    BY <1>5, <2>2, FS_Subset
  <2>4. Cardinality(A) = Cardinality(B)
    BY <1>3, <2>1
  <2>5. A # {}
    BY <2>2, <2>3, <2>4, FS_EmptySet
  <2> QED BY <1>4, <2>1, <2>5
<1>7. ToSet(s) \subseteq ToSet(list)
  BY <1>3, <1>4
<1> QED BY <1>3, <1>4, <1>6, <1>7
-----------------------------------------------------------------------------
(* The edges of a leaf, as pairs of points. *)

OfLeaf(h, leaf, x, y) ==
  \E e \in 1..Len(EdgeList(leaf, h)) :
    x = leaf[EdgeList(leaf, h)[e].tgt] /\ y = EdgeList(leaf, h)[e].src

\* ... of the list of its point i.
RowJoins(h, leaf, i, x, y) ==
  \E r \in 1..Len(Top(leaf, i, h)) :
    \/ x = leaf[i] /\ y = leaf[Top(leaf, i, h)[r]]
    \/ x = leaf[Top(leaf, i, h)[r]] /\ y = leaf[i]

LEMMA OfLeafJoins ==
  ASSUME NEW leaf, ALeaf(leaf), NEW h \in HammingLeaf, NEW x, NEW y
  PROVE  OfLeaf(h, leaf, x, y) <=> \E i \in 1..Len(leaf) : RowJoins(h, leaf, i, x, y)
<1>1. PICK s : s = EdgeList(leaf, h)
  OBVIOUS
<1>2. OfLeaf(h, leaf, x, y) <=> \E e \in 1..Len(s) : x = leaf[s[e].tgt] /\ y = s[e].src
  BY <1>1 DEF OfLeaf
<1>3. \A i \in 1..Len(leaf) : \A r \in 1..Len(Top(leaf, i, h)) :
        /\ There(leaf, i, r, h).tgt = i /\ There(leaf, i, r, h).src = leaf[Top(leaf, i, h)[r]]
        /\ Back(leaf, i, r, h).tgt = Top(leaf, i, h)[r] /\ Back(leaf, i, r, h).src = leaf[i]
  BY DEF There, Back
<1>4. ASSUME NEW e \in 1..Len(s), x = leaf[s[e].tgt], y = s[e].src
      PROVE  \E i \in 1..Len(leaf) : RowJoins(h, leaf, i, x, y)
  <2>1. PICK i \in 1..Len(leaf) : \E r \in 1..Len(Top(leaf, i, h)) :
          s[e] \in {There(leaf, i, r, h), Back(leaf, i, r, h)}
    BY <1>1, EdgesAre
  <2>2. PICK r \in 1..Len(Top(leaf, i, h)) : s[e] = There(leaf, i, r, h) \/ s[e] = Back(leaf, i, r, h)
    BY <2>1
  <2>3. \/ x = leaf[i] /\ y = leaf[Top(leaf, i, h)[r]]
        \/ x = leaf[Top(leaf, i, h)[r]] /\ y = leaf[i]
    BY <1>3, <1>4, <2>2
  <2> QED BY <2>3 DEF RowJoins
<1>5. ASSUME NEW i \in 1..Len(leaf), RowJoins(h, leaf, i, x, y)
      PROVE  \E e \in 1..Len(s) : x = leaf[s[e].tgt] /\ y = s[e].src
  <2>1. PICK r \in 1..Len(Top(leaf, i, h)) :
           \/ x = leaf[i] /\ y = leaf[Top(leaf, i, h)[r]]
           \/ x = leaf[Top(leaf, i, h)[r]] /\ y = leaf[i]
    BY <1>5 DEF RowJoins
  <2>2. PICK d \in 1..Len(s) : s[d] = There(leaf, i, r, h)
    BY <1>1, EdgesHave
  <2>3. PICK e \in 1..Len(s) : s[e] = Back(leaf, i, r, h)
    BY <1>1, EdgesHave
  <2>4. /\ s[d].tgt = i /\ s[d].src = leaf[Top(leaf, i, h)[r]]
        /\ s[e].tgt = Top(leaf, i, h)[r] /\ s[e].src = leaf[i]
    BY <1>3, <2>2, <2>3
  <2> QED BY <2>1, <2>4
<1> QED BY <1>2, <1>4, <1>5

LEMMA OfLeafPoints ==
  ASSUME NEW leaf, ALeaf(leaf), NEW h \in HammingLeaf, NEW x, NEW y, OfLeaf(h, leaf, x, y)
  PROVE  x \in Point /\ y \in Point
<1>1. PICK s : s = EdgeList(leaf, h)
  OBVIOUS
<1>2. PICK e \in 1..Len(s) : x = leaf[s[e].tgt] /\ y = s[e].src
  BY <1>1 DEF OfLeaf
<1>3. s[e].tgt \in 1..Len(leaf) /\ s[e].src \in Point
  BY <1>1, EdgesJoin
<1> QED BY <1>2, <1>3, LeafFacts

LEMMA LeafEdgesAre ==
  ASSUME NEW leaf, ALeaf(leaf), HAMMING_LEAF \in HammingLeaf, NEW x, NEW y
  PROVE  <<x, y>> \in LeafEdges(leaf) <=> OfLeaf(HAMMING_LEAF, leaf, x, y)
<1>1. PICK s : s = EdgeList(leaf, HAMMING_LEAF)
  OBVIOUS
<1>2. DOMAIN s = 1..Len(s)
  BY <1>1, EdgesAre, LenProperties
<1>3. ToSet(s) = {s[e] : e \in 1..Len(s)}
  BY <1>2 DEF ToSet
<1>4. ~ (Len(leaf) < 2)
  BY LeafFacts DEF ALeaf
<1>5. LeafEdges(leaf) = {<<leaf[e.tgt], e.src>> : e \in ToSet(s)}
  BY <1>1, <1>4 DEF LeafEdges, EdgeList
<1>6. <<x, y>> \in LeafEdges(leaf) <=> \E e \in 1..Len(s) : x = leaf[s[e].tgt] /\ y = s[e].src
  BY <1>3, <1>5
<1> QED BY <1>1, <1>6 DEF OfLeaf

LEMMA SmallLeaf ==
  ASSUME NEW leaf \in Leaves, ~ ALeaf(leaf)
  PROVE  LeafEdges(leaf) = {}
<1>1. Len(leaf) \in Nat /\ ~ (Len(leaf) > 1)
  BY LeafKnnAssumption, LenProperties DEF ALeaf
<1>2. Len(leaf) < 2
  BY <1>1
<1> QED BY <1>2 DEF LeafEdges

\* What a worker's buffers hold between gathering the edges of a leaf and leaving it.
Buffered(h, leaf, a, cnt, sp) ==
  /\ Len(leaf) * cap <= Len(a) /\ a \in Seq(Point \cup {NoEdge})
  /\ cnt \in [1..Len(leaf) -> 0..cap]
  /\ sp \in Seq(Edge(Len(leaf)))
  /\ \A i \in 1..Len(leaf) : \A c \in 0..(cnt[i] - 1) :
       \E x \in 1..Len(EdgeList(leaf, h)) :
         EdgeList(leaf, h)[x].tgt = i /\ EdgeList(leaf, h)[x].src = a[Cell(i, c)]
  /\ \A y \in 1..Len(sp) : \E x \in 1..Len(EdgeList(leaf, h)) : EdgeList(leaf, h)[x] = sp[y]

LEMMA CellFacts ==
  ASSUME NEW leaf, ALeaf(leaf), NEW h \in HammingLeaf, NEW a, NEW cnt, NEW sp,
         Buffered(h, leaf, a, cnt, sp), NEW i \in 1..Len(leaf), NEW c \in 0..(cnt[i] - 1)
  PROVE  /\ c \in 0..(cap - 1) /\ Cell(i, c) \in 1..Len(a)
         /\ a[Cell(i, c)] \in Point /\ OfLeaf(h, leaf, leaf[i], a[Cell(i, c)])
         /\ \E j \in 1..Len(leaf) : j # i /\ a[Cell(i, c)] = leaf[j]
<1>1. PICK s : s = EdgeList(leaf, h)
  OBVIOUS
<1>2. PICK x \in 1..Len(s) : s[x].tgt = i /\ s[x].src = a[Cell(i, c)]
  BY <1>1 DEF Buffered
<1>3. /\ s[x].tgt \in 1..Len(leaf) /\ s[x].src \in Point
      /\ \E j \in 1..Len(leaf) : j # s[x].tgt /\ s[x].src = leaf[j]
  BY <1>1, EdgesJoin
<1>4. OfLeaf(h, leaf, leaf[i], a[Cell(i, c)])
  BY <1>1, <1>2 DEF OfLeaf
<1>5. c \in 0..(cap - 1)
  <2>1. cnt[i] \in 0..cap
    BY DEF Buffered
  <2> QED BY <2>1, CapFacts
<1>6. Cell(i, c) \in 1..Len(a)
  <2>1. Cell(i, c) \in 1..(Len(leaf) * cap)
    BY <1>5, CellsApart, LeafFacts
  <2>2. Len(leaf) * cap <= Len(a) /\ Len(a) \in Nat /\ Len(leaf) * cap \in Nat
    BY LeafFacts, CapFacts, LenProperties DEF Buffered
  <2> QED BY <2>1, <2>2
<1> QED BY <1>2, <1>3, <1>4, <1>5, <1>6

LEMMA SpillFacts ==
  ASSUME NEW leaf, ALeaf(leaf), NEW h \in HammingLeaf, NEW a, NEW cnt, NEW sp,
         Buffered(h, leaf, a, cnt, sp), NEW y \in 1..Len(sp)
  PROVE  /\ sp[y].tgt \in 1..Len(leaf) /\ sp[y].src \in Point
         /\ OfLeaf(h, leaf, leaf[sp[y].tgt], sp[y].src)
         /\ \E j \in 1..Len(leaf) : j # sp[y].tgt /\ sp[y].src = leaf[j]
<1>1. PICK s : s = EdgeList(leaf, h)
  OBVIOUS
<1>2. PICK x \in 1..Len(s) : s[x] = sp[y]
  BY <1>1 DEF Buffered
<1>3. /\ s[x].tgt \in 1..Len(leaf) /\ s[x].src \in Point
      /\ \E j \in 1..Len(leaf) : j # s[x].tgt /\ s[x].src = leaf[j]
  BY <1>1, EdgesJoin
<1>4. OfLeaf(h, leaf, leaf[sp[y].tgt], sp[y].src)
  BY <1>1, <1>2 DEF OfLeaf
<1> QED BY <1>2, <1>3, <1>4

\* The edges of a row, as a sequence.
RowOf(a, i, q) == SubSeq(a, Cell(i, 0), Cell(i, 0) + q - 1)

LEMMA RowList ==
  ASSUME NEW leaf, ALeaf(leaf), NEW h \in HammingLeaf, NEW a, NEW cnt, NEW sp,
         Buffered(h, leaf, a, cnt, sp), NEW i \in 1..Len(leaf), NEW q, q = cnt[i]
  PROVE  /\ RowOf(a, i, q) \in [1..q -> Point] /\ RowOf(a, i, q) \in Seq(Point)
         /\ Len(RowOf(a, i, q)) = q /\ q \in Nat
         /\ \A c \in 0..(q - 1) : RowOf(a, i, q)[c + 1] = a[Cell(i, c)]
         /\ \A x \in 1..q : x - 1 \in 0..(q - 1) /\ RowOf(a, i, q)[x] = a[Cell(i, x - 1)]
         /\ ToSet(RowOf(a, i, q)) \in SUBSET Point
<1>0. PICK list : list = RowOf(a, i, q)
  OBVIOUS
<1>1. q = cnt[i] /\ q \in Nat
  BY CapFacts DEF Buffered
<1>2. PICK m : m = Cell(i, 0) /\ m \in Int
  BY CapFacts DEF Cell
<1>3. \A c \in 0..(q - 1) : Cell(i, c) = m + c
  <2>1. PICK u : u = (i - 1) * cap /\ u \in Int
    BY CapFacts
  <2> QED BY <1>1, <1>2, <2>1 DEF Cell
<1>4. \A c \in 0..(q - 1) : a[Cell(i, c)] \in Point
  BY <1>1, CellFacts
<1>5. \A x \in m..(m + q - 1) : a[x] \in Point
  <2> TAKE x \in m..(m + q - 1)
  <2>1. x - m \in 0..(q - 1) /\ m + (x - m) = x
    BY <1>1, <1>2
  <2>2. Cell(i, x - m) = x
    BY <1>3, <2>1
  <2> QED BY <1>4, <2>1, <2>2
<1>6. PICK l : l = m + q - 1 /\ l \in Int /\ list = SubSeq(a, m, l)
  <2>1. m + q - 1 \in Int /\ list = SubSeq(a, m, m + q - 1)
    BY <1>0, <1>1, <1>2 DEF RowOf
  <2> QED BY <2>1
<1>7. /\ list \in Seq(Point)
      /\ Len(list) = IF m <= l THEN l - m + 1 ELSE 0
      /\ \A x \in 1..(l - m + 1) : list[x] = a[m + x - 1]
  <2>1. \A x \in m..l : a[x] \in Point
    BY <1>5, <1>6
  <2>2. /\ SubSeq(a, m, l) \in Seq(Point)
        /\ Len(SubSeq(a, m, l)) = IF m <= l THEN l - m + 1 ELSE 0
        /\ \A x \in 1..(l - m + 1) : SubSeq(a, m, l)[x] = a[m + x - 1]
    BY <1>2, <1>6, <2>1, SubSeqProperties, SMTT(30)
  <2> QED BY <1>6, <2>2
<1>8. Len(list) = q /\ l - m + 1 = q
  <2>0. m \in Int /\ q \in Nat /\ l \in Int /\ l = m + q - 1
    BY <1>1, <1>2, <1>6
  <2>1. l - m + 1 = q
    BY <2>0
  <2>2. Len(list) = IF m <= l THEN q ELSE 0
    BY <1>7, <2>1
  <2>3. ~ (m <= l) => q = 0
    BY <1>1, <1>2, <1>6, SMTT(30)
  <2> QED BY <2>1, <2>2, <2>3
<1>9. \A c \in 0..(q - 1) : list[c + 1] = a[Cell(i, c)]
  <2> TAKE c \in 0..(q - 1)
  <2>1. c + 1 \in 1..q /\ m + (c + 1) - 1 = m + c
    BY <1>1, <1>2
  <2> QED BY <1>3, <1>7, <1>8, <2>1
<1>10. \A x \in 1..q : x - 1 \in 0..(q - 1) /\ list[x] = a[Cell(i, x - 1)]
  <2> TAKE x \in 1..q
  <2>1. x - 1 \in 0..(q - 1) /\ (x - 1) + 1 = x
    BY <1>1
  <2> QED BY <1>9, <2>1
<1>11. DOMAIN list = 1..q /\ list \in [1..q -> Point]
  BY <1>7, <1>8, LenProperties
<1>12. ToSet(list) \in SUBSET Point
  BY <1>11 DEF ToSet
<1> QED BY <1>0, <1>1, <1>7, <1>8, <1>9, <1>10, <1>11, <1>12

\* Sorting a row's edges in place.
PutBack(a, i, list) ==
  [x \in DOMAIN a |-> IF x \in Cell(i, 0)..(Cell(i, 0) + Len(list) - 1)
                      THEN list[x - Cell(i, 0) + 1] ELSE a[x]]

\* a2 is a with the edges of row i in order.
InOrder(a2, leaf, h, a, cnt, sp, i, p) ==
  /\ Buffered(h, leaf, a2, cnt, sp)
  /\ \A c, d \in 0..(cnt[i] - 1) : c < d => Dist[p][a2[Cell(i, c)]] <= Dist[p][a2[Cell(i, d)]]
  /\ \A c \in 0..(cnt[i] - 1) : \E d \in 0..(cnt[i] - 1) : a2[Cell(i, d)] = a[Cell(i, c)]
  /\ \A j \in 1..Len(leaf) : j # i => \A c \in 0..(cnt[j] - 1) : a2[Cell(j, c)] = a[Cell(j, c)]

LEMMA SortedBuffer ==
  ASSUME NEW leaf, ALeaf(leaf), NEW h \in HammingLeaf, NEW a, NEW cnt, NEW sp,
         Buffered(h, leaf, a, cnt, sp), NEW i \in 1..Len(leaf),
         NEW p, NEW list \in SortedEdges(RowOf(a, i, cnt[i]), p)
  PROVE  InOrder(PutBack(a, i, list), leaf, h, a, cnt, sp, i, p)
<1>0. PICK a2 : a2 = PutBack(a, i, list)
  OBVIOUS
<1>1. PICK q : q = cnt[i] /\ q \in 0..cap /\ q \in Nat
  BY CapFacts, SMTT(30) DEF Buffered
<1>a. PICK old : old = RowOf(a, i, q)
  OBVIOUS
<1>2. /\ old \in [1..q -> Point]
      /\ \A c \in 0..(q - 1) : old[c + 1] = a[Cell(i, c)]
      /\ \A x \in 1..q : x - 1 \in 0..(q - 1) /\ old[x] = a[Cell(i, x - 1)]
  BY <1>1, <1>a, RowList
<1>3. /\ list \in [1..q -> Point] /\ ToSet(list) = ToSet(old)
      /\ \A x, y \in 1..q : x < y => Dist[p][list[x]] <= Dist[p][list[y]]
  <2>1. list \in SortedEdges(old, p)
    BY <1>1, <1>a
  <2> QED BY <1>1, <1>2, <2>1, SortedFacts
<1>4. Len(list) = q
  BY <1>1, <1>3, RowOfLength
<1>5. PICK m : m = Cell(i, 0) /\ m \in Int
  BY CapFacts DEF Cell
<1>6. \A c \in 0..(q - 1) : Cell(i, c) = m + c /\ c \in 0..(cap - 1)
  <2>1. PICK u : u = (i - 1) * cap /\ u \in Int
    BY CapFacts
  <2>2. \A c \in 0..(q - 1) : Cell(i, c) = m + c
    BY <1>1, <1>5, <2>1 DEF Cell
  <2>3. \A c \in 0..(q - 1) : c \in 0..(cap - 1)
    BY <1>1, CapFacts
  <2> QED BY <2>2, <2>3
<1>7. a \in Seq(Point \cup {NoEdge}) /\ DOMAIN a = 1..Len(a) /\ Len(a) \in Nat
  BY LenProperties DEF Buffered
<1>8. \A x \in 1..Len(a) : a2[x] = IF x \in m..(m + q - 1) THEN list[x - m + 1] ELSE a[x]
  BY <1>0, <1>4, <1>5, <1>7 DEF PutBack
<1>9. ASSUME NEW c \in 0..(q - 1) PROVE a2[Cell(i, c)] = list[c + 1] /\ c + 1 \in 1..q
  <2>1. Cell(i, c) \in 1..Len(a)
    BY <1>1, CellFacts
  <2>2. Cell(i, c) = m + c /\ m + c \in m..(m + q - 1) /\ (m + c) - m + 1 = c + 1 /\ c + 1 \in 1..q
    <3>1. Cell(i, c) = m + c
      BY <1>6, <1>9
    <3>2. m + c \in m..(m + q - 1) /\ (m + c) - m + 1 = c + 1 /\ c + 1 \in 1..q
      BY <1>1, <1>5, <1>9
    <3> QED BY <3>1, <3>2
  <2> QED BY <1>8, <2>1, <2>2
<1>10. ASSUME NEW j \in 1..Len(leaf), j # i, NEW c \in 0..(cnt[j] - 1)
       PROVE  a2[Cell(j, c)] = a[Cell(j, c)]
  <2>1. Cell(j, c) \in 1..Len(a) /\ c \in 0..(cap - 1)
    BY CellFacts
  <2>2. ASSUME Cell(j, c) \in m..(m + q - 1) PROVE FALSE
    <3>1. PICK x : x = Cell(j, c) /\ x \in 1..Len(a) /\ x \in m..(m + q - 1)
      BY <2>1, <2>2
    <3>2. PICK d : d = x - m /\ d \in 0..(q - 1) /\ m + d = x
      BY <1>1, <1>5, <1>7, <3>1, SMTT(30)
    <3>3. Cell(i, d) = Cell(j, c) /\ d \in 0..(cap - 1)
      BY <1>6, <3>1, <3>2
    <3> QED BY <1>10, <2>1, <3>3, CellsApart, LeafFacts
  <2> QED BY <1>8, <2>1, <2>2
<1>11. \A v : v \in ToSet(list) <=> \E x \in 1..q : list[x] = v
  BY <1>3 DEF ToSet
<1>12. \A v : v \in ToSet(old) <=> \E x \in 1..q : old[x] = v
  BY <1>2 DEF ToSet
<1>13. ASSUME NEW c \in 0..(q - 1) PROVE \E d \in 0..(q - 1) : a2[Cell(i, c)] = a[Cell(i, d)]
  <2>1. list[c + 1] \in ToSet(old)
    BY <1>3, <1>9, <1>11, <1>13
  <2>2. PICK x \in 1..q : old[x] = list[c + 1]
    BY <1>12, <2>1
  <2> QED BY <1>2, <1>9, <1>13, <2>2
<1>14. ASSUME NEW c \in 0..(q - 1) PROVE \E d \in 0..(q - 1) : a2[Cell(i, d)] = a[Cell(i, c)]
  <2>1. c + 1 \in 1..q /\ old[c + 1] = a[Cell(i, c)]
    BY <1>2, <1>9, <1>14
  <2>2. old[c + 1] \in ToSet(list)
    BY <1>3, <1>12, <2>1
  <2>3. PICK x \in 1..q : list[x] = old[c + 1]
    BY <1>11, <2>2
  <2>4. x - 1 \in 0..(q - 1) /\ (x - 1) + 1 = x
    BY <1>1
  <2>5. a2[Cell(i, x - 1)] = list[x]
    BY <1>9, <2>4
  <2> QED BY <2>1, <2>3, <2>4, <2>5
<1>15. ASSUME NEW c \in 0..(q - 1), NEW d \in 0..(q - 1), c < d
       PROVE  Dist[p][a2[Cell(i, c)]] <= Dist[p][a2[Cell(i, d)]]
  <2>1. c + 1 < d + 1
    BY <1>1, <1>15
  <2> QED BY <1>3, <1>9, <2>1
<1>16. a2 \in Seq(Point \cup {NoEdge}) /\ Len(a2) = Len(a)
  <2>1. PICK l : l = Len(a) /\ l \in Nat
    BY <1>7
  <2>2. \A x \in 1..l : a2[x] \in Point \cup {NoEdge}
    <3> TAKE x \in 1..l
    <3>1. a[x] \in Point \cup {NoEdge}
      BY <1>7, <2>1, ElementOfSeq
    <3>2. ASSUME x \in m..(m + q - 1) PROVE list[x - m + 1] \in Point
      <4>1. x - m + 1 \in 1..q
        BY <1>1, <1>5, <2>1, <3>2
      <4> QED BY <1>3, <4>1
    <3> QED BY <1>8, <2>1, <3>1, <3>2
  <2>3. a2 \in [1..l -> Point \cup {NoEdge}]
    BY <1>0, <1>7, <2>1, <2>2 DEF PutBack
  <2> QED BY <2>1, <2>3, RowOfLength
<1>17. ASSUME NEW j \in 1..Len(leaf), NEW c \in 0..(cnt[j] - 1)
       PROVE  \E x \in 1..Len(EdgeList(leaf, h)) :
                EdgeList(leaf, h)[x].tgt = j /\ EdgeList(leaf, h)[x].src = a2[Cell(j, c)]
  <2>1. \E d \in 0..(cnt[j] - 1) : a2[Cell(j, c)] = a[Cell(j, d)]
    <3>1. CASE j = i
      BY <1>1, <1>13, <1>17, <3>1
    <3>2. CASE j # i
      BY <1>10, <1>17, <3>2
    <3> QED BY <3>1, <3>2
  <2>2. PICK d \in 0..(cnt[j] - 1) : a2[Cell(j, c)] = a[Cell(j, d)]
    BY <2>1
  <2>3. \E x \in 1..Len(EdgeList(leaf, h)) :
          EdgeList(leaf, h)[x].tgt = j /\ EdgeList(leaf, h)[x].src = a[Cell(j, d)]
    BY <2>2 DEF Buffered
  <2> QED BY <2>2, <2>3
<1>18. Buffered(h, leaf, a2, cnt, sp)
  BY <1>16, <1>17 DEF Buffered
<1>19. InOrder(a2, leaf, h, a, cnt, sp, i, p)
  BY <1>1, <1>10, <1>14, <1>15, <1>18 DEF InOrder
<1> QED BY <1>0, <1>19
-----------------------------------------------------------------------------
(* A worker at a leaf: what its state promises, and what it has yet to merge. *)

WorkerOK(h, leaf, ph, loc, a, cnt, sp, fw) ==
  /\ ph # "idle" => ALeaf(leaf)
  /\ ph \in {"forward", "reverse"} => loc \in 1..Len(leaf) /\ ~ h
  /\ ph = "gather" => loc = 1
  /\ ph = "sort" => loc \in 1..(Len(leaf) + 1)
  /\ ph = "merge" =>
       /\ loc \in 1..Len(leaf)
       /\ \A c, d \in 0..(cnt[loc] - 1) :
            c < d => Dist[leaf[loc]][a[Cell(loc, c)]] <= Dist[leaf[loc]][a[Cell(loc, d)]]
  /\ ph \in {"sort", "merge"} => Buffered(h, leaf, a, cnt, sp)
  /\ ph = "reverse" =>
       /\ \A m \in 1..Len(fw) : \E r \in 1..Len(Top(leaf, loc, h)) : fw[m] = leaf[Top(leaf, loc, h)[r]]
       /\ \A m, n \in 1..Len(fw) : m < n => Dist[leaf[loc]][fw[m]] <= Dist[leaf[loc]][fw[n]]

\* y is still to be offered to the row of x.
WaitsAt(h, leaf, ph, loc, a, cnt, sp, fw, x, y) ==
  \/ ph = "gather" /\ OfLeaf(h, leaf, x, y)
  \/ ph = "forward" /\ \E i \in loc..Len(leaf) : RowJoins(h, leaf, i, x, y)
  \/ ph = "reverse" /\ \E i \in (loc + 1)..Len(leaf) : RowJoins(h, leaf, i, x, y)
  \/ ph = "reverse" /\ y = leaf[loc] /\ \E m \in 1..Len(fw) : x = fw[m]
  \/ /\ ph \in {"sort", "merge"}
     /\ \E i \in loc..Len(leaf) : x = leaf[i] /\ \E c \in 0..(cnt[i] - 1) : y = a[Cell(i, c)]
  \/ /\ ph \in {"sort", "merge"}
     /\ \E m \in 1..Len(sp) : x = leaf[sp[m].tgt] /\ y = sp[m].src

LEMMA TakeWorks ==
  ASSUME NEW leaf \in Leaves, NEW h \in HammingLeaf, NEW a, NEW cnt, NEW sp, NEW fw,
         NEW ph, ph = IF Len(leaf) < 2 THEN "idle" ELSE IF h THEN "gather" ELSE "forward"
  PROVE  /\ WorkerOK(h, leaf, ph, 1, a, cnt, sp, fw)
         /\ ALeaf(leaf) => \A x, y : OfLeaf(h, leaf, x, y) => WaitsAt(h, leaf, ph, 1, a, cnt, sp, fw, x, y)
<1>1. leaf \in Seq(Point) /\ Len(leaf) \in Nat /\ h \in BOOLEAN
  BY LeafKnnAssumption, LenProperties
<1>2. CASE Len(leaf) < 2
  <2>1. ph = "idle" /\ ~ ALeaf(leaf)
    BY <1>1, <1>2 DEF ALeaf
  <2> QED BY <2>1 DEF WorkerOK
<1>3. CASE ~ (Len(leaf) < 2)
  <2>1. ALeaf(leaf) /\ 1 \in 1..Len(leaf)
    BY <1>1, <1>3 DEF ALeaf
  <2>2. ph = IF h THEN "gather" ELSE "forward"
    BY <1>3
  <2>3. WorkerOK(h, leaf, ph, 1, a, cnt, sp, fw)
    BY <1>1, <2>1, <2>2 DEF WorkerOK
  <2>4. ASSUME NEW x, NEW y, OfLeaf(h, leaf, x, y)
        PROVE  WaitsAt(h, leaf, ph, 1, a, cnt, sp, fw, x, y)
    <3>1. \E i \in 1..Len(leaf) : RowJoins(h, leaf, i, x, y)
      BY <2>1, <2>4, OfLeafJoins
    <3> QED BY <1>1, <2>2, <2>4, <3>1 DEF WaitsAt
  <2> QED BY <2>3, <2>4
<1> QED BY <1>2, <1>3

LEMMA ForwardWorks ==
  ASSUME NEW leaf, NEW h \in HammingLeaf, NEW loc, NEW a, NEW cnt, NEW sp, NEW fw,
         WorkerOK(h, leaf, "forward", loc, a, cnt, sp, fw),
         NEW fw2, fw2 = [r \in 1..Len(Top(leaf, loc, h)) |-> leaf[Top(leaf, loc, h)[r]]]
  PROVE  /\ ALeaf(leaf) /\ leaf[loc] \in Point
         /\ WorkerOK(h, leaf, "reverse", loc, a, cnt, sp, fw2)
         /\ fw2 \in Seq(Point) /\ ToSet(fw2) \in SUBSET Point
         /\ \A y \in ToSet(fw2) : OfLeaf(h, leaf, leaf[loc], y)
         /\ \A x, y : WaitsAt(h, leaf, "forward", loc, a, cnt, sp, fw, x, y) =>
              \/ WaitsAt(h, leaf, "reverse", loc, a, cnt, sp, fw2, x, y)
              \/ x = leaf[loc] /\ y \in ToSet(fw2)
<1>1. ALeaf(leaf) /\ loc \in 1..Len(leaf) /\ ~ h /\ leaf[loc] \in Point /\ Len(leaf) \in Nat
  BY LeafFacts DEF WorkerOK
<1>2. PICK top : top = Top(leaf, loc, h)
  OBVIOUS
<1>3. /\ Len(top) \in Nat /\ \A r \in 1..Len(top) : top[r] \in 1..Len(leaf)
      /\ \A r, q \in 1..Len(top) : r < q => Dist[leaf[loc]][leaf[top[r]]] <= Dist[leaf[loc]][leaf[top[q]]]
  BY <1>1, <1>2, TopIsList
<1>4. /\ fw2 \in Seq(Point) /\ Len(fw2) = Len(top) /\ DOMAIN fw2 = 1..Len(top)
      /\ \A r \in 1..Len(top) : fw2[r] = leaf[top[r]]
  <2>1. \A r \in 1..Len(top) : leaf[top[r]] \in Point
    BY <1>1, <1>3, LeafFacts
  <2>2. fw2 \in [1..Len(top) -> Point]
    BY <1>2, <2>1
  <2> QED BY <1>2, <1>3, <2>2, RowOfLength
<1>5. WorkerOK(h, leaf, "reverse", loc, a, cnt, sp, fw2)
  <2>1. \A m \in 1..Len(fw2) : \E r \in 1..Len(Top(leaf, loc, h)) : fw2[m] = leaf[Top(leaf, loc, h)[r]]
    BY <1>2, <1>4
  <2>2. ASSUME NEW m \in 1..Len(fw2), NEW n \in 1..Len(fw2), m < n
        PROVE  Dist[leaf[loc]][fw2[m]] <= Dist[leaf[loc]][fw2[n]]
    <3>1. m \in 1..Len(top) /\ n \in 1..Len(top)
      BY <1>4
    <3>2. Dist[leaf[loc]][leaf[top[m]]] <= Dist[leaf[loc]][leaf[top[n]]]
      BY <1>3, <2>2, <3>1
    <3>3. fw2[m] = leaf[top[m]] /\ fw2[n] = leaf[top[n]]
      BY <1>4, <3>1
    <3> QED BY <3>2, <3>3
  <2> QED BY <1>1, <2>1, <2>2 DEF WorkerOK
<1>6. \A y : y \in ToSet(fw2) <=> \E r \in 1..Len(top) : y = leaf[top[r]]
  <2>1. ToSet(fw2) = {fw2[r] : r \in 1..Len(top)}
    BY <1>4, Zenon DEF ToSet
  <2>2. \A r \in 1..Len(top) : fw2[r] = leaf[top[r]]
    BY <1>4
  <2>3. ASSUME NEW y \in ToSet(fw2) PROVE \E r \in 1..Len(top) : y = leaf[top[r]]
    <3>1. PICK r \in 1..Len(top) : y = fw2[r]
      BY <2>1
    <3> QED BY <2>2, <3>1
  <2>4. ASSUME NEW r \in 1..Len(top) PROVE leaf[top[r]] \in ToSet(fw2)
    <3>1. fw2[r] \in ToSet(fw2)
      BY <2>1
    <3> QED BY <2>2, <3>1
  <2> QED BY <2>3, <2>4
<1>7. ToSet(fw2) \in SUBSET Point
  <2>1. \A r \in 1..Len(top) : leaf[top[r]] \in Point
    BY <1>1, <1>3, LeafFacts
  <2> QED BY <1>6, <2>1
<1>8. ASSUME NEW y \in ToSet(fw2) PROVE OfLeaf(h, leaf, leaf[loc], y)
  <2>1. RowJoins(h, leaf, loc, leaf[loc], y)
    BY <1>2, <1>6, <1>8 DEF RowJoins
  <2> QED BY <1>1, <2>1, OfLeafJoins
<1>9. ASSUME NEW x, NEW y, WaitsAt(h, leaf, "forward", loc, a, cnt, sp, fw, x, y)
      PROVE  \/ WaitsAt(h, leaf, "reverse", loc, a, cnt, sp, fw2, x, y)
             \/ x = leaf[loc] /\ y \in ToSet(fw2)
  <2>1. PICK i \in loc..Len(leaf) : RowJoins(h, leaf, i, x, y)
    BY <1>9 DEF WaitsAt
  <2>2. CASE i \in (loc + 1)..Len(leaf)
    BY <2>1, <2>2 DEF WaitsAt
  <2>3. CASE i = loc
    <3>1. PICK r \in 1..Len(top) : \/ x = leaf[loc] /\ y = leaf[top[r]]
                                   \/ x = leaf[top[r]] /\ y = leaf[loc]
      BY <1>2, <2>1, <2>3 DEF RowJoins
    <3>2. CASE x = leaf[loc] /\ y = leaf[top[r]]
      BY <1>6, <3>2
    <3>3. CASE x = leaf[top[r]] /\ y = leaf[loc]
      <4>1. r \in 1..Len(fw2) /\ x = fw2[r]
        BY <1>4, <3>3
      <4> QED BY <3>3, <4>1 DEF WaitsAt
    <3> QED BY <3>1, <3>2, <3>3
  <2>4. i = loc \/ i \in (loc + 1)..Len(leaf)
    BY <1>1
  <2> QED BY <2>2, <2>3, <2>4
<1> QED BY <1>1, <1>4, <1>5, <1>7, <1>8, <1>9

LEMMA ReverseWorks ==
  ASSUME NEW leaf, NEW h \in HammingLeaf, NEW loc, NEW a, NEW cnt, NEW sp, NEW fw \in Seq(Point),
         fw # <<>>, WorkerOK(h, leaf, "reverse", loc, a, cnt, sp, fw)
  PROVE  /\ ALeaf(leaf) /\ leaf[loc] \in Point /\ Head(fw) \in Point /\ Tail(fw) \in Seq(Point)
         /\ WorkerOK(h, leaf, "reverse", loc, a, cnt, sp, Tail(fw))
         /\ OfLeaf(h, leaf, Head(fw), leaf[loc])
         /\ \A x, y : WaitsAt(h, leaf, "reverse", loc, a, cnt, sp, fw, x, y) =>
              \/ WaitsAt(h, leaf, "reverse", loc, a, cnt, sp, Tail(fw), x, y)
              \/ x = Head(fw) /\ y = leaf[loc]
<1>1. ALeaf(leaf) /\ loc \in 1..Len(leaf) /\ ~ h /\ leaf[loc] \in Point /\ Len(leaf) \in Nat
  BY LeafFacts DEF WorkerOK
<1>2. PICK tl : tl = Tail(fw)
  OBVIOUS
<1>3. PICK l : l = Len(fw) /\ l \in Nat \ {0}
  BY EmptySeq, LenProperties
<1>4. /\ Head(fw) \in Point /\ tl \in Seq(Point) /\ Len(tl) = l - 1 /\ Head(fw) = fw[1]
      /\ \A m \in 1..(l - 1) : tl[m] = fw[m + 1]
  <2>1. Head(fw) = fw[1]
    BY DEF Head
  <2> QED BY <1>2, <1>3, <2>1, HeadTailProperties
<1>5. /\ \A m \in 1..l : \E r \in 1..Len(Top(leaf, loc, h)) : fw[m] = leaf[Top(leaf, loc, h)[r]]
      /\ \A m, n \in 1..l : m < n => Dist[leaf[loc]][fw[m]] <= Dist[leaf[loc]][fw[n]]
  BY <1>3 DEF WorkerOK
<1>6. \A m \in 1..(l - 1) : m + 1 \in 1..l
  BY <1>3
<1>7. WorkerOK(h, leaf, "reverse", loc, a, cnt, sp, tl)
  <2>1. \A m \in 1..Len(tl) : \E r \in 1..Len(Top(leaf, loc, h)) : tl[m] = leaf[Top(leaf, loc, h)[r]]
    <3>1. \A m \in 1..(l - 1) : \E r \in 1..Len(Top(leaf, loc, h)) : tl[m] = leaf[Top(leaf, loc, h)[r]]
      <4> TAKE m \in 1..(l - 1)
      <4>1. PICK p : p = m + 1 /\ p \in 1..l /\ tl[m] = fw[p]
        BY <1>4, <1>6
      <4> QED BY <1>5, <4>1
    <3>2. Len(tl) = l - 1
      BY <1>4
    <3> QED BY <3>1, <3>2, Zenon
  <2>2. ASSUME NEW m \in 1..Len(tl), NEW n \in 1..Len(tl), m < n
        PROVE  Dist[leaf[loc]][tl[m]] <= Dist[leaf[loc]][tl[n]]
    <3>1. m + 1 \in 1..l /\ n + 1 \in 1..l /\ m + 1 < n + 1
      BY <1>3, <1>4, <2>2
    <3>2. tl[m] = fw[m + 1] /\ tl[n] = fw[n + 1]
      BY <1>4
    <3> QED BY <1>5, <3>1, <3>2
  <2> QED BY <1>1, <2>1, <2>2 DEF WorkerOK
<1>8. OfLeaf(h, leaf, Head(fw), leaf[loc])
  <2>1. 1 \in 1..l
    BY <1>3
  <2>2. RowJoins(h, leaf, loc, fw[1], leaf[loc])
    BY <1>5, <2>1 DEF RowJoins
  <2> QED BY <1>1, <1>4, <2>2, OfLeafJoins
<1>9. ASSUME NEW x, NEW y, WaitsAt(h, leaf, "reverse", loc, a, cnt, sp, fw, x, y)
      PROVE  \/ WaitsAt(h, leaf, "reverse", loc, a, cnt, sp, tl, x, y)
             \/ x = Head(fw) /\ y = leaf[loc]
  <2>1. CASE \E i \in (loc + 1)..Len(leaf) : RowJoins(h, leaf, i, x, y)
    BY <2>1 DEF WaitsAt
  <2>2. CASE y = leaf[loc] /\ \E m \in 1..Len(fw) : x = fw[m]
    <3>1. PICK m \in 1..l : x = fw[m]
      BY <1>3, <2>2
    <3>2. CASE m = 1
      BY <1>4, <2>2, <3>1, <3>2
    <3>3. CASE m # 1
      <4>1. m - 1 \in 1..(l - 1) /\ (m - 1) + 1 = m
        BY <1>3, <3>3
      <4>2. m - 1 \in 1..Len(tl) /\ tl[m - 1] = x
        BY <1>4, <3>1, <4>1
      <4> QED BY <2>2, <4>2 DEF WaitsAt
    <3> QED BY <3>2, <3>3
  <2> QED BY <1>9, <2>1, <2>2 DEF WaitsAt
<1> QED BY <1>1, <1>2, <1>4, <1>7, <1>8, <1>9

LEMMA NextRowWorks ==
  ASSUME NEW leaf, NEW h \in HammingLeaf, NEW loc, NEW a, NEW cnt, NEW sp, NEW fw, fw = <<>>,
         WorkerOK(h, leaf, "reverse", loc, a, cnt, sp, fw),
         NEW ph, ph = IF loc = Len(leaf) THEN "idle" ELSE "forward"
  PROVE  /\ WorkerOK(h, leaf, ph, loc + 1, a, cnt, sp, fw)
         /\ \A x, y : WaitsAt(h, leaf, "reverse", loc, a, cnt, sp, fw, x, y) =>
                        WaitsAt(h, leaf, ph, loc + 1, a, cnt, sp, fw, x, y)
<1>1. ALeaf(leaf) /\ loc \in 1..Len(leaf) /\ ~ h /\ Len(leaf) \in Nat
  BY LeafFacts DEF WorkerOK
<1>2. Len(fw) = 0 /\ 1..0 = {}
  OBVIOUS
<1>3. \A x, y : WaitsAt(h, leaf, "reverse", loc, a, cnt, sp, fw, x, y) =>
                  \E i \in (loc + 1)..Len(leaf) : RowJoins(h, leaf, i, x, y)
  BY <1>2 DEF WaitsAt
<1>4. CASE loc = Len(leaf)
  <2>1. (loc + 1)..Len(leaf) = {} /\ ph = "idle"
    BY <1>1, <1>4
  <2>2. WorkerOK(h, leaf, ph, loc + 1, a, cnt, sp, fw)
    BY <2>1 DEF WorkerOK
  <2> QED BY <1>3, <2>1, <2>2
<1>5. CASE loc # Len(leaf)
  <2>1. loc + 1 \in 1..Len(leaf) /\ ph = "forward"
    BY <1>1, <1>5
  <2>2. WorkerOK(h, leaf, ph, loc + 1, a, cnt, sp, fw)
    BY <1>1, <2>1 DEF WorkerOK
  <2>3. \A x, y : (\E i \in (loc + 1)..Len(leaf) : RowJoins(h, leaf, i, x, y)) =>
                     WaitsAt(h, leaf, ph, loc + 1, a, cnt, sp, fw, x, y)
    BY <2>1 DEF WaitsAt
  <2> QED BY <1>3, <2>2, <2>3
<1> QED BY <1>4, <1>5

LEMMA GatherWorks ==
  ASSUME NEW leaf, NEW h \in HammingLeaf, NEW loc, NEW a \in Seq(Point \cup {NoEdge}), NEW cnt, NEW sp,
         NEW fw, WorkerOK(h, leaf, "gather", loc, a, cnt, sp, fw),
         NEW b, b = Pushed(Grown(a, Len(leaf)), Emptied(cnt, Len(leaf)), EdgesOf[leaf][h])
  PROVE  /\ WorkerOK(h, leaf, "sort", loc, b[1], b[2], b[3], fw)
         /\ b[1] \in Seq(Point \cup {NoEdge}) /\ b[2] \in Seq(Nat)
         /\ b[3] \in Seq([tgt : Nat, src : Point])
         /\ \A x, y : WaitsAt(h, leaf, "gather", loc, a, cnt, sp, fw, x, y) =>
                        WaitsAt(h, leaf, "sort", loc, b[1], b[2], b[3], fw, x, y)
<1>1. ALeaf(leaf) /\ loc = 1 /\ Len(leaf) \in Nat
  BY LeafFacts DEF WorkerOK
<1>2. PICK s : s = EdgeList(leaf, h)
  OBVIOUS
<1>3. PICK a2, cnt2, sp2 :
           /\ Pushed(Grown(a, Len(leaf)), Emptied(cnt, Len(leaf)), s) = <<a2, cnt2, sp2>>
           /\ Holds(a2, cnt2, sp2, Len(s), Len(leaf), s, Len(a2))
           /\ Len(leaf) * cap <= Len(a2)
  BY <1>1, <1>2, GatherHolds
<1>4. b[1] = a2 /\ b[2] = cnt2 /\ b[3] = sp2
  BY <1>2, <1>3 DEF EdgeList
<1>5. Buffered(h, leaf, a2, cnt2, sp2)
  BY <1>2, <1>3 DEF Buffered, Holds
<1>6. WorkerOK(h, leaf, "sort", loc, a2, cnt2, sp2, fw)
  <2>1. 1 \in 1..(Len(leaf) + 1)
    BY <1>1
  <2> QED BY <1>1, <1>5, <2>1 DEF WorkerOK
<1>7. a2 \in Seq(Point \cup {NoEdge}) /\ cnt2 \in Seq(Nat) /\ sp2 \in Seq([tgt : Nat, src : Point])
  <2>1. cnt2 \in [1..Len(leaf) -> 0..cap] /\ sp2 \in Seq(Edge(Len(leaf))) /\ a2 \in Seq(Point \cup {NoEdge})
    BY <1>5 DEF Buffered
  <2>2. cnt2 \in [1..Len(leaf) -> Nat]
    BY <2>1, CapFacts
  <2>3. Edge(Len(leaf)) \subseteq [tgt : Nat, src : Point]
    BY <1>1 DEF Edge
  <2>4. sp2 \in Seq([tgt : Nat, src : Point])
    BY <2>1, <2>3, SeqMonotonic
  <2> QED BY <1>1, <2>1, <2>2, <2>4, RowOfLength
<1>8. ASSUME NEW x, NEW y, WaitsAt(h, leaf, "gather", loc, a, cnt, sp, fw, x, y)
      PROVE  WaitsAt(h, leaf, "sort", loc, a2, cnt2, sp2, fw, x, y)
  <2>1. PICK e \in 1..Len(s) : x = leaf[s[e].tgt] /\ y = s[e].src
    BY <1>2, <1>8 DEF WaitsAt, OfLeaf
  <2>2. s[e].tgt \in loc..Len(leaf)
    BY <1>1, <1>2, EdgesJoin
  <2>3. \/ \E c \in 0..(cnt2[s[e].tgt] - 1) : a2[Cell(s[e].tgt, c)] = s[e].src
        \/ \E z \in 1..Len(sp2) : sp2[z] = s[e]
    BY <1>3 DEF Holds
  <2>4. CASE \E c \in 0..(cnt2[s[e].tgt] - 1) : a2[Cell(s[e].tgt, c)] = s[e].src
    BY <2>1, <2>2, <2>4 DEF WaitsAt
  <2>5. CASE \E z \in 1..Len(sp2) : sp2[z] = s[e]
    BY <2>1, <2>5 DEF WaitsAt
  <2> QED BY <2>3, <2>4, <2>5
<1> QED BY <1>4, <1>6, <1>7, <1>8

LEMMA SortWorks ==
  ASSUME NEW leaf, NEW h \in HammingLeaf, NEW loc, NEW a, NEW cnt, NEW sp, NEW fw,
         WorkerOK(h, leaf, "sort", loc, a, cnt, sp, fw), loc <= Len(leaf),
         NEW list \in SortedEdges(RowOf(a, loc, cnt[loc]), leaf[loc]),
         NEW a2, a2 = PutBack(a, loc, list)
  PROVE  /\ WorkerOK(h, leaf, "merge", loc, a2, cnt, sp, fw) /\ a2 \in Seq(Point \cup {NoEdge})
         /\ \A x, y : WaitsAt(h, leaf, "sort", loc, a, cnt, sp, fw, x, y) =>
                        WaitsAt(h, leaf, "merge", loc, a2, cnt, sp, fw, x, y)
<1>1. ALeaf(leaf) /\ Len(leaf) \in Nat /\ loc \in 1..Len(leaf) /\ Buffered(h, leaf, a, cnt, sp)
  <2>1. ALeaf(leaf) /\ loc \in 1..(Len(leaf) + 1) /\ Buffered(h, leaf, a, cnt, sp)
    BY DEF WorkerOK
  <2>2. Len(leaf) \in Nat
    BY <2>1, LeafFacts
  <2> QED BY <2>1, <2>2
<1>2. /\ Buffered(h, leaf, a2, cnt, sp)
      /\ \A c, d \in 0..(cnt[loc] - 1) :
           c < d => Dist[leaf[loc]][a2[Cell(loc, c)]] <= Dist[leaf[loc]][a2[Cell(loc, d)]]
      /\ \A c \in 0..(cnt[loc] - 1) : \E d \in 0..(cnt[loc] - 1) : a2[Cell(loc, d)] = a[Cell(loc, c)]
      /\ \A j \in 1..Len(leaf) : j # loc => \A c \in 0..(cnt[j] - 1) : a2[Cell(j, c)] = a[Cell(j, c)]
  <2>1. InOrder(a2, leaf, h, a, cnt, sp, loc, leaf[loc])
    BY <1>1, SortedBuffer
  <2> QED BY <2>1 DEF InOrder
<1>3. WorkerOK(h, leaf, "merge", loc, a2, cnt, sp, fw)
  BY <1>1, <1>2 DEF WorkerOK
<1>4. a2 \in Seq(Point \cup {NoEdge})
  BY <1>2 DEF Buffered
<1>5. ASSUME NEW x, NEW y, WaitsAt(h, leaf, "sort", loc, a, cnt, sp, fw, x, y)
      PROVE  WaitsAt(h, leaf, "merge", loc, a2, cnt, sp, fw, x, y)
  <2>1. CASE \E i \in loc..Len(leaf) : x = leaf[i] /\ \E c \in 0..(cnt[i] - 1) : y = a[Cell(i, c)]
    <3>1. PICK i \in loc..Len(leaf) : x = leaf[i] /\ \E c \in 0..(cnt[i] - 1) : y = a[Cell(i, c)]
      BY <2>1
    <3>2. i \in 1..Len(leaf)
      BY <1>1
    <3>3. \E c \in 0..(cnt[i] - 1) : y = a2[Cell(i, c)]
      <4>1. PICK c \in 0..(cnt[i] - 1) : y = a[Cell(i, c)]
        BY <3>1
      <4>2. CASE i = loc
        BY <1>2, <4>1, <4>2
      <4>3. CASE i # loc
        BY <1>2, <3>2, <4>1, <4>3
      <4> QED BY <4>2, <4>3
    <3> QED BY <3>1, <3>3 DEF WaitsAt
  <2>2. CASE \E m \in 1..Len(sp) : x = leaf[sp[m].tgt] /\ y = sp[m].src
    BY <2>2 DEF WaitsAt
  <2> QED BY <1>5, <2>1, <2>2 DEF WaitsAt
<1> QED BY <1>3, <1>4, <1>5

LEMMA MergeWorks ==
  ASSUME NEW leaf, NEW h \in HammingLeaf, NEW loc, NEW a, NEW cnt, NEW sp, NEW fw,
         WorkerOK(h, leaf, "merge", loc, a, cnt, sp, fw),
         NEW L, L = ToSet(RowOf(a, loc, cnt[loc]))
  PROVE  /\ ALeaf(leaf) /\ leaf[loc] \in Point /\ L \in SUBSET Point
         /\ WorkerOK(h, leaf, "sort", loc + 1, a, cnt, sp, fw)
         /\ \A y \in L : OfLeaf(h, leaf, leaf[loc], y)
         /\ \A x, y : WaitsAt(h, leaf, "merge", loc, a, cnt, sp, fw, x, y) =>
              \/ WaitsAt(h, leaf, "sort", loc + 1, a, cnt, sp, fw, x, y)
              \/ x = leaf[loc] /\ y \in L
<1>1. /\ ALeaf(leaf) /\ loc \in 1..Len(leaf) /\ leaf[loc] \in Point /\ Len(leaf) \in Nat
      /\ Buffered(h, leaf, a, cnt, sp)
  BY LeafFacts DEF WorkerOK
<1>2. PICK q, list : q = cnt[loc] /\ list = RowOf(a, loc, q)
  OBVIOUS
<1>3. /\ list \in [1..q -> Point] /\ q \in Nat
      /\ \A c \in 0..(q - 1) : list[c + 1] = a[Cell(loc, c)]
      /\ \A x \in 1..q : x - 1 \in 0..(q - 1) /\ list[x] = a[Cell(loc, x - 1)]
      /\ ToSet(list) \in SUBSET Point
  BY <1>1, <1>2, RowList
<1>4. \A y : y \in L <=> \E x \in 1..q : list[x] = y
  BY <1>2, <1>3 DEF ToSet
<1>5. \A y : y \in L <=> \E c \in 0..(q - 1) : a[Cell(loc, c)] = y
  <2> TAKE y
  <2>1. ASSUME NEW c \in 0..(q - 1), a[Cell(loc, c)] = y PROVE y \in L
    <3>1. c + 1 \in 1..q
      BY <1>3
    <3> QED BY <1>3, <1>4, <2>1, <3>1
  <2>2. ASSUME y \in L PROVE \E c \in 0..(q - 1) : a[Cell(loc, c)] = y
    BY <1>3, <1>4, <2>2
  <2> QED BY <2>1, <2>2
<1>6. L \in SUBSET Point
  BY <1>2, <1>3
<1>7. ASSUME NEW y \in L PROVE OfLeaf(h, leaf, leaf[loc], y)
  BY <1>1, <1>2, <1>5, <1>7, CellFacts
<1>8. WorkerOK(h, leaf, "sort", loc + 1, a, cnt, sp, fw)
  <2>1. loc + 1 \in 1..(Len(leaf) + 1)
    BY <1>1
  <2> QED BY <1>1, <2>1 DEF WorkerOK
<1>9. ASSUME NEW x, NEW y, WaitsAt(h, leaf, "merge", loc, a, cnt, sp, fw, x, y)
      PROVE  \/ WaitsAt(h, leaf, "sort", loc + 1, a, cnt, sp, fw, x, y)
             \/ x = leaf[loc] /\ y \in L
  <2>1. CASE \E i \in loc..Len(leaf) : x = leaf[i] /\ \E c \in 0..(cnt[i] - 1) : y = a[Cell(i, c)]
    <3>1. PICK i \in loc..Len(leaf) : x = leaf[i] /\ \E c \in 0..(cnt[i] - 1) : y = a[Cell(i, c)]
      BY <2>1
    <3>2. CASE i = loc
      BY <1>2, <1>5, <3>1, <3>2
    <3>3. CASE i # loc
      <4>1. i \in (loc + 1)..Len(leaf)
        BY <1>1, <3>3
      <4> QED BY <3>1, <4>1 DEF WaitsAt
    <3> QED BY <3>2, <3>3
  <2>2. CASE \E m \in 1..Len(sp) : x = leaf[sp[m].tgt] /\ y = sp[m].src
    BY <2>2 DEF WaitsAt
  <2> QED BY <1>9, <2>1, <2>2 DEF WaitsAt
<1> QED BY <1>1, <1>6, <1>7, <1>8, <1>9

LEMMA SpillWorks ==
  ASSUME NEW leaf, NEW h \in HammingLeaf, NEW loc, NEW a, NEW cnt, NEW sp, NEW fw, sp # <<>>,
         WorkerOK(h, leaf, "sort", loc, a, cnt, sp, fw), loc > Len(leaf)
  PROVE  /\ ALeaf(leaf) /\ leaf[Head(sp).tgt] \in Point /\ Head(sp).src \in Point
         /\ WorkerOK(h, leaf, "sort", loc, a, cnt, Tail(sp), fw)
         /\ OfLeaf(h, leaf, leaf[Head(sp).tgt], Head(sp).src)
         /\ \A x, y : WaitsAt(h, leaf, "sort", loc, a, cnt, sp, fw, x, y) =>
              \/ WaitsAt(h, leaf, "sort", loc, a, cnt, Tail(sp), fw, x, y)
              \/ x = leaf[Head(sp).tgt] /\ y = Head(sp).src
<1>1. ALeaf(leaf) /\ loc \in 1..(Len(leaf) + 1) /\ Buffered(h, leaf, a, cnt, sp)
  BY DEF WorkerOK
<1>2. sp \in Seq(Edge(Len(leaf))) /\ Len(leaf) \in Nat
  BY <1>1, LeafFacts DEF Buffered
<1>3. PICK l : l = Len(sp) /\ l \in Nat \ {0}
  BY <1>2, EmptySeq, LenProperties
<1>4. PICK tl, e : tl = Tail(sp) /\ e = Head(sp)
  OBVIOUS
<1>5. /\ e = sp[1] /\ tl \in Seq(Edge(Len(leaf))) /\ Len(tl) = l - 1
      /\ \A m \in 1..(l - 1) : tl[m] = sp[m + 1]
  <2>1. Head(sp) = sp[1]
    BY DEF Head
  <2> QED BY <1>2, <1>3, <1>4, <2>1, HeadTailProperties
<1>6. 1 \in 1..l /\ \A m \in 1..(l - 1) : m + 1 \in 1..l
  BY <1>3
<1>7. e.tgt \in 1..Len(leaf) /\ e.src \in Point /\ OfLeaf(h, leaf, leaf[e.tgt], e.src)
  BY <1>1, <1>3, <1>5, <1>6, SpillFacts
<1>8. leaf[e.tgt] \in Point
  BY <1>1, <1>7, LeafFacts
<1>9. Buffered(h, leaf, a, cnt, tl)
  <2>1. \A y \in 1..Len(tl) : \E x \in 1..Len(EdgeList(leaf, h)) : EdgeList(leaf, h)[x] = tl[y]
    <3> TAKE y \in 1..Len(tl)
    <3>1. y + 1 \in 1..Len(sp) /\ tl[y] = sp[y + 1]
      BY <1>3, <1>5, <1>6
    <3> QED BY <1>1, <3>1 DEF Buffered
  <2> QED BY <1>1, <1>5, <2>1 DEF Buffered
<1>10. WorkerOK(h, leaf, "sort", loc, a, cnt, tl, fw)
  BY <1>1, <1>9 DEF WorkerOK
<1>11. ASSUME NEW x, NEW y, WaitsAt(h, leaf, "sort", loc, a, cnt, sp, fw, x, y)
      PROVE  \/ WaitsAt(h, leaf, "sort", loc, a, cnt, tl, fw, x, y)
             \/ x = leaf[e.tgt] /\ y = e.src
  <2>1. CASE \E i \in loc..Len(leaf) : x = leaf[i] /\ \E c \in 0..(cnt[i] - 1) : y = a[Cell(i, c)]
    BY <2>1 DEF WaitsAt
  <2>2. CASE \E m \in 1..Len(sp) : x = leaf[sp[m].tgt] /\ y = sp[m].src
    <3>1. PICK m \in 1..l : x = leaf[sp[m].tgt] /\ y = sp[m].src
      BY <1>3, <2>2
    <3>2. CASE m = 1
      BY <1>5, <3>1, <3>2
    <3>3. CASE m # 1
      <4>1. m - 1 \in 1..(l - 1) /\ (m - 1) + 1 = m
        BY <1>3, <3>3
      <4>2. m - 1 \in 1..Len(tl) /\ tl[m - 1] = sp[m]
        BY <1>5, <4>1
      <4> QED BY <3>1, <4>2 DEF WaitsAt
    <3> QED BY <3>2, <3>3
  <2> QED BY <1>11, <2>1, <2>2 DEF WaitsAt
<1> QED BY <1>1, <1>4, <1>7, <1>8, <1>10, <1>11

LEMMA LeaveWorks ==
  ASSUME NEW leaf, NEW h \in HammingLeaf, NEW loc, NEW a, NEW cnt, NEW sp, NEW fw, sp = <<>>,
         WorkerOK(h, leaf, "sort", loc, a, cnt, sp, fw), loc > Len(leaf)
  PROVE  /\ WorkerOK(h, leaf, "idle", loc, a, cnt, sp, fw)
         /\ \A x, y : ~ WaitsAt(h, leaf, "sort", loc, a, cnt, sp, fw, x, y)
<1>1. ALeaf(leaf) /\ loc \in 1..(Len(leaf) + 1)
  BY DEF WorkerOK
<1>2. Len(leaf) \in Nat
  BY <1>1, LeafFacts
<1>3. loc..Len(leaf) = {} /\ Len(sp) = 0 /\ 1..0 = {}
  BY <1>1, <1>2
<1>4. WorkerOK(h, leaf, "idle", loc, a, cnt, sp, fw)
  BY DEF WorkerOK
<1>5. \A x, y : ~ WaitsAt(h, leaf, "sort", loc, a, cnt, sp, fw, x, y)
  BY <1>3 DEF WaitsAt
<1> QED BY <1>4, <1>5
-----------------------------------------------------------------------------
(***************************************************************************)
(* The strengthening: every row holds the nearest of some set of its edges *)
(* that has all but those that are still waiting, in a leaf nobody has     *)
(* taken up, in a worker's loop over the lists, in its list for the        *)
(* reverse merges, in the cells of a row, or spilled.                      *)
(***************************************************************************)
Types ==
  /\ HAMMING_LEAF \in HammingLeaf
  /\ row \in [Point -> SUBSET Point]
  /\ todo \in SUBSET Leaves
  /\ pc \in [Thread -> {"idle", "forward", "reverse", "gather", "sort", "merge"}]
  /\ ids \in [Thread -> Leaves \cup {<<>>}]
  /\ local \in [Thread -> Nat]
  /\ edge_arena \in [Thread -> Seq(Point \cup {NoEdge})]
  /\ edge_cnt \in [Thread -> Seq(Nat)]
  /\ spill \in [Thread -> Seq([tgt : Nat, src : Point])]
  /\ fwd \in [Thread -> Seq(Point)]

Worker(t) ==
  WorkerOK(HAMMING_LEAF, ids[t], pc[t], local[t], edge_arena[t], edge_cnt[t], spill[t], fwd[t])

WaitsOn(t, x, y) ==
  WaitsAt(HAMMING_LEAF, ids[t], pc[t], local[t], edge_arena[t], edge_cnt[t], spill[t], fwd[t], x, y)

Waiting ==
  {p \in Point \X Point : \/ \E leaf \in todo : p \in LeafEdges(leaf)
                          \/ \E t \in Thread : WaitsOn(t, p[1], p[2])}

Inv ==
  /\ Types
  /\ \A t \in Thread : Worker(t)
  /\ HasMerged(row, AllEdges, Waiting)

\* A step of worker t leaves the others' state alone.
OnlyAt(t) ==
  /\ HAMMING_LEAF' = HAMMING_LEAF
  /\ \A u \in Thread : u # t =>
       /\ ids'[u] = ids[u] /\ pc'[u] = pc[u] /\ local'[u] = local[u]
       /\ edge_arena'[u] = edge_arena[u] /\ edge_cnt'[u] = edge_cnt[u]
       /\ spill'[u] = spill[u] /\ fwd'[u] = fwd[u]

LEMMA SameEdges ==
  ASSUME HAMMING_LEAF' = HAMMING_LEAF
  PROVE  /\ \A leaf : LeafEdges(leaf)' = LeafEdges(leaf)
         /\ AllEdges' = AllEdges
<1>1. \A leaf : LeafEdges(leaf)' = LeafEdges(leaf)
  BY DEF LeafEdges
<1> QED BY <1>1 DEF AllEdges

LEMMA StepInv ==
  ASSUME Inv, NEW t \in Thread, OnlyAt(t), Types', Worker(t)', HasMerged(row', AllEdges, Waiting')
  PROVE  Inv'
<1>1. \A u \in Thread : Worker(u)'
  <2> TAKE u \in Thread
  <2>1. CASE u = t
    BY <2>1
  <2>2. CASE u # t
    BY <2>2 DEF Inv, OnlyAt, Worker
  <2> QED BY <2>1, <2>2
<1>2. AllEdges' = AllEdges
  BY SameEdges DEF OnlyAt
<1> QED BY <1>1, <1>2 DEF Inv

LEMMA WaitingMoves ==
  ASSUME NEW t \in Thread, OnlyAt(t), todo' = todo, NEW me, NEW L,
         \A x, y : WaitsOn(t, x, y) => WaitsOn(t, x, y)' \/ (x = me /\ y \in L)
  PROVE  \A x, y \in Point : <<x, y>> \in Waiting => <<x, y>> \in Waiting' \/ (x = me /\ y \in L)
<1> SUFFICES ASSUME NEW x \in Point, NEW y \in Point, <<x, y>> \in Waiting, ~ (x = me /\ y \in L)
             PROVE  <<x, y>> \in Waiting'
  OBVIOUS
<1>1. CASE \E leaf \in todo : <<x, y>> \in LeafEdges(leaf)
  <2>1. PICK leaf \in todo : <<x, y>> \in LeafEdges(leaf)
    BY <1>1
  <2>2. leaf \in todo' /\ LeafEdges(leaf)' = LeafEdges(leaf)
    BY SameEdges DEF OnlyAt
  <2>3. \E l \in todo' : <<x, y>> \in LeafEdges(l)'
    BY <2>1, <2>2
  <2> QED BY <2>3 DEF Waiting
<1>2. CASE \E u \in Thread : WaitsOn(u, x, y)
  <2>1. PICK u \in Thread : WaitsOn(u, x, y)
    BY <1>2
  <2>2. WaitsOn(u, x, y)'
    <3>1. CASE u = t
      BY <2>1, <3>1
    <3>2. CASE u # t
      BY <2>1, <3>2 DEF OnlyAt, WaitsOn
    <3> QED BY <3>1, <3>2
  <2> QED BY <2>2 DEF Waiting
<1> QED BY <1>1, <1>2 DEF Waiting

LEMMA WaitingStays ==
  ASSUME NEW t \in Thread, OnlyAt(t), todo' = todo,
         \A x, y : WaitsOn(t, x, y) => WaitsOn(t, x, y)'
  PROVE  \A x, y \in Point : <<x, y>> \in Waiting => <<x, y>> \in Waiting'
<1>1. PICK L : L = {}
  OBVIOUS
<1>2. \A x, y : WaitsOn(t, x, y) => WaitsOn(t, x, y)' \/ (x = 0 /\ y \in L)
  OBVIOUS
<1>3. \A x, y \in Point : <<x, y>> \in Waiting => <<x, y>> \in Waiting' \/ (x = 0 /\ y \in L)
  BY <1>2, WaitingMoves
<1> QED BY <1>1, <1>3

LEMMA EdgeOfAll ==
  ASSUME Inv, NEW leaf \in Leaves, ALeaf(leaf), NEW x, NEW y, OfLeaf(HAMMING_LEAF, leaf, x, y)
  PROVE  <<x, y>> \in AllEdges
<1>1. <<x, y>> \in LeafEdges(leaf)
  BY LeafEdgesAre DEF Inv, Types
<1> QED BY <1>1 DEF AllEdges

\* A merge of L into the row of me by worker t.
LEMMA MergeInv ==
  ASSUME Inv, NEW t \in Thread, OnlyAt(t), todo' = todo, Types', Worker(t)', NEW leaf, ALeaf(leaf),
         NEW me \in Point, NEW L \in SUBSET Point, NEW T \in KeptAfter(me, row[me], L),
         row' = [row EXCEPT ![me] = T],
         \A y \in L : OfLeaf(HAMMING_LEAF, leaf, me, y),
         \A x, y : WaitsOn(t, x, y) => WaitsOn(t, x, y)' \/ (x = me /\ y \in L)
  PROVE  Inv'
<1>1. \A y \in L : <<me, y>> \in AllEdges
  BY EdgeOfAll DEF ALeaf
<1>2. \A x, y \in Point : <<x, y>> \in Waiting => <<x, y>> \in Waiting' \/ (x = me /\ y \in L)
  BY WaitingMoves
<1>3. row \in [Point -> SUBSET Point] /\ HasMerged(row, AllEdges, Waiting)
  BY DEF Inv, Types
<1>4. PICK w, w2, e : w = Waiting /\ w2 = Waiting' /\ e = AllEdges
  OBVIOUS
<1>5. HasMerged([row EXCEPT ![me] = T], e, w2)
  BY <1>1, <1>2, <1>3, <1>4, MergeKeeps
<1> QED BY <1>4, <1>5, StepInv

\* A step of worker t that merges nothing.
LEMMA QuietInv ==
  ASSUME Inv, NEW t \in Thread, OnlyAt(t), Types', Worker(t)', row' = row,
         \A x, y \in Point : <<x, y>> \in Waiting => <<x, y>> \in Waiting'
  PROVE  Inv'
<1>1. HasMerged(row, AllEdges, Waiting)
  BY DEF Inv
<1>2. PICK w, w2, e : w = Waiting /\ w2 = Waiting' /\ e = AllEdges
  OBVIOUS
<1>3. HasMerged(row, e, w2)
  BY <1>1, <1>2, WaitingKeeps
<1> QED BY <1>2, <1>3, StepInv
-----------------------------------------------------------------------------
(* The steps. *)

LEMMA InvInit == Init => Inv
<1> SUFFICES ASSUME Init PROVE Inv
  OBVIOUS
<1>1. Types
  <2>1. \A S : <<>> \in Seq(S)
    BY EmptySeq
  <2> QED BY <2>1 DEF Init, Types
<1>2. \A t \in Thread : Worker(t)
  BY DEF Init, Worker, WorkerOK
<1>3. ASSUME NEW i \in Point
      PROVE  \E S \in SUBSET Point :
               /\ IsNearest(i, row[i], S)
               /\ \A j \in S : <<i, j>> \in AllEdges
               /\ \A j \in Point : <<i, j>> \in AllEdges => j \in S \/ <<i, j>> \in Waiting
  <2>1. row[i] = {} /\ Cardinality({}) = 0 /\ 0 <= k
    BY FS_EmptySet, CapFacts DEF Init
  <2>2. IsNearest(i, row[i], {})
    BY <2>1 DEF IsNearest
  <2>3. ASSUME NEW j \in Point, <<i, j>> \in AllEdges PROVE <<i, j>> \in Waiting
    <3>1. \E leaf \in Leaves : <<i, j>> \in LeafEdges(leaf)
      BY <2>3 DEF AllEdges
    <3> QED BY <3>1 DEF Waiting, Init
  <2> QED BY <2>2, <2>3
<1>4. HasMerged(row, AllEdges, Waiting)
  BY <1>3 DEF HasMerged
<1> QED BY <1>1, <1>2, <1>4 DEF Inv

LEMMA TakeInv ==
  ASSUME Inv, NEW t \in Thread, Take(t)
  PROVE  Inv'
<1> USE DEF buffers
<1>1. Types
  BY DEF Inv
<1>2. PICK leaf \in todo :
        /\ todo' = todo \ {leaf}
        /\ ids' = [ids EXCEPT ![t] = leaf]
        /\ pc' = [pc EXCEPT ![t] = IF Len(leaf) < 2 THEN "idle"
                                   ELSE IF HAMMING_LEAF THEN "gather" ELSE "forward"]
  BY DEF Take
<1>3. /\ pc[t] = "idle" /\ local' = [local EXCEPT ![t] = 1] /\ leaf \in Leaves
      /\ UNCHANGED <<HAMMING_LEAF, row, edge_arena, edge_cnt, spill, fwd>>
  BY <1>1 DEF Take, Types
<1>4. OnlyAt(t)
  BY <1>1, <1>2, <1>3 DEF OnlyAt, Types
<1>5. PICK ph : ph = IF Len(leaf) < 2 THEN "idle" ELSE IF HAMMING_LEAF THEN "gather" ELSE "forward"
  OBVIOUS
<1>6. ids'[t] = leaf /\ pc'[t] = ph /\ local'[t] = 1
  BY <1>1, <1>2, <1>3, <1>5 DEF Types
<1>7. Types'
  BY <1>1, <1>2, <1>3 DEF Types
<1>8. /\ WorkerOK(HAMMING_LEAF, leaf, ph, 1, edge_arena[t], edge_cnt[t], spill[t], fwd[t])
      /\ ALeaf(leaf) => \A x, y : OfLeaf(HAMMING_LEAF, leaf, x, y) =>
           WaitsAt(HAMMING_LEAF, leaf, ph, 1, edge_arena[t], edge_cnt[t], spill[t], fwd[t], x, y)
  BY <1>1, <1>3, <1>5, TakeWorks DEF Types
<1>9. Worker(t)'
  BY <1>3, <1>6, <1>8 DEF Worker
<1>10. ASSUME NEW x \in Point, NEW y \in Point, <<x, y>> \in Waiting PROVE <<x, y>> \in Waiting'
  <2>1. CASE \E l \in todo : <<x, y>> \in LeafEdges(l)
    <3>1. PICK l \in todo : <<x, y>> \in LeafEdges(l)
      BY <2>1
    <3>2. CASE l = leaf
      <4>1. ALeaf(leaf)
        BY <1>3, <3>1, <3>2, SmallLeaf
      <4>2. OfLeaf(HAMMING_LEAF, leaf, x, y)
        BY <1>1, <3>1, <3>2, <4>1, LeafEdgesAre DEF Types
      <4>3. WaitsOn(t, x, y)'
        BY <1>3, <1>6, <1>8, <4>1, <4>2 DEF WaitsOn
      <4> QED BY <4>3 DEF Waiting
    <3>3. CASE l # leaf
      <4>1. l \in todo' /\ LeafEdges(l)' = LeafEdges(l)
        BY <1>2, <1>3, <3>3, SameEdges
      <4>2. \E m \in todo' : <<x, y>> \in LeafEdges(m)'
        BY <3>1, <4>1
      <4> QED BY <4>2 DEF Waiting
    <3> QED BY <3>2, <3>3
  <2>2. CASE \E u \in Thread : WaitsOn(u, x, y)
    <3>1. PICK u \in Thread : WaitsOn(u, x, y)
      BY <2>2
    <3>2. u # t
      BY <1>3, <3>1 DEF WaitsOn, WaitsAt
    <3>3. WaitsOn(u, x, y)'
      BY <1>4, <3>1, <3>2 DEF OnlyAt, WaitsOn
    <3> QED BY <3>3 DEF Waiting
  <2> QED BY <1>10, <2>1, <2>2 DEF Waiting
<1> QED BY <1>3, <1>4, <1>7, <1>9, <1>10, QuietInv

LEMMA MergeForwardInv ==
  ASSUME Inv, NEW t \in Thread, MergeForward(t)
  PROVE  Inv'
<1>1. Types /\ Worker(t)
  BY DEF Inv
<1>2. PICK leaf, h, loc : leaf = ids[t] /\ h = HAMMING_LEAF /\ loc = local[t]
  OBVIOUS
<1>3. PICK list : list = [r \in 1..Len(Top(leaf, loc, h)) |-> leaf[Top(leaf, loc, h)[r]]]
  OBVIOUS
<1>4. /\ pc[t] = "forward" /\ pc' = [pc EXCEPT ![t] = "reverse"]
      /\ fwd' = [fwd EXCEPT ![t] = list]
      /\ UNCHANGED <<HAMMING_LEAF, todo, ids, local, edge_arena, edge_cnt, spill>>
  BY <1>2, <1>3 DEF MergeForward
<1>5. PICK T \in KeptAfter(leaf[loc], row[leaf[loc]], ToSet(list)) : row' = [row EXCEPT ![leaf[loc]] = T]
  BY <1>2, <1>3 DEF MergeForward
<1>6. /\ h \in HammingLeaf
      /\ WorkerOK(h, leaf, "forward", loc, edge_arena[t], edge_cnt[t], spill[t], fwd[t])
  BY <1>1, <1>2, <1>4 DEF Types, Worker
<1>7. /\ ALeaf(leaf) /\ leaf[loc] \in Point
      /\ WorkerOK(h, leaf, "reverse", loc, edge_arena[t], edge_cnt[t], spill[t], list)
      /\ list \in Seq(Point) /\ ToSet(list) \in SUBSET Point
      /\ \A y \in ToSet(list) : OfLeaf(h, leaf, leaf[loc], y)
      /\ \A x, y : WaitsAt(h, leaf, "forward", loc, edge_arena[t], edge_cnt[t], spill[t], fwd[t], x, y) =>
           \/ WaitsAt(h, leaf, "reverse", loc, edge_arena[t], edge_cnt[t], spill[t], list, x, y)
           \/ x = leaf[loc] /\ y \in ToSet(list)
  BY <1>3, <1>6, ForwardWorks
<1>8. OnlyAt(t)
  BY <1>1, <1>4 DEF OnlyAt, Types
<1>9. /\ ids'[t] = leaf /\ pc'[t] = "reverse" /\ local'[t] = loc /\ fwd'[t] = list /\ HAMMING_LEAF' = h
      /\ edge_arena'[t] = edge_arena[t] /\ edge_cnt'[t] = edge_cnt[t] /\ spill'[t] = spill[t]
  BY <1>1, <1>2, <1>4 DEF Types
<1>10. Types'
  <2>1. T \in SUBSET Point
    BY <1>1, <1>5, <1>7 DEF KeptAfter, Types
  <2>2. row' \in [Point -> SUBSET Point]
    BY <1>1, <1>5, <2>1 DEF Types
  <2> QED BY <1>1, <1>4, <1>7, <2>2 DEF Types
<1>11. Worker(t)'
  BY <1>7, <1>9 DEF Worker
<1>12. \A x, y : WaitsOn(t, x, y) => WaitsOn(t, x, y)' \/ (x = leaf[loc] /\ y \in ToSet(list))
  BY <1>2, <1>4, <1>7, <1>9 DEF WaitsOn
<1>13. todo' = todo /\ \A y \in ToSet(list) : OfLeaf(HAMMING_LEAF, leaf, leaf[loc], y)
  BY <1>2, <1>4, <1>7
<1> QED BY <1>5, <1>7, <1>8, <1>10, <1>11, <1>12, <1>13, MergeInv

LEMMA MergeReverseInv ==
  ASSUME Inv, NEW t \in Thread, MergeReverse(t)
  PROVE  Inv'
<1>1. Types /\ Worker(t)
  BY DEF Inv
<1>2. PICK leaf, h, loc, fw : leaf = ids[t] /\ h = HAMMING_LEAF /\ loc = local[t] /\ fw = fwd[t]
  OBVIOUS
<1>4. /\ pc[t] = "reverse" /\ fw # <<>>
      /\ fwd' = [fwd EXCEPT ![t] = Tail(fw)]
      /\ UNCHANGED <<HAMMING_LEAF, todo, pc, ids, local, edge_arena, edge_cnt, spill>>
  BY <1>2 DEF MergeReverse
<1>5. PICK T \in KeptAfter(Head(fw), row[Head(fw)], {leaf[loc]}) : row' = [row EXCEPT ![Head(fw)] = T]
  BY <1>2 DEF MergeReverse
<1>6. /\ h \in HammingLeaf /\ fw \in Seq(Point)
      /\ WorkerOK(h, leaf, "reverse", loc, edge_arena[t], edge_cnt[t], spill[t], fw)
  BY <1>1, <1>2, <1>4 DEF Types, Worker
<1>7. /\ ALeaf(leaf) /\ leaf[loc] \in Point /\ Head(fw) \in Point /\ Tail(fw) \in Seq(Point)
      /\ WorkerOK(h, leaf, "reverse", loc, edge_arena[t], edge_cnt[t], spill[t], Tail(fw))
      /\ OfLeaf(h, leaf, Head(fw), leaf[loc])
      /\ \A x, y : WaitsAt(h, leaf, "reverse", loc, edge_arena[t], edge_cnt[t], spill[t], fw, x, y) =>
           \/ WaitsAt(h, leaf, "reverse", loc, edge_arena[t], edge_cnt[t], spill[t], Tail(fw), x, y)
           \/ x = Head(fw) /\ y = leaf[loc]
  BY <1>4, <1>6, ReverseWorks
<1>8. OnlyAt(t)
  BY <1>1, <1>4 DEF OnlyAt, Types
<1>9. /\ ids'[t] = leaf /\ pc'[t] = "reverse" /\ local'[t] = loc /\ fwd'[t] = Tail(fw) /\ HAMMING_LEAF' = h
      /\ edge_arena'[t] = edge_arena[t] /\ edge_cnt'[t] = edge_cnt[t] /\ spill'[t] = spill[t]
  BY <1>1, <1>2, <1>4 DEF Types
<1>10. Types'
  <2>1. T \in SUBSET Point
    BY <1>1, <1>5, <1>7 DEF KeptAfter, Types
  <2>2. row' \in [Point -> SUBSET Point]
    BY <1>1, <1>5, <2>1 DEF Types
  <2> QED BY <1>1, <1>4, <1>7, <2>2 DEF Types
<1>11. Worker(t)'
  BY <1>7, <1>9 DEF Worker
<1>12. \A x, y : WaitsOn(t, x, y) => WaitsOn(t, x, y)' \/ (x = Head(fw) /\ y \in {leaf[loc]})
  BY <1>2, <1>4, <1>7, <1>9 DEF WaitsOn
<1>13. /\ todo' = todo /\ {leaf[loc]} \in SUBSET Point
       /\ \A y \in {leaf[loc]} : OfLeaf(HAMMING_LEAF, leaf, Head(fw), y)
  BY <1>2, <1>4, <1>7
<1>14. PICK L, me : L = {leaf[loc]} /\ me = Head(fw)
  OBVIOUS
<1>15. T \in KeptAfter(me, row[me], L) /\ row' = [row EXCEPT ![me] = T] /\ me \in Point
  BY <1>5, <1>7, <1>14
<1>16. L \in SUBSET Point /\ \A y \in L : OfLeaf(HAMMING_LEAF, leaf, me, y)
  BY <1>13, <1>14
<1>17. \A x, y : WaitsOn(t, x, y) => WaitsOn(t, x, y)' \/ (x = me /\ y \in L)
  BY <1>12, <1>14
<1> QED BY <1>7, <1>8, <1>10, <1>11, <1>13, <1>15, <1>16, <1>17, MergeInv

LEMMA NextRowInv ==
  ASSUME Inv, NEW t \in Thread, NextRow(t)
  PROVE  Inv'
<1> USE DEF buffers
<1>1. Types /\ Worker(t)
  BY DEF Inv
<1>2. PICK leaf, h, loc, fw : leaf = ids[t] /\ h = HAMMING_LEAF /\ loc = local[t] /\ fw = fwd[t]
  OBVIOUS
<1>3. PICK ph : ph = IF loc = Len(leaf) THEN "idle" ELSE "forward"
  OBVIOUS
<1>4. /\ pc[t] = "reverse" /\ fw = <<>> /\ pc' = [pc EXCEPT ![t] = ph]
      /\ local' = [local EXCEPT ![t] = loc + 1]
      /\ UNCHANGED <<HAMMING_LEAF, row, todo, ids, edge_arena, edge_cnt, spill, fwd>>
  BY <1>2, <1>3 DEF NextRow
<1>5. h \in HammingLeaf /\ WorkerOK(h, leaf, "reverse", loc, edge_arena[t], edge_cnt[t], spill[t], fw)
  BY <1>1, <1>2, <1>4 DEF Types, Worker
<1>6. /\ WorkerOK(h, leaf, ph, loc + 1, edge_arena[t], edge_cnt[t], spill[t], fw)
      /\ \A x, y : WaitsAt(h, leaf, "reverse", loc, edge_arena[t], edge_cnt[t], spill[t], fw, x, y) =>
           WaitsAt(h, leaf, ph, loc + 1, edge_arena[t], edge_cnt[t], spill[t], fw, x, y)
  BY <1>3, <1>4, <1>5, NextRowWorks
<1>7. OnlyAt(t)
  BY <1>1, <1>4 DEF OnlyAt, Types
<1>8. /\ ids'[t] = leaf /\ pc'[t] = ph /\ local'[t] = loc + 1 /\ fwd'[t] = fw /\ HAMMING_LEAF' = h
      /\ edge_arena'[t] = edge_arena[t] /\ edge_cnt'[t] = edge_cnt[t] /\ spill'[t] = spill[t]
  BY <1>1, <1>2, <1>4 DEF Types
<1>9. Types'
  <2>1. loc + 1 \in Nat /\ ph \in {"idle", "forward"}
    BY <1>1, <1>2, <1>3 DEF Types
  <2> QED BY <1>1, <1>4, <2>1 DEF Types
<1>10. Worker(t)'
  BY <1>6, <1>8 DEF Worker
<1>11. \A x, y : WaitsOn(t, x, y) => WaitsOn(t, x, y)'
  BY <1>2, <1>4, <1>6, <1>8 DEF WaitsOn
<1>12. todo' = todo /\ row' = row
  BY <1>4
<1>13. \A x, y \in Point : <<x, y>> \in Waiting => <<x, y>> \in Waiting'
  BY <1>7, <1>11, <1>12, WaitingStays
<1> QED BY <1>7, <1>9, <1>10, <1>12, <1>13, QuietInv

LEMMA GatherInv ==
  ASSUME Inv, NEW t \in Thread, Gather(t)
  PROVE  Inv'
<1>1. Types /\ Worker(t)
  BY DEF Inv
<1>2. PICK leaf, h, loc, fw : leaf = ids[t] /\ h = HAMMING_LEAF /\ loc = local[t] /\ fw = fwd[t]
  OBVIOUS
<1>3. PICK b : b = Pushed(Grown(edge_arena[t], Len(leaf)), Emptied(edge_cnt[t], Len(leaf)), EdgesOf[leaf][h])
  OBVIOUS
<1>4. /\ pc[t] = "gather" /\ pc' = [pc EXCEPT ![t] = "sort"]
      /\ edge_arena' = [edge_arena EXCEPT ![t] = b[1]]
      /\ edge_cnt' = [edge_cnt EXCEPT ![t] = b[2]]
      /\ spill' = [spill EXCEPT ![t] = b[3]]
      /\ UNCHANGED <<HAMMING_LEAF, row, todo, ids, local, fwd>>
  BY <1>2, <1>3 DEF Gather
<1>5. /\ h \in HammingLeaf /\ edge_arena[t] \in Seq(Point \cup {NoEdge})
      /\ WorkerOK(h, leaf, "gather", loc, edge_arena[t], edge_cnt[t], spill[t], fw)
  BY <1>1, <1>2, <1>4 DEF Types, Worker
<1>6. /\ WorkerOK(h, leaf, "sort", loc, b[1], b[2], b[3], fw)
      /\ b[1] \in Seq(Point \cup {NoEdge}) /\ b[2] \in Seq(Nat)
      /\ b[3] \in Seq([tgt : Nat, src : Point])
      /\ \A x, y : WaitsAt(h, leaf, "gather", loc, edge_arena[t], edge_cnt[t], spill[t], fw, x, y) =>
                     WaitsAt(h, leaf, "sort", loc, b[1], b[2], b[3], fw, x, y)
  BY <1>3, <1>5, GatherWorks
<1>7. OnlyAt(t)
  BY <1>1, <1>4 DEF OnlyAt, Types
<1>8. /\ ids'[t] = leaf /\ pc'[t] = "sort" /\ local'[t] = loc /\ fwd'[t] = fw /\ HAMMING_LEAF' = h
      /\ edge_arena'[t] = b[1] /\ edge_cnt'[t] = b[2] /\ spill'[t] = b[3]
  BY <1>1, <1>2, <1>4 DEF Types
<1>9. Types'
  BY <1>1, <1>4, <1>6 DEF Types
<1>10. Worker(t)'
  BY <1>6, <1>8 DEF Worker
<1>11. \A x, y : WaitsOn(t, x, y) => WaitsOn(t, x, y)'
  BY <1>2, <1>4, <1>6, <1>8 DEF WaitsOn
<1>12. todo' = todo /\ row' = row
  BY <1>4
<1>13. \A x, y \in Point : <<x, y>> \in Waiting => <<x, y>> \in Waiting'
  BY <1>7, <1>11, <1>12, WaitingStays
<1> QED BY <1>7, <1>9, <1>10, <1>12, <1>13, QuietInv

LEMMA SortRowInv ==
  ASSUME Inv, NEW t \in Thread, SortRow(t)
  PROVE  Inv'
<1>1. Types /\ Worker(t)
  BY DEF Inv
<1>2. PICK leaf, h, loc, fw : leaf = ids[t] /\ h = HAMMING_LEAF /\ loc = local[t] /\ fw = fwd[t]
  OBVIOUS
<1>3. PICK list \in SortedEdges(RowOf(edge_arena[t], loc, edge_cnt[t][loc]), leaf[loc]) :
        edge_arena' = [edge_arena EXCEPT ![t] = PutBack(edge_arena[t], loc, list)]
  <2>1. PICK list \in SortedEdges(ListOf(t, local[t]), ids[t][local[t]]) :
          edge_arena' = [edge_arena EXCEPT ![t] =
            [x \in DOMAIN edge_arena[t] |->
               IF x \in Cell(local[t], 0)..(Cell(local[t], 0) + Len(list) - 1)
               THEN list[x - Cell(local[t], 0) + 1] ELSE edge_arena[t][x]]]
    BY DEF SortRow
  <2>2. list \in SortedEdges(RowOf(edge_arena[t], loc, edge_cnt[t][loc]), leaf[loc])
    BY <1>2, <2>1 DEF ListOf, RowOf
  <2>3. edge_arena' = [edge_arena EXCEPT ![t] = PutBack(edge_arena[t], loc, list)]
    BY <1>2, <2>1 DEF PutBack
  <2> QED BY <2>2, <2>3
<1>4. /\ pc[t] = "sort" /\ loc <= Len(leaf) /\ pc' = [pc EXCEPT ![t] = "merge"]
      /\ UNCHANGED <<HAMMING_LEAF, row, todo, ids, local, edge_cnt, spill, fwd>>
  BY <1>2 DEF SortRow
<1>5. h \in HammingLeaf /\ WorkerOK(h, leaf, "sort", loc, edge_arena[t], edge_cnt[t], spill[t], fw)
  BY <1>1, <1>2, <1>4 DEF Types, Worker
<1>a. PICK a2 : a2 = PutBack(edge_arena[t], loc, list)
  OBVIOUS
<1>6. /\ WorkerOK(h, leaf, "merge", loc, a2, edge_cnt[t], spill[t], fw)
      /\ a2 \in Seq(Point \cup {NoEdge})
      /\ \A x, y : WaitsAt(h, leaf, "sort", loc, edge_arena[t], edge_cnt[t], spill[t], fw, x, y) =>
                     WaitsAt(h, leaf, "merge", loc, a2, edge_cnt[t], spill[t], fw, x, y)
  BY <1>3, <1>4, <1>5, <1>a, SortWorks
<1>7. OnlyAt(t)
  BY <1>1, <1>3, <1>4 DEF OnlyAt, Types
<1>8. /\ ids'[t] = leaf /\ pc'[t] = "merge" /\ local'[t] = loc /\ fwd'[t] = fw /\ HAMMING_LEAF' = h
      /\ edge_arena'[t] = a2 /\ edge_cnt'[t] = edge_cnt[t] /\ spill'[t] = spill[t]
  BY <1>1, <1>2, <1>3, <1>4, <1>a DEF Types
<1>9. Types'
  BY <1>1, <1>3, <1>4, <1>6, <1>a DEF Types
<1>10. Worker(t)'
  BY <1>6, <1>8 DEF Worker
<1>11. \A x, y : WaitsOn(t, x, y) => WaitsOn(t, x, y)'
  BY <1>2, <1>4, <1>6, <1>8 DEF WaitsOn
<1>12. todo' = todo /\ row' = row
  BY <1>4
<1>13. \A x, y \in Point : <<x, y>> \in Waiting => <<x, y>> \in Waiting'
  BY <1>7, <1>11, <1>12, WaitingStays
<1> QED BY <1>7, <1>9, <1>10, <1>12, <1>13, QuietInv

LEMMA MergeRowInv ==
  ASSUME Inv, NEW t \in Thread, MergeRow(t)
  PROVE  Inv'
<1> USE DEF buffers
<1>1. Types /\ Worker(t)
  BY DEF Inv
<1>2. PICK leaf, h, loc, fw : leaf = ids[t] /\ h = HAMMING_LEAF /\ loc = local[t] /\ fw = fwd[t]
  OBVIOUS
<1>3. PICK L : L = ToSet(RowOf(edge_arena[t], loc, edge_cnt[t][loc]))
  OBVIOUS
<1>4. /\ pc[t] = "merge" /\ pc' = [pc EXCEPT ![t] = "sort"]
      /\ local' = [local EXCEPT ![t] = loc + 1]
      /\ UNCHANGED <<HAMMING_LEAF, todo, ids, edge_arena, edge_cnt, spill, fwd>>
  BY <1>2 DEF MergeRow
<1>5. PICK T \in KeptAfter(leaf[loc], row[leaf[loc]], L) : row' = [row EXCEPT ![leaf[loc]] = T]
  BY <1>2, <1>3 DEF MergeRow, ListOf, RowOf
<1>6. h \in HammingLeaf /\ WorkerOK(h, leaf, "merge", loc, edge_arena[t], edge_cnt[t], spill[t], fw)
  BY <1>1, <1>2, <1>4 DEF Types, Worker
<1>7. /\ ALeaf(leaf) /\ leaf[loc] \in Point /\ L \in SUBSET Point
      /\ WorkerOK(h, leaf, "sort", loc + 1, edge_arena[t], edge_cnt[t], spill[t], fw)
      /\ \A y \in L : OfLeaf(h, leaf, leaf[loc], y)
      /\ \A x, y : WaitsAt(h, leaf, "merge", loc, edge_arena[t], edge_cnt[t], spill[t], fw, x, y) =>
           \/ WaitsAt(h, leaf, "sort", loc + 1, edge_arena[t], edge_cnt[t], spill[t], fw, x, y)
           \/ x = leaf[loc] /\ y \in L
  BY <1>3, <1>6, MergeWorks
<1>8. OnlyAt(t)
  BY <1>1, <1>4 DEF OnlyAt, Types
<1>9. /\ ids'[t] = leaf /\ pc'[t] = "sort" /\ local'[t] = loc + 1 /\ fwd'[t] = fw /\ HAMMING_LEAF' = h
      /\ edge_arena'[t] = edge_arena[t] /\ edge_cnt'[t] = edge_cnt[t] /\ spill'[t] = spill[t]
  BY <1>1, <1>2, <1>4 DEF Types
<1>10. Types'
  <2>1. T \in SUBSET Point
    BY <1>1, <1>5, <1>7 DEF KeptAfter, Types
  <2>2. row' \in [Point -> SUBSET Point]
    BY <1>1, <1>5, <2>1 DEF Types
  <2>3. loc + 1 \in Nat
    BY <1>1, <1>2 DEF Types
  <2> QED BY <1>1, <1>4, <1>7, <2>2, <2>3 DEF Types
<1>11. Worker(t)'
  BY <1>7, <1>9 DEF Worker
<1>12. \A x, y : WaitsOn(t, x, y) => WaitsOn(t, x, y)' \/ (x = leaf[loc] /\ y \in L)
  BY <1>2, <1>4, <1>7, <1>9 DEF WaitsOn
<1>13. todo' = todo /\ \A y \in L : OfLeaf(HAMMING_LEAF, leaf, leaf[loc], y)
  BY <1>2, <1>4, <1>7
<1> QED BY <1>5, <1>7, <1>8, <1>10, <1>11, <1>12, <1>13, MergeInv

LEMMA MergeSpillInv ==
  ASSUME Inv, NEW t \in Thread, MergeSpill(t)
  PROVE  Inv'
<1>1. Types /\ Worker(t)
  BY DEF Inv
<1>2. PICK leaf, h, loc, fw, sp : /\ leaf = ids[t] /\ h = HAMMING_LEAF /\ loc = local[t]
                                  /\ fw = fwd[t] /\ sp = spill[t]
  OBVIOUS
<1>3. PICK me, L : me = leaf[Head(sp).tgt] /\ L = {Head(sp).src}
  OBVIOUS
<1>4. /\ pc[t] = "sort" /\ loc > Len(leaf) /\ sp # <<>>
      /\ spill' = [spill EXCEPT ![t] = Tail(sp)]
      /\ UNCHANGED <<HAMMING_LEAF, todo, pc, ids, local, edge_arena, edge_cnt, fwd>>
  BY <1>2 DEF MergeSpill
<1>5. PICK T \in KeptAfter(me, row[me], L) : row' = [row EXCEPT ![me] = T]
  BY <1>2, <1>3 DEF MergeSpill
<1>6. /\ h \in HammingLeaf /\ sp \in Seq([tgt : Nat, src : Point])
      /\ WorkerOK(h, leaf, "sort", loc, edge_arena[t], edge_cnt[t], sp, fw)
  BY <1>1, <1>2, <1>4 DEF Types, Worker
<1>7. /\ ALeaf(leaf) /\ leaf[Head(sp).tgt] \in Point /\ Head(sp).src \in Point
      /\ WorkerOK(h, leaf, "sort", loc, edge_arena[t], edge_cnt[t], Tail(sp), fw)
      /\ OfLeaf(h, leaf, leaf[Head(sp).tgt], Head(sp).src)
      /\ \A x, y : WaitsAt(h, leaf, "sort", loc, edge_arena[t], edge_cnt[t], sp, fw, x, y) =>
           \/ WaitsAt(h, leaf, "sort", loc, edge_arena[t], edge_cnt[t], Tail(sp), fw, x, y)
           \/ x = leaf[Head(sp).tgt] /\ y = Head(sp).src
  BY <1>4, <1>6, SpillWorks
<1>8. OnlyAt(t)
  BY <1>1, <1>4 DEF OnlyAt, Types
<1>9. /\ ids'[t] = leaf /\ pc'[t] = "sort" /\ local'[t] = loc /\ fwd'[t] = fw /\ HAMMING_LEAF' = h
      /\ edge_arena'[t] = edge_arena[t] /\ edge_cnt'[t] = edge_cnt[t] /\ spill'[t] = Tail(sp)
  BY <1>1, <1>2, <1>4 DEF Types
<1>a. Tail(sp) \in Seq([tgt : Nat, src : Point]) /\ me \in Point /\ L \in SUBSET Point
  BY <1>3, <1>4, <1>6, <1>7, HeadTailProperties
<1>10. Types'
  <2>1. T \in SUBSET Point
    BY <1>1, <1>5, <1>a DEF KeptAfter, Types
  <2>2. row' \in [Point -> SUBSET Point]
    BY <1>1, <1>5, <2>1 DEF Types
  <2> QED BY <1>1, <1>4, <1>a, <2>2 DEF Types
<1>11. Worker(t)'
  BY <1>7, <1>9 DEF Worker
<1>12. \A x, y : WaitsOn(t, x, y) => WaitsOn(t, x, y)' \/ (x = me /\ y \in L)
  <2> SUFFICES ASSUME NEW x, NEW y, WaitsOn(t, x, y), ~ (x = me /\ y \in L)
               PROVE  WaitsOn(t, x, y)'
    OBVIOUS
  <2>1. WaitsAt(h, leaf, "sort", loc, edge_arena[t], edge_cnt[t], sp, fw, x, y)
    BY <1>2, <1>4 DEF WaitsOn
  <2>2. ~ (x = leaf[Head(sp).tgt] /\ y = Head(sp).src)
    BY <1>3
  <2>3. WaitsAt(h, leaf, "sort", loc, edge_arena[t], edge_cnt[t], Tail(sp), fw, x, y)
    BY <1>7, <2>1, <2>2
  <2> QED BY <1>9, <2>3 DEF WaitsOn
<1>13. todo' = todo /\ \A y \in L : OfLeaf(HAMMING_LEAF, leaf, me, y)
  BY <1>2, <1>3, <1>4, <1>7
<1> QED BY <1>5, <1>7, <1>a, <1>8, <1>10, <1>11, <1>12, <1>13, MergeInv

LEMMA LeaveInv ==
  ASSUME Inv, NEW t \in Thread, Leave(t)
  PROVE  Inv'
<1> USE DEF buffers
<1>1. Types /\ Worker(t)
  BY DEF Inv
<1>2. PICK leaf, h, loc, fw : leaf = ids[t] /\ h = HAMMING_LEAF /\ loc = local[t] /\ fw = fwd[t]
  OBVIOUS
<1>4. /\ pc[t] = "sort" /\ loc > Len(leaf) /\ spill[t] = <<>> /\ pc' = [pc EXCEPT ![t] = "idle"]
      /\ UNCHANGED <<HAMMING_LEAF, row, todo, ids, local, edge_arena, edge_cnt, spill, fwd>>
  BY <1>2 DEF Leave
<1>5. h \in HammingLeaf /\ WorkerOK(h, leaf, "sort", loc, edge_arena[t], edge_cnt[t], spill[t], fw)
  BY <1>1, <1>2, <1>4 DEF Types, Worker
<1>6. /\ WorkerOK(h, leaf, "idle", loc, edge_arena[t], edge_cnt[t], spill[t], fw)
      /\ \A x, y : ~ WaitsAt(h, leaf, "sort", loc, edge_arena[t], edge_cnt[t], spill[t], fw, x, y)
  BY <1>4, <1>5, LeaveWorks
<1>7. OnlyAt(t)
  BY <1>1, <1>4 DEF OnlyAt, Types
<1>8. /\ ids'[t] = leaf /\ pc'[t] = "idle" /\ local'[t] = loc /\ fwd'[t] = fw /\ HAMMING_LEAF' = h
      /\ edge_arena'[t] = edge_arena[t] /\ edge_cnt'[t] = edge_cnt[t] /\ spill'[t] = spill[t]
  BY <1>1, <1>2, <1>4 DEF Types
<1>9. Types'
  BY <1>1, <1>4 DEF Types
<1>10. Worker(t)'
  BY <1>6, <1>8 DEF Worker
<1>11. \A x, y : WaitsOn(t, x, y) => WaitsOn(t, x, y)'
  BY <1>2, <1>4, <1>6 DEF WaitsOn
<1>12. todo' = todo /\ row' = row
  BY <1>4
<1>13. \A x, y \in Point : <<x, y>> \in Waiting => <<x, y>> \in Waiting'
  BY <1>7, <1>11, <1>12, WaitingStays
<1> QED BY <1>7, <1>9, <1>10, <1>12, <1>13, QuietInv

LEMMA InvStep == Inv /\ [Next]_vars => Inv'
<1> SUFFICES ASSUME Inv, [Next]_vars PROVE Inv'
  OBVIOUS
<1>1. CASE UNCHANGED vars
  <2>1. /\ Types' = Types /\ AllEdges' = AllEdges /\ Waiting' = Waiting
        /\ \A t \in Thread : Worker(t)' = Worker(t)
    BY <1>1 DEF vars, buffers, Types, AllEdges, LeafEdges, Waiting, WaitsOn, Worker
  <2>2. row' = row
    BY <1>1 DEF vars
  <2> QED BY <2>1, <2>2 DEF Inv
<1>2. CASE \E t \in Thread : Step(t)
  <2>1. PICK t \in Thread : Step(t)
    BY <1>2
  <2> QED BY <2>1, TakeInv, MergeForwardInv, MergeReverseInv, NextRowInv, GatherInv, SortRowInv,
             MergeRowInv, MergeSpillInv, LeaveInv DEF Step
<1> QED BY <1>1, <1>2 DEF Next, Finished

(***************************************************************************)
(* Inv (rsq_knn, rsq_knn_hamming_rescore): at any time, a row holds the    *)
(* nearest of a set of edges of the leaves that lacks none but those that  *)
(* are still to be merged into it, and these are all in a leaf nobody has  *)
(* taken up or with the worker at their leaf.                              *)
(***************************************************************************)
THEOREM Invariant == Spec => []Inv
BY InvInit, InvStep, PTL DEF Spec

-----------------------------------------------------------------------------
(* What follows from it. *)

LEMMA Whose ==
  ASSUME Inv, NEW t \in Thread, pc[t] # "idle"
  PROVE  /\ ALeaf(ids[t]) /\ HAMMING_LEAF \in HammingLeaf
         /\ \A x : x \in ToSet(ids[t]) <=> \E j \in 1..Len(ids[t]) : x = ids[t][j]
<1>1. ALeaf(ids[t]) /\ HAMMING_LEAF \in HammingLeaf
  BY DEF Inv, Types, Worker, WorkerOK
<1>2. DOMAIN ids[t] = 1..Len(ids[t])
  BY <1>1, LeafFacts
<1> QED BY <1>1, <1>2 DEF ToSet

(***************************************************************************)
(* OnlyThisLeaf (rsq_knn_hamming_rescore of pipnn_utils.h): although the   *)
(* buffers are thread_local and are never cleared, what a worker merges    *)
(* into a row joins two different points of the leaf it is at, never one   *)
(* of a leaf it was at before: whatever the leaves, their sizes, and how   *)
(* many edges a row gets.                                                  *)
(***************************************************************************)
THEOREM BuffersAreOfThisLeaf == Spec => []OnlyThisLeaf
<1>1. Inv => OnlyThisLeaf
  <2> SUFFICES ASSUME Inv, NEW t \in Thread, InRows(t)
               PROVE  /\ \A i \in 1..Len(ids[t]) :
                           ToSet(ListOf(t, i)) \subseteq ToSet(ids[t]) \ {ids[t][i]}
                      /\ \A e \in ToSet(spill[t]) : e.src \in ToSet(ids[t]) \ {ids[t][e.tgt]}
    BY DEF OnlyThisLeaf
  <2>1. PICK leaf, h, a, cnt, sp : /\ leaf = ids[t] /\ h = HAMMING_LEAF
                                   /\ a = edge_arena[t] /\ cnt = edge_cnt[t] /\ sp = spill[t]
    OBVIOUS
  <2>2. /\ ALeaf(leaf) /\ h \in HammingLeaf
        /\ \A x : x \in ToSet(ids[t]) <=> \E j \in 1..Len(leaf) : x = leaf[j]
    BY <2>1, Whose DEF InRows
  <2>3. Buffered(h, leaf, a, cnt, sp)
    BY <2>1 DEF Inv, Worker, WorkerOK, InRows
  <2>4. \A i, j \in 1..Len(leaf) : leaf[i] = leaf[j] => i = j
    BY <2>2, LeafFacts
  <2>5. ASSUME NEW i \in 1..Len(leaf), NEW y \in ToSet(ListOf(t, i))
        PROVE  \E j \in 1..Len(leaf) : y = leaf[j] /\ y # leaf[i]
    <3>1. PICK q, list : q = cnt[i] /\ list = RowOf(a, i, q)
      OBVIOUS
    <3>2. ListOf(t, i) = list
      BY <2>1, <3>1 DEF ListOf, RowOf
    <3>3. list \in [1..q -> Point] /\ \A x \in 1..q : x - 1 \in 0..(q - 1) /\ list[x] = a[Cell(i, x - 1)]
      BY <2>2, <2>3, <3>1, RowList
    <3>4. PICK x \in 1..q : y = list[x]
      BY <2>5, <3>2, <3>3 DEF ToSet
    <3>5. PICK c \in 0..(cnt[i] - 1) : y = a[Cell(i, c)]
      BY <3>1, <3>3, <3>4
    <3>6. \E j \in 1..Len(leaf) : j # i /\ y = leaf[j]
      BY <2>2, <2>3, <3>5, CellFacts
    <3> QED BY <2>4, <3>6
  <2>6. ASSUME NEW e \in ToSet(sp)
        PROVE  \E j \in 1..Len(leaf) : e.src = leaf[j] /\ e.src # leaf[e.tgt]
    <3>1. DOMAIN sp = 1..Len(sp)
      BY <2>3, LenProperties DEF Buffered
    <3>2. PICK y \in 1..Len(sp) : e = sp[y]
      BY <2>6, <3>1 DEF ToSet
    <3>3. e.tgt \in 1..Len(leaf) /\ \E j \in 1..Len(leaf) : j # e.tgt /\ e.src = leaf[j]
      BY <2>2, <2>3, <3>2, SpillFacts
    <3> QED BY <2>4, <3>3
  <2> QED BY <2>1, <2>2, <2>5, <2>6
<1> QED BY <1>1, Invariant, PTL

(***************************************************************************)
(* ListsAscending (merge_neighbors of knn_heap.h stops at the first pair a *)
(* full row has no use for): every list it is given is in ascending order  *)
(* of the distances it is merged with, the one of the leaf kernel as well  *)
(* as the one put in order again after the distances were rescored.        *)
(***************************************************************************)
THEOREM MergedListsAscend == Spec => []ListsAscending
<1>1. Inv => ListsAscending
  <2> SUFFICES ASSUME Inv, NEW t \in Thread
               PROVE  /\ pc[t] = "merge" =>
                           \A m, n \in 1..Len(ListOf(t, local[t])) : m < n =>
                             Dist[ids[t][local[t]]][ListOf(t, local[t])[m]]
                               <= Dist[ids[t][local[t]]][ListOf(t, local[t])[n]]
                      /\ pc[t] = "reverse" =>
                           \A m, n \in 1..Len(fwd[t]) : m < n =>
                             Dist[ids[t][local[t]]][fwd[t][m]] <= Dist[ids[t][local[t]]][fwd[t][n]]
    BY DEF ListsAscending
  <2>1. ASSUME pc[t] = "merge"
        PROVE  \A m, n \in 1..Len(ListOf(t, local[t])) : m < n =>
                 Dist[ids[t][local[t]]][ListOf(t, local[t])[m]]
                   <= Dist[ids[t][local[t]]][ListOf(t, local[t])[n]]
    <3>1. PICK leaf, h, loc, a, cnt, sp : /\ leaf = ids[t] /\ h = HAMMING_LEAF /\ loc = local[t]
                                          /\ a = edge_arena[t] /\ cnt = edge_cnt[t] /\ sp = spill[t]
      OBVIOUS
    <3>2. ALeaf(leaf) /\ h \in HammingLeaf
      BY <2>1, <3>1, Whose
    <3>3. /\ Buffered(h, leaf, a, cnt, sp) /\ loc \in 1..Len(leaf)
          /\ \A c, d \in 0..(cnt[loc] - 1) :
               c < d => Dist[leaf[loc]][a[Cell(loc, c)]] <= Dist[leaf[loc]][a[Cell(loc, d)]]
      BY <2>1, <3>1 DEF Inv, Worker, WorkerOK
    <3>4. PICK q, list : q = cnt[loc] /\ list = RowOf(a, loc, q)
      OBVIOUS
    <3>5. ListOf(t, local[t]) = list
      BY <3>1, <3>4 DEF ListOf, RowOf
    <3>6. /\ Len(list) = q /\ q \in Nat
          /\ \A x \in 1..q : x - 1 \in 0..(q - 1) /\ list[x] = a[Cell(loc, x - 1)]
      BY <3>2, <3>3, <3>4, RowList
    <3>7. ASSUME NEW m \in 1..q, NEW n \in 1..q, m < n
          PROVE  Dist[leaf[loc]][list[m]] <= Dist[leaf[loc]][list[n]]
      <4>1. PICK c \in 0..(cnt[loc] - 1) : c = m - 1 /\ list[m] = a[Cell(loc, c)]
        BY <3>4, <3>6
      <4>2. PICK d \in 0..(cnt[loc] - 1) : d = n - 1 /\ list[n] = a[Cell(loc, d)]
        BY <3>4, <3>6
      <4>3. c < d
        BY <3>6, <3>7, <4>1, <4>2
      <4> QED BY <3>3, <4>1, <4>2, <4>3
    <3> QED BY <3>1, <3>5, <3>6, <3>7
  <2>2. ASSUME pc[t] = "reverse"
        PROVE  \A m, n \in 1..Len(fwd[t]) : m < n =>
                 Dist[ids[t][local[t]]][fwd[t][m]] <= Dist[ids[t][local[t]]][fwd[t][n]]
    BY <2>2 DEF Inv, Worker, WorkerOK
  <2> QED BY <2>1, <2>2
<1> QED BY <1>1, Invariant, PTL

(***************************************************************************)
(* RowsHaveLeafEdges (rsq_knn and rsq_knn_hamming_rescore of               *)
(* pipnn_utils.h): when every leaf is done, each row of the table has the  *)
(* distances of the k nearest of all edges the leaves gave it, in either   *)
(* direction, whichever workers merged them in whatever order, and however *)
(* many of them found their row's cells taken.                             *)
(***************************************************************************)
THEOREM NoLeafEdgeIsLost == Spec => []RowsHaveLeafEdges
<1>1. Inv => RowsHaveLeafEdges
  <2> SUFFICES ASSUME Inv, Done, NEW i \in Point, NEW d \in {Dist[i][j] : j \in Point}
               PROVE  LET all == CountWithin(i, {j \in Point : <<i, j>> \in AllEdges}, d)
                      IN  CountWithin(i, row[i], d) = IF all < k THEN all ELSE k
    BY DEF RowsHaveLeafEdges
  <2>1. Waiting = {}
    BY DEF Done, Waiting, WaitsOn, WaitsAt
  <2>2. PICK S \in SUBSET Point :
          /\ IsNearest(i, row[i], S)
          /\ \A j \in S : <<i, j>> \in AllEdges
          /\ \A j \in Point : <<i, j>> \in AllEdges => j \in S
    BY <2>1 DEF Inv, HasMerged
  <2>3. S = {j \in Point : <<i, j>> \in AllEdges}
    BY <2>2
  <2>4. d \in Int
    BY Distances
  <2>5. CountWithin(i, row[i], d) = IF CountWithin(i, S, d) < k THEN CountWithin(i, S, d) ELSE k
    BY <2>2, <2>4, NearestCount
  <2> QED BY <2>3, <2>5
<1> QED BY <1>1, Invariant, PTL

(***************************************************************************)
(* TableHasLeafEdges, which the run checks: the three together.            *)
(***************************************************************************)
THEOREM LeavesReachTheTable == Spec => []TableHasLeafEdges
BY BuffersAreOfThisLeaf, MergedListsAscend, NoLeafEdgeIsLost, PTL DEF TableHasLeafEdges
=============================================================================
