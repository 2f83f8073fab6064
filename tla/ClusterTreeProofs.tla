-------------------------- MODULE ClusterTreeProofs --------------------------
(***************************************************************************)
(* The cluster tree, for every number of points, fanouts, sizes and        *)
(* depths: no point is lost, leaves are small and have no id twice, what   *)
(* should be merged is, and neither the depth nor the copies of a point    *)
(* get out of hand.                                                        *)
(***************************************************************************)
EXTENDS ClusterTree, SequenceTheorems, FiniteSetTheorems, TLAPS

-----------------------------------------------------------------------------
(* Recursion over numbers: a set of them has a least one. *)

LEMMA Least1 ==
  ASSUME NEW T \in SUBSET Nat, T # {}
  PROVE  \E x \in T : \A y \in T : x <= y
<1>1. PICK F : F = {1..n : n \in T}
  OBVIOUS
<1>2. F \subseteq FiniteSubsetsOf(Nat) /\ F # {}
  <2>1. \A n \in T : IsFiniteSet(1..n) /\ 1..n \in SUBSET Nat
    <3> TAKE n \in T
    <3>1. IsFiniteSet(1..n)
      BY FS_Interval
    <3> QED BY <3>1
  <2> QED BY <1>1, <2>1 DEF FiniteSubsetsOf
<1>3. PICK A \in F : \A B \in F : ~ (<<B, A>> \in StrictSubsetOrdering(Nat))
  BY <1>2, FS_StrictSubsetOrderingWellFounded, WFMin
<1>4. PICK x \in T : A = 1..x
  BY <1>1, <1>3
<1>5. ASSUME NEW y \in T, y < x PROVE FALSE
  <2>1. 1..y \in F /\ 1..y \in SUBSET Nat /\ A \in SUBSET Nat
    BY <1>1, <1>4
  <2>2. 1..y \subseteq A
    BY <1>4, <1>5
  <2>3. x \in A /\ x \notin 1..y
    BY <1>4, <1>5
  <2> QED BY <1>3, <2>1, <2>2, <2>3 DEF StrictSubsetOrdering
<1> QED BY <1>5

\* Induction up to n, for what holds of the numbers in T.
LEMMA UpTo ==
  ASSUME NEW n \in Nat, NEW T, 0 \in T, \A i \in 1..n : i - 1 \in T => i \in T
  PROVE  \A i \in 0..n : i \in T
<1> SUFFICES ASSUME NEW k \in 0..n, k \notin T PROVE FALSE
  OBVIOUS
<1>1. PICK R : R = {i \in 0..n : i \notin T}
  OBVIOUS
<1>2. R \in SUBSET Nat /\ R # {}
  BY <1>1
<1>3. PICK x \in R : \A y \in R : x <= y
  BY <1>2, Least1
<1>4. x \in 1..n /\ x - 1 \in 0..n /\ ~ (x <= x - 1)
  BY <1>1, <1>3
<1>5. x - 1 \notin R
  BY <1>3, <1>4
<1> QED BY <1>1, <1>3, <1>4, <1>5

-----------------------------------------------------------------------------
(* The ids that are chosen from a sequence. *)

Keeps(f, n, s, S) ==
  f = [i \in 0..n |-> IF i = 0 THEN << >>
                      ELSE IF s[i] \in S THEN Append(f[i - 1], s[i])
                      ELSE f[i - 1]]

LEMMA KeepsOne ==
  ASSUME NEW n \in Nat, NEW s, NEW S, n > 0, NEW f, Keeps(f, n - 1, s, S)
  PROVE  \E g : Keeps(g, n, s, S)
<1>1. PICK g : g = [i \in 0..n |-> IF i = n THEN IF s[n] \in S THEN Append(f[n - 1], s[n])
                                               ELSE f[n - 1]
                                   ELSE f[i]]
  OBVIOUS
<1>2. \A i \in 0..n - 1 : i \in 0..n /\ i # n /\ g[i] = f[i]
  BY <1>1
<1>3. \A i \in 0..n - 1 : f[i] = IF i = 0 THEN << >>
                                 ELSE IF s[i] \in S THEN Append(f[i - 1], s[i]) ELSE f[i - 1]
  BY DEF Keeps
<1>4. ASSUME NEW i \in 0..n
      PROVE  g[i] = IF i = 0 THEN << >>
                    ELSE IF s[i] \in S THEN Append(g[i - 1], s[i]) ELSE g[i - 1]
  <2>1. CASE i = n
    <3>1. n - 1 \in 0..n - 1 /\ n # 0
      OBVIOUS
    <3> QED BY <1>1, <1>2, <2>1, <3>1
  <2>2. CASE i # n /\ i # 0
    <3>1. i \in 0..n - 1 /\ i - 1 \in 0..n - 1
      BY <2>2
    <3> QED BY <1>2, <1>3, <2>2, <3>1
  <2>3. CASE i # n /\ i = 0
    <3>1. i \in 0..n - 1
      BY <2>3
    <3> QED BY <1>2, <1>3, <2>3, <3>1
  <2> QED BY <2>1, <2>2, <2>3
<1>5. g = [i \in 0..n |-> g[i]]
  BY <1>1
<1>6. Keeps(g, n, s, S)
  BY <1>4, <1>5 DEF Keeps
<1> QED BY <1>6

LEMMA KeepsExists ==
  ASSUME NEW n \in Nat, NEW s, NEW S
  PROVE  \E f : Keeps(f, n, s, S)
<1>1. PICK T : T = {i \in 0..n : \E f : Keeps(f, i, s, S)}
  OBVIOUS
<1>2. 0 \in T
  <2>1. Keeps([i \in 0..0 |-> << >>], 0, s, S)
    BY DEF Keeps
  <2> QED BY <1>1, <2>1
<1>3. ASSUME NEW i \in 1..n, i - 1 \in T PROVE i \in T
  <2>1. PICK f : Keeps(f, i - 1, s, S)
    BY <1>1, <1>3
  <2>2. \E g : Keeps(g, i, s, S)
    BY <2>1, KeepsOne
  <2> QED BY <1>1, <2>2
<1>4. n \in T
  BY <1>2, <1>3, UpTo
<1> QED BY <1>1, <1>4

\* What t has of the first n of s.
Picked(t, n, X, s, S) ==
  /\ t \in Seq(X)
  /\ \A k \in 1..Len(t) : t[k] \in S /\ \E j \in 1..n : s[j] = t[k]
  /\ \A j \in 1..n : s[j] \in S => \E k \in 1..Len(t) : t[k] = s[j]
  /\ IsInjective(s) => IsInjective(t)

LEMMA PickedMore ==
  ASSUME NEW X, NEW s \in Seq(X), NEW S, NEW n \in 1..Len(s), NEW t, Picked(t, n - 1, X, s, S),
         NEW u, u = IF s[n] \in S THEN Append(t, s[n]) ELSE t
  PROVE  Picked(u, n, X, s, S)
<1>0. /\ s[n] \in X /\ t \in Seq(X) /\ Len(t) \in Nat
      /\ DOMAIN s = 1..Len(s) /\ DOMAIN t = 1..Len(t)
  BY ElementOfSeq, LenProperties DEF Picked
<1>n. \A j \in 1..n : j = n \/ j \in 1..n - 1
  OBVIOUS
<1>m. \A j \in 1..n - 1 : j \in 1..n /\ j # n /\ j \in DOMAIN s
  BY <1>0
<1>1. CASE s[n] \in S
  <2>1. /\ u \in Seq(X) /\ Len(u) = Len(t) + 1 /\ u[Len(t) + 1] = s[n]
        /\ \A k \in 1..Len(t) : u[k] = t[k]
    BY <1>0, <1>1, AppendProperties
  <2>2. \A k \in 1..Len(u) : k = Len(t) + 1 \/ k \in 1..Len(t)
    BY <1>0, <2>1
  <2>3. \A k \in 1..Len(t) : k \in 1..Len(u) /\ Len(t) + 1 \in 1..Len(u) /\ k # Len(t) + 1
    BY <1>0, <2>1
  <2>4. Len(t) + 1 \in 1..Len(u)
    BY <1>0, <2>1
  <2>5. ASSUME NEW k \in 1..Len(u) PROVE u[k] \in S /\ \E j \in 1..n : s[j] = u[k]
    <3>1. CASE k = Len(t) + 1
      BY <1>1, <2>1, <3>1
    <3>2. CASE k \in 1..Len(t)
      BY <1>m, <2>1, <3>2 DEF Picked
    <3> QED BY <2>2, <3>1, <3>2
  <2>6. ASSUME NEW j \in 1..n, s[j] \in S PROVE \E k \in 1..Len(u) : u[k] = s[j]
    <3>1. CASE j = n
      BY <2>1, <2>4, <3>1
    <3>2. CASE j \in 1..n - 1
      BY <2>1, <2>3, <2>6, <3>2 DEF Picked
    <3> QED BY <1>n, <3>1, <3>2
  <2>7. ASSUME IsInjective(s) PROVE IsInjective(u)
    <3>1. \A k \in 1..Len(t) : t[k] # s[n]
      <4> SUFFICES ASSUME NEW k \in 1..Len(t), t[k] = s[n] PROVE FALSE
        OBVIOUS
      <4>1. PICK j \in 1..n - 1 : s[j] = t[k]
        BY DEF Picked
      <4>2. j \in DOMAIN s /\ n \in DOMAIN s /\ j # n
        BY <1>0, <1>m
      <4> QED BY <2>7, <4>1, <4>2 DEF IsInjective
    <3>2. \A k, l \in 1..Len(t) : t[k] = t[l] => k = l
      BY <1>0, <2>7 DEF Picked, IsInjective
    <3>3. DOMAIN u = 1..Len(u)
      BY <2>1, LenProperties
    <3>4. \A k, l \in 1..Len(u) : u[k] = u[l] => k = l
      BY <2>1, <2>2, <3>1, <3>2
    <3> QED BY <3>3, <3>4 DEF IsInjective
  <2> QED BY <2>1, <2>5, <2>6, <2>7 DEF Picked
<1>2. CASE s[n] \notin S
  BY <1>2, <1>n, <1>m DEF Picked
<1> QED BY <1>1, <1>2

LEMMA ChosenIs ==
  ASSUME NEW X, NEW s \in Seq(X), NEW S
  PROVE  /\ Chosen(s, S) \in Seq(X)
         /\ \A p : p \in ToSet(Chosen(s, S)) <=> p \in ToSet(s) /\ p \in S
         /\ IsInjective(s) => IsInjective(Chosen(s, S))
<1> DEFINE L == Len(s)
<1>0. L \in Nat /\ DOMAIN s = 1..L
  BY LenProperties
<1>1. PICK f : f = CHOOSE g : Keeps(g, L, s, S)
  OBVIOUS
<1>2. Keeps(f, L, s, S)
  BY <1>0, <1>1, KeepsExists
<1>3. Chosen(s, S) = f[L]
  BY <1>1, Zenon DEF Chosen, Keeps
<1>4. /\ f[0] = << >>
      /\ \A i \in 1..L : f[i] = IF s[i] \in S THEN Append(f[i - 1], s[i]) ELSE f[i - 1]
  <2>1. \A i \in 1..L : i \in 0..L /\ i # 0
    OBVIOUS
  <2>2. 0 \in 0..L
    BY <1>0
  <2> QED BY <1>2, <2>1, <2>2 DEF Keeps
<1>5. PICK T : T = {i \in 0..L : Picked(f[i], i, X, s, S)}
  OBVIOUS
<1>6. 0 \in T
  <2>1. << >> \in Seq(X) /\ Len(<< >>) = 0 /\ DOMAIN << >> = 1..0
    BY EmptySeq, LenProperties
  <2>2. Picked(<< >>, 0, X, s, S)
    BY <2>1 DEF Picked, IsInjective
  <2> QED BY <1>0, <1>4, <1>5, <2>2
<1>7. ASSUME NEW i \in 1..L, i - 1 \in T PROVE i \in T
  <2>1. Picked(f[i - 1], i - 1, X, s, S)
    BY <1>5, <1>7
  <2>2. Picked(f[i], i, X, s, S)
    BY <1>4, <2>1, PickedMore
  <2> QED BY <1>5, <2>2
<1>8. L \in T
  <2>1. \A i \in 0..L : i \in T
    BY <1>0, <1>6, <1>7, UpTo
  <2> QED BY <1>0, <2>1
<1>9. PICK t : t = f[L]
  OBVIOUS
<1>10. Picked(t, L, X, s, S)
  BY <1>5, <1>8, <1>9
<1>11. t \in Seq(X) /\ DOMAIN t = 1..Len(t)
  BY <1>10, LenProperties DEF Picked
<1>12. \A p : p \in ToSet(t) <=> p \in ToSet(s) /\ p \in S
  <2> TAKE p
  <2>1. ASSUME p \in ToSet(t) PROVE p \in ToSet(s) /\ p \in S
    <3>1. PICK k \in 1..Len(t) : t[k] = p
      BY <1>11, <2>1 DEF ToSet
    <3>2. p \in S /\ \E j \in 1..L : s[j] = p
      BY <1>10, <3>1 DEF Picked
    <3> QED BY <1>0, <3>2 DEF ToSet
  <2>2. ASSUME p \in ToSet(s), p \in S PROVE p \in ToSet(t)
    <3>1. PICK j \in 1..L : s[j] = p
      BY <1>0, <2>2 DEF ToSet
    <3>2. \E k \in 1..Len(t) : t[k] = p
      BY <1>10, <2>2, <3>1 DEF Picked
    <3> QED BY <1>11, <3>2 DEF ToSet
  <2> QED BY <2>1, <2>2
<1> QED BY <1>3, <1>9, <1>10, <1>11, <1>12 DEF Picked

-----------------------------------------------------------------------------
(* Sets of ids as sequences. *)

LEMMA InSet ==
  ASSUME NEW X, NEW s \in Seq(X)
  PROVE  /\ \A p : p \in ToSet(s) <=> \E i \in 1..Len(s) : s[i] = p
         /\ ToSet(s) \subseteq X
         /\ Len(s) \in Nat /\ DOMAIN s = 1..Len(s)
<1>1. Len(s) \in Nat /\ DOMAIN s = 1..Len(s)
  BY LenProperties
<1>2. \A i \in 1..Len(s) : s[i] \in X
  BY ElementOfSeq
<1> QED BY <1>1, <1>2 DEF ToSet

LEMMA AsSeq ==
  ASSUME NEW S, NEW n \in Nat, NEW f \in [1..n -> S]
  PROVE  f \in Seq(S) /\ Len(f) = n /\ DOMAIN f = 1..n
<1>1. f \in Seq(S)
  BY SeqDef
<1>2. Len(f) \in Nat /\ 1..Len(f) = 1..n
  BY <1>1, LenProperties
<1> QED BY <1>1, <1>2

LEMMA IdsAreFinite ==
  ASSUME NEW X, NEW s \in Seq(X)
  PROVE  /\ IsFiniteSet(ToSet(s))
         /\ IsInjective(s) => Cardinality(ToSet(s)) = Len(s)
<1>1. /\ Len(s) \in Nat /\ DOMAIN s = 1..Len(s) /\ s \in [1..Len(s) -> X]
      /\ \A p : p \in ToSet(s) <=> \E i \in 1..Len(s) : s[i] = p
  BY InSet, LenProperties
<1>2. s \in [1..Len(s) -> ToSet(s)]
  <2>1. \A i \in 1..Len(s) : s[i] \in ToSet(s)
    BY <1>1
  <2>2. s = [i \in 1..Len(s) |-> s[i]]
    BY <1>1
  <2> QED BY <2>1, <2>2
<1>3. s \in Surjection(1..Len(s), ToSet(s))
  BY <1>1, <1>2 DEF Surjection
<1>4. IsFiniteSet(ToSet(s))
  BY <1>1, <1>3, FS_NatSurjection DEF ExistsSurjection
<1>5. ASSUME IsInjective(s) PROVE Cardinality(ToSet(s)) = Len(s)
  <2>1. s \in Injection(1..Len(s), ToSet(s))
    BY <1>1, <1>2, <1>5 DEF Injection, IsInjective
  <2>2. ExistsBijection(1..Len(s), ToSet(s))
    BY <1>3, <2>1 DEF ExistsBijection, Bijection
  <2> QED BY <1>1, <2>2, FS_CountingElements
<1> QED BY <1>4, <1>5

LEMMA SetToSeqIs ==
  ASSUME NEW S, IsFiniteSet(S)
  PROVE  /\ SetToSeq(S) \in Seq(S) /\ Len(SetToSeq(S)) = Cardinality(S)
         /\ IsInjective(SetToSeq(S)) /\ ToSet(SetToSeq(S)) = S
<1> DEFINE n == Cardinality(S)
<1>1. n \in Nat /\ ExistsBijection(1..n, S)
  BY FS_CardinalityType
<1>2. PICK g \in Bijection(1..n, S) : TRUE
  BY <1>1 DEF ExistsBijection
<1>3. g \in [1..n -> S] /\ IsInjective(g)
  BY <1>2 DEF Bijection, Injection, IsInjective
<1>4. PICK f : f = SetToSeq(S)
  OBVIOUS
<1>5. f \in [1..n -> S] /\ IsInjective(f)
  BY <1>3, <1>4 DEF SetToSeq
<1>6. f \in Seq(S) /\ Len(f) = n
  <2>1. f \in Seq(S)
    BY <1>1, <1>5, SeqDef
  <2>2. Len(f) \in Nat /\ 1..Len(f) = 1..n
    BY <1>5, <2>1, LenProperties
  <2> QED BY <1>1, <2>1, <2>2
<1>7. f \in Injection(1..n, S)
  BY <1>5 DEF Injection, IsInjective
<1>8. f \in Surjection(1..n, S)
  <2>1. IsFiniteSet(1..n) /\ Cardinality(1..n) = n
    BY <1>1, FS_Interval
  <2> QED BY <1>7, <2>1, FS_Injection
<1>9. ToSet(f) = S
  BY <1>5, <1>8 DEF Surjection, ToSet
<1> QED BY <1>4, <1>5, <1>6, <1>9

LEMMA RemoveDuplicatesIs ==
  ASSUME NEW X, NEW s \in Seq(X)
  PROVE  /\ RemoveDuplicates(s) \in Seq(X) /\ IsInjective(RemoveDuplicates(s))
         /\ ToSet(RemoveDuplicates(s)) = ToSet(s)
         /\ Len(RemoveDuplicates(s)) = Cardinality(ToSet(s))
<1>1. IsFiniteSet(ToSet(s)) /\ ToSet(s) \subseteq X
  BY IdsAreFinite, InSet
<1>2. /\ SetToSeq(ToSet(s)) \in Seq(ToSet(s)) /\ IsInjective(SetToSeq(ToSet(s)))
      /\ ToSet(SetToSeq(ToSet(s))) = ToSet(s) /\ Len(SetToSeq(ToSet(s))) = Cardinality(ToSet(s))
  BY <1>1, SetToSeqIs
<1>3. SetToSeq(ToSet(s)) \in Seq(X)
  BY <1>1, <1>2, SeqMonotonic
<1> QED BY <1>2, <1>3 DEF RemoveDuplicates

\* A bucket that takes in another one has the ids of both, each once, and is no
\* smaller than it was.
LEMMA JoinedIs ==
  ASSUME NEW X, NEW a \in Seq(X), NEW b \in Seq(X), IsInjective(a),
         NEW r, r = RemoveDuplicates(a \o b)
  PROVE  /\ r \in Seq(X) /\ IsInjective(r) /\ Len(r) >= Len(a) /\ Len(r) \in Nat
         /\ \A p : p \in ToSet(r) <=> p \in ToSet(a) \/ p \in ToSet(b)
<1>1. /\ a \o b \in Seq(X) /\ Len(a \o b) = Len(a) + Len(b) /\ Len(a) \in Nat /\ Len(b) \in Nat
      /\ \A i \in 1..Len(a) + Len(b) :
            (a \o b)[i] = IF i <= Len(a) THEN a[i] ELSE b[i - Len(a)]
  BY ConcatProperties, LenProperties
<1>2. /\ r \in Seq(X) /\ IsInjective(r) /\ ToSet(r) = ToSet(a \o b)
      /\ Len(r) = Cardinality(ToSet(a \o b))
  BY <1>1, RemoveDuplicatesIs
<1>3. /\ \A p : p \in ToSet(a) <=> \E i \in 1..Len(a) : a[i] = p
      /\ \A p : p \in ToSet(b) <=> \E i \in 1..Len(b) : b[i] = p
      /\ \A p : p \in ToSet(a \o b) <=> \E i \in 1..Len(a) + Len(b) : (a \o b)[i] = p
  BY <1>1, InSet
<1>4. ASSUME NEW p PROVE p \in ToSet(a \o b) <=> p \in ToSet(a) \/ p \in ToSet(b)
  <2>1. ASSUME NEW i \in 1..Len(a) PROVE i \in 1..Len(a) + Len(b) /\ (a \o b)[i] = a[i]
    BY <1>1
  <2>2. ASSUME NEW i \in 1..Len(b)
        PROVE  /\ Len(a) + i \in 1..Len(a) + Len(b) /\ ~ (Len(a) + i <= Len(a))
               /\ (Len(a) + i) - Len(a) = i
    BY <1>1
  <2>3. ASSUME NEW i \in 1..Len(b) PROVE (a \o b)[Len(a) + i] = b[i]
    <3>1. PICK m : m = Len(a) + i
      OBVIOUS
    <3>2. m \in 1..Len(a) + Len(b) /\ ~ (m <= Len(a)) /\ m - Len(a) = i
      BY <2>2, <3>1
    <3>3. (a \o b)[m] = b[m - Len(a)]
      BY <1>1, <3>2
    <3> QED BY <3>1, <3>2, <3>3
  <2>4. ASSUME NEW i \in 1..Len(a) + Len(b), i \notin 1..Len(a)
        PROVE  ~ (i <= Len(a)) /\ i - Len(a) \in 1..Len(b)
    BY <1>1, <2>4
  <2>5. \A i \in 1..Len(a) : i <= Len(a)
    BY <1>1
  <2>6. ASSUME p \in ToSet(a) \/ p \in ToSet(b) PROVE p \in ToSet(a \o b)
    BY <1>3, <2>1, <2>2, <2>3, <2>6
  <2>7. ASSUME p \in ToSet(a \o b) PROVE p \in ToSet(a) \/ p \in ToSet(b)
    <3>1. PICK i \in 1..Len(a) + Len(b) : (a \o b)[i] = p
      BY <1>3, <2>7
    <3>2. CASE i \in 1..Len(a)
      BY <1>3, <2>1, <3>1, <3>2
    <3>3. CASE i \notin 1..Len(a)
      <4>1. ~ (i <= Len(a)) /\ i - Len(a) \in 1..Len(b)
        BY <2>4, <3>3
      <4>2. p = b[i - Len(a)]
        BY <1>1, <3>1, <4>1
      <4> QED BY <1>3, <4>1, <4>2
    <3> QED BY <3>2, <3>3
  <2> QED BY <2>6, <2>7
<1>5. Len(r) >= Len(a) /\ Len(r) \in Nat
  <2>1. IsFiniteSet(ToSet(a \o b)) /\ Cardinality(ToSet(a)) = Len(a)
    BY <1>1, IdsAreFinite
  <2>2. ToSet(a) \subseteq ToSet(a \o b)
    BY <1>4
  <2>3. Cardinality(ToSet(a)) <= Cardinality(ToSet(a \o b))
    BY <2>1, <2>2, FS_Subset
  <2>4. Len(r) \in Nat
    BY <1>2, LenProperties
  <2> QED BY <1>1, <1>2, <2>1, <2>3, <2>4
<1> QED BY <1>2, <1>4, <1>5

-----------------------------------------------------------------------------
(* The order of the buckets. *)

\* r has the buckets of b, each once, bucket n of r being bucket from[n] of b.
Rearranged(r, b, from) ==
  /\ Len(r) = Len(b)
  /\ from \in [1..Len(b) -> 1..Len(b)]
  /\ r = [n \in 1..Len(b) |-> b[from[n]]]
  /\ \A n, m \in 1..Len(b) : from[n] = from[m] => n = m
  /\ \A m \in 1..Len(b) : \E n \in 1..Len(b) : from[n] = m

\* Sorted but for bucket i, which may have to move up.
SortedBut(b, i) ==
  \A m, n \in 1..Len(b) : m < n /\ n # i => Len(b[m]) >= Len(b[n])

LEMMA BubbleUpIs ==
  ASSUME NEW X, NEW b \in Seq(Seq(X)), NEW i \in 1..Len(b), SortedBut(b, i),
         NEW r, r = BubbleUp(b, i)
  PROVE  Sorted(r) /\ \E from : Rearranged(r, b, from)
<1> DEFINE L == Len(b)
<1>0. L \in Nat /\ DOMAIN b = 1..L /\ i \in 1..L /\ \A n \in 1..L : Len(b[n]) \in Nat
  <2>1. \A n \in 1..L : b[n] \in Seq(X)
    BY ElementOfSeq
  <2>2. \A n \in 1..L : Len(b[n]) \in Nat
    BY <2>1, LenProperties
  <2> QED BY <2>2, LenProperties
<1>1. PICK T : T = {j \in 1..i : \A m \in j..(i - 1) : Len(b[m]) < Len(b[i])}
  OBVIOUS
<1>2. T \in SUBSET Nat /\ i \in T
  BY <1>0, <1>1
<1>3. PICK k \in T : \A y \in T : k <= y
  BY <1>2, Least1
<1>4. ASSUME k > 1 PROVE Len(b[k - 1]) >= Len(b[i])
  <2>1. k - 1 \in 1..i /\ k - 1 \notin T /\ k - 1 \in 1..L
    <3>1. k \in 1..i /\ k - 1 \in 1..i /\ k - 1 \in 1..L /\ ~ (k <= k - 1)
      BY <1>0, <1>1, <1>4
    <3> QED BY <1>3, <3>1
  <2>2. PICK m \in (k - 1)..(i - 1) : ~ (Len(b[m]) < Len(b[i]))
    BY <1>1, <2>1
  <2>3. m = k - 1 \/ m \in k..(i - 1)
    BY <1>0, <1>1, <2>1, <2>2
  <2>4. m = k - 1
    BY <1>1, <2>2, <2>3
  <2> QED BY <1>0, <2>1, <2>2, <2>4
<1>5. PICK j : j = Place(b, i)
  OBVIOUS
<1>6. /\ j \in 1..i /\ \A m \in j..(i - 1) : Len(b[m]) < Len(b[i])
      /\ j > 1 => Len(b[j - 1]) >= Len(b[i])
  <2>1. k \in 1..i /\ \A m \in k..(i - 1) : Len(b[m]) < Len(b[i])
    BY <1>1
  <2>2. \E l \in 1..i : /\ \A m \in l..(i - 1) : Len(b[m]) < Len(b[i])
                        /\ l > 1 => Len(b[l - 1]) >= Len(b[i])
    BY <1>4, <2>1
  <2> QED BY <1>5, <2>2 DEF Place
<1>7. r = [n \in 1..L |-> CASE n = j -> b[i]
                            [] n \in (j + 1)..i -> b[n - 1]
                            [] OTHER -> b[n]]
  BY <1>0, <1>5 DEF BubbleUp
<1>8. PICK from : from = [n \in 1..L |-> IF n = j THEN i ELSE IF n \in (j + 1)..i THEN n - 1 ELSE n]
  OBVIOUS
<1>9. \A n \in 1..L : r[n] = b[from[n]]
  BY <1>6, <1>7, <1>8
<1>10. from \in [1..L -> 1..L]
  BY <1>0, <1>6, <1>8, SMTT(30)
<1> HIDE DEF L
<1>b. i \in Nat /\ j \in Nat /\ L \in Nat /\ 1 <= j /\ j <= i /\ i <= L
  BY <1>0, <1>6
<1>f. \A n \in 1..L : n \in Nat /\ from[n] = IF n = j THEN i ELSE IF n \in (j + 1)..i THEN n - 1 ELSE n
  BY <1>8
<1>11. ASSUME NEW n \in 1..L, NEW m \in 1..L, from[n] = from[m] PROVE n = m
  <2>1. ASSUME NEW x \in 1..L
        PROVE  \/ x = j /\ from[x] = i
               \/ j < x /\ x <= i /\ from[x] = x - 1 /\ x \in Nat
               \/ (x < j \/ i < x) /\ from[x] = x /\ x \in Nat
    BY <1>b, <1>f
  <2>2. /\ \/ n = j /\ from[n] = i
           \/ j < n /\ n <= i /\ from[n] = n - 1
           \/ (n < j \/ i < n) /\ from[n] = n
        /\ \/ m = j /\ from[m] = i
           \/ j < m /\ m <= i /\ from[m] = m - 1
           \/ (m < j \/ i < m) /\ from[m] = m
        /\ n \in Nat /\ m \in Nat
    BY <1>f, <2>1
  <2>3. PICK x, y : x = from[n] /\ y = from[m]
    OBVIOUS
  <2> QED BY <1>b, <1>11, <2>2, <2>3
<1>12. ASSUME NEW m \in 1..L PROVE \E n \in 1..L : from[n] = m
  <2>1. CASE m = i
    <3>1. j \in 1..L /\ from[j] = m
      BY <1>b, <1>f, <2>1
    <3> QED BY <3>1
  <2>2. CASE m \in j..(i - 1)
    <3>1. m + 1 \in 1..L /\ from[m + 1] = m
      BY <1>0, <1>6, <1>8, <2>2
    <3> QED BY <3>1
  <2>3. CASE m # i /\ m \notin j..(i - 1)
    <3>1. m # j /\ m \notin (j + 1)..i
      BY <1>b, <2>3
    <3> QED BY <1>f, <3>1
  <2> QED BY <2>1, <2>2, <2>3
<1>13. Len(r) = L /\ DOMAIN r = 1..L /\ r = [n \in 1..L |-> b[from[n]]]
  <2>1. r = [n \in 1..L |-> b[from[n]]]
    BY <1>7, <1>9
  <2>2. \A n \in 1..L : b[from[n]] \in Seq(X)
    BY <1>10, ElementOfSeq DEF L
  <2>3. r \in [1..L -> Seq(X)]
    BY <2>1, <2>2
  <2>4. r \in Seq(Seq(X)) /\ Len(r) = L /\ DOMAIN r = 1..L
    BY <1>0, <2>3, AsSeq
  <2> QED BY <2>1, <2>4
<1>14. Sorted(r)
  <2> SUFFICES ASSUME NEW m \in 1..L, NEW n \in 1..L, m < n
               PROVE  Len(b[from[m]]) >= Len(b[from[n]])
    <3>1. \A m, n \in 1..L : m < n => Len(r[m]) >= Len(r[n])
      BY <1>9
    <3> QED BY <1>13, <3>1 DEF Sorted
  <2>0. /\ \A x, y \in 1..L : x < y /\ y # i => Len(b[x]) >= Len(b[y])
        /\ i - 1 < L
    BY <1>0 DEF SortedBut, L
  <2>1. CASE m < j /\ n = j
    <3>1. /\ j - 1 \in 1..L /\ j > 1 /\ (m = j - 1 \/ m < j - 1) /\ j - 1 # i
          /\ from[m] = m /\ from[n] = i
      BY <1>b, <1>f, <2>1
    <3>2. Len(b[m]) >= Len(b[j - 1]) /\ m \in 1..L
      BY <1>0, <2>0, <3>1
    <3>3. Len(b[j - 1]) >= Len(b[i])
      BY <1>6, <3>1
    <3>4. Len(b[m]) \in Nat /\ Len(b[j - 1]) \in Nat /\ Len(b[i]) \in Nat
      BY <1>0, <3>1
    <3> HIDE DEF L
    <3>5. Len(b[m]) >= Len(b[i])
      BY <3>2, <3>3, <3>4
    <3> QED BY <3>1, <3>5
  <2>2. CASE m = j /\ n \in (j + 1)..i
    <3>1. from[m] = i /\ from[n] = n - 1 /\ n - 1 \in j..(i - 1) /\ n - 1 \in 1..L
      BY <1>b, <1>f, <2>2
    <3>2. Len(b[n - 1]) < Len(b[i]) /\ Len(b[n - 1]) \in Nat /\ Len(b[i]) \in Nat
      BY <1>0, <1>6, <3>1
    <3> QED BY <3>1, <3>2
  <2>3. CASE m = j /\ n > i
    <3>1. from[m] = i /\ from[n] = n
      BY <1>b, <1>f, <2>3
    <3> QED BY <1>0, <2>0, <2>3, <3>1
  <2>4. CASE m # j /\ n # j
    <3>1. from[m] \in 1..L /\ from[n] \in 1..L
      BY <1>10
    <3>2. from[m] < from[n] /\ from[n] # i
      <4>1. m \in Nat /\ n \in Nat /\ from[m] = (IF m \in (j + 1)..i THEN m - 1 ELSE m)
            /\ from[n] = (IF n \in (j + 1)..i THEN n - 1 ELSE n)
        BY <1>f, <2>4
      <4>2. CASE m \in (j + 1)..i
        BY <1>b, <2>4, <4>1, <4>2
      <4>3. CASE m \notin (j + 1)..i
        BY <1>b, <2>4, <4>1, <4>3
      <4> QED BY <4>2, <4>3
    <3> QED BY <2>0, <3>1, <3>2
  <2>5. \/ m < j /\ n = j
        \/ m = j /\ n \in (j + 1)..i
        \/ m = j /\ n > i
        \/ m # j /\ n # j
    BY <1>b
  <2> QED BY <2>1, <2>2, <2>3, <2>4, <2>5
<1> QED BY <1>9, <1>10, <1>11, <1>12, <1>13, <1>14 DEF Rearranged, L

-----------------------------------------------------------------------------
(* Products, and the runs of a bucket that is split. *)

LEMMA Product ==
  ASSUME NEW a \in Nat, NEW b \in Nat
  PROVE  a * b \in Nat /\ (a # 0 /\ b # 0 => a * b # 0)
OBVIOUS

LEMMA Steps ==
  ASSUME NEW a \in Nat, NEW b \in Nat, NEW M \in Nat, a < b
  PROVE  a * M + M <= b * M /\ a * M \in Nat /\ b * M \in Nat
<1>1. PICK c \in Nat : b = a + 1 + c
  <2>1. b - a - 1 \in Nat /\ b = a + 1 + (b - a - 1)
    OBVIOUS
  <2> QED BY <2>1
<1>2. c * M \in Nat /\ a * M \in Nat /\ b * M \in Nat
  BY Product
<1>3. (a + 1 + c) * M = a * M + M + c * M
  OBVIOUS
<1> QED BY <1>1, <1>2, <1>3

LEMMA RunOf ==
  ASSUME NEW M \in Nat \ {0}, NEW n \in Nat
  PROVE  \E k \in 0..n : k * M <= n /\ n < (k + 1) * M
<1>1. PICK T : T = {k \in Nat : n < (k + 1) * M}
  OBVIOUS
<1>2. T \in SUBSET Nat /\ n \in T
  <2>1. n < (n + 1) * M
    <3>1. PICK m \in Nat : M = m + 1
      <4>1. M - 1 \in Nat /\ M = (M - 1) + 1
        OBVIOUS
      <4> QED BY <4>1
    <3>2. (n + 1) * m \in Nat
      BY Product
    <3>3. (n + 1) * (m + 1) = (n + 1) * m + n + 1
      OBVIOUS
    <3> QED BY <3>1, <3>2, <3>3
  <2> QED BY <1>1, <2>1
<1>3. PICK k \in T : \A y \in T : k <= y
  BY <1>2, Least1
<1>4. k \in Nat /\ k <= n /\ n < (k + 1) * M
  BY <1>1, <1>2, <1>3
<1>5. k * M <= n
  <2>1. CASE k = 0
    BY <2>1
  <2>2. CASE k # 0
    <3>1. PICK j \in Nat : j = k - 1
      BY <1>4, <2>2
    <3>2. j \notin T /\ k = j + 1
      BY <1>3, <1>4, <3>1
    <3>3. ~ (n < k * M)
      BY <1>1, <3>2
    <3>4. k * M \in Nat
      BY <1>4, Product
    <3> QED BY <3>3, <3>4
  <2> QED BY <2>1, <2>2
<1>6. k \in 0..n
  BY <1>4
<1> QED BY <1>4, <1>5, <1>6

\* A run is a bucket of at most MAX_CLUSTER_SIZE ids, and every id is in one run.
LEMMA RunsAre ==
  ASSUME ClusterTreeAssumption, NEW X, NEW b \in Seq(X), IsInjective(b)
  PROVE  /\ \A r \in Runs(b) : /\ r \in Seq(X) /\ Len(r) \in 1..MAX_CLUSTER_SIZE /\ IsInjective(r)
                               /\ ToSet(r) \subseteq ToSet(b)
         /\ \A p \in ToSet(b) : \E r \in Runs(b) : p \in ToSet(r)
         /\ \A p : \A r, s \in Runs(b) : p \in ToSet(r) /\ p \in ToSet(s) => r = s
<1> DEFINE M == MAX_CLUSTER_SIZE
           L == Len(b)
           From(k) == k * M + 1
           To(k) == Least((k + 1) * M, L)
<1>0. /\ M \in Nat \ {0} /\ L \in Nat /\ DOMAIN b = 1..L
      /\ \A p : p \in ToSet(b) <=> \E i \in 1..L : b[i] = p
  BY InSet DEF ClusterTreeAssumption
<1>1. PICK K : K = {k \in 0..L : k * M < L}
  OBVIOUS
<1>2. Runs(b) = {SubSeq(b, From(k), To(k)) : k \in K}
  BY <1>1 DEF Runs
<1>3. ASSUME NEW k \in K
      PROVE  /\ k \in Nat /\ From(k) \in Nat /\ To(k) \in Nat
             /\ 1 <= From(k) /\ From(k) <= To(k) /\ To(k) <= L /\ To(k) < From(k) + M
             /\ To(k) <= (k + 1) * M
  <2>1. k \in Nat /\ k * M \in Nat /\ k * M < L
    BY <1>0, <1>1, Product
  <2>2. (k + 1) * M = k * M + M
    BY <1>0, <2>1
  <2> QED BY <1>0, <2>1, <2>2 DEF Least
<1>4. ASSUME NEW k \in K, NEW r, r = SubSeq(b, From(k), To(k))
      PROVE  /\ r \in Seq(X) /\ Len(r) \in 1..M /\ IsInjective(r)
             /\ \A p : p \in ToSet(r) <=> \E i \in From(k)..To(k) : b[i] = p
  <2> DEFINE F == From(k)
             G == To(k)
  <2>0. /\ F \in Nat /\ G \in Nat /\ 1 <= F /\ F <= G /\ G <= L /\ G < F + M
    BY <1>3
  <2> HIDE DEF From, To, F, G
  <2>x. r = SubSeq(b, F, G)
    BY <1>4 DEF F, G
  <2>1. \A i \in F..G : i \in 1..L /\ b[i] \in X
    <3>1. \A i \in F..G : i \in 1..L
      BY <1>0, <2>0
    <3> QED BY <3>1, ElementOfSeq
  <2>2. /\ r \in Seq(X) /\ Len(r) = G - F + 1
        /\ \A i \in 1..(G - F + 1) : r[i] = b[F + i - 1]
    BY <2>0, <2>1, <2>x, SubSeqProperties
  <2>3. Len(r) \in 1..M
    BY <1>0, <2>0, <2>2
  <2>4. DOMAIN r = 1..(G - F + 1) /\ \A p : p \in ToSet(r) <=> \E i \in 1..(G - F + 1) : r[i] = p
    BY <2>2, InSet
  <2>5. ASSUME NEW i \in 1..(G - F + 1) PROVE F + i - 1 \in F..G
    BY <2>0
  <2>6. ASSUME NEW i \in F..G PROVE i - F + 1 \in 1..(G - F + 1) /\ F + (i - F + 1) - 1 = i
    BY <2>0
  <2>7. IsInjective(r)
    <3> SUFFICES ASSUME NEW i \in 1..(G - F + 1), NEW j \in 1..(G - F + 1), r[i] = r[j]
                 PROVE  i = j
      BY <2>4 DEF IsInjective
    <3>1. b[F + i - 1] = b[F + j - 1]
      BY <2>2
    <3>2. F + i - 1 \in 1..L /\ F + j - 1 \in 1..L
      BY <2>1, <2>5
    <3>3. F + i - 1 = F + j - 1
      BY <1>0, <3>1, <3>2 DEF IsInjective
    <3> QED BY <2>0, <3>3
  <2>8. ASSUME NEW p, NEW i \in F..G, b[i] = p PROVE \E j \in 1..(G - F + 1) : r[j] = p
    <3>1. PICK j : j = i - F + 1
      OBVIOUS
    <3>2. j \in 1..(G - F + 1) /\ F + j - 1 = i
      BY <2>6, <3>1
    <3>3. r[j] = p
      BY <2>2, <2>8, <3>2
    <3> QED BY <3>2, <3>3
  <2>9. ASSUME NEW p, NEW j \in 1..(G - F + 1), r[j] = p PROVE \E i \in F..G : b[i] = p
    BY <2>2, <2>5, <2>9
  <2>10. \A p : p \in ToSet(r) <=> \E i \in F..G : b[i] = p
    BY <2>4, <2>8, <2>9
  <2> QED BY <2>2, <2>3, <2>7, <2>10 DEF F, G
<1>i. ASSUME NEW k \in K PROVE From(k)..To(k) \subseteq 1..L /\ k \in Nat
  BY <1>0, <1>3
<1>5. ASSUME NEW r \in Runs(b)
      PROVE  /\ r \in Seq(X) /\ Len(r) \in 1..M /\ IsInjective(r) /\ ToSet(r) \subseteq ToSet(b)
  <2>1. PICK k \in K : r = SubSeq(b, From(k), To(k))
    BY <1>2
  <2>2. From(k)..To(k) \subseteq 1..L
    BY <1>i
  <2>3. /\ r \in Seq(X) /\ Len(r) \in 1..M /\ IsInjective(r)
        /\ \A p : p \in ToSet(r) <=> \E i \in From(k)..To(k) : b[i] = p
    BY <1>4, <2>1
  <2> HIDE DEF From, To
  <2> QED BY <1>0, <2>2, <2>3
<1>6. ASSUME NEW p \in ToSet(b) PROVE \E r \in Runs(b) : p \in ToSet(r)
  <2>1. PICK i \in 1..L : b[i] = p
    BY <1>0
  <2>2. PICK k \in 0..(i - 1) : k * M <= i - 1 /\ i - 1 < (k + 1) * M
    <3>1. i - 1 \in Nat
      BY <1>0
    <3> QED BY <1>0, <3>1, RunOf
  <2>3. k * M \in Nat /\ (k + 1) * M \in Nat /\ k \in 0..L
    BY <1>0, Product
  <2>4. k \in K /\ i \in From(k)..To(k)
    BY <1>0, <1>1, <2>2, <2>3 DEF Least
  <2>5. PICK r : r = SubSeq(b, From(k), To(k))
    OBVIOUS
  <2>6. r \in Runs(b)
    BY <1>2, <2>4, <2>5
  <2>7. \A q : q \in ToSet(r) <=> \E j \in From(k)..To(k) : b[j] = q
    BY <1>4, <2>4, <2>5
  <2> HIDE DEF From, To
  <2> QED BY <2>1, <2>4, <2>6, <2>7
<1>7. ASSUME NEW k \in K, NEW j \in K, k < j, NEW m \in From(k)..To(k) PROVE m \notin From(j)..To(j)
  <2>1. k \in Nat /\ j \in Nat /\ (k + 1) * M = k * M + M /\ To(k) <= (k + 1) * M /\ To(k) \in Nat
    BY <1>0, <1>3
  <2>2. k * M + M <= j * M /\ k * M \in Nat /\ j * M \in Nat
    BY <1>0, <1>7, <2>1, Steps
  <2> HIDE DEF To
  <2> QED BY <1>0, <2>1, <2>2
<1>8. ASSUME NEW p, NEW r \in Runs(b), NEW s \in Runs(b), p \in ToSet(r), p \in ToSet(s) PROVE r = s
  <2>1. PICK k \in K, j \in K : r = SubSeq(b, From(k), To(k)) /\ s = SubSeq(b, From(j), To(j))
    BY <1>2
  <2>2. /\ \A q : q \in ToSet(r) <=> \E i \in From(k)..To(k) : b[i] = q
        /\ \A q : q \in ToSet(s) <=> \E i \in From(j)..To(j) : b[i] = q
        /\ k \in Nat /\ j \in Nat
        /\ From(k)..To(k) \subseteq 1..L /\ From(j)..To(j) \subseteq 1..L
    <3>1. From(k)..To(k) \subseteq 1..L /\ From(j)..To(j) \subseteq 1..L /\ k \in Nat /\ j \in Nat
      BY <1>i
    <3> HIDE DEF From, To
    <3> QED BY <1>4, <2>1, <3>1
  <2> HIDE DEF From, To
  <2>3. PICK m \in From(k)..To(k) : b[m] = p
    BY <1>8, <2>2
  <2>4. PICK n \in From(j)..To(j) : b[n] = p
    BY <1>8, <2>2
  <2>5. m = n
    BY <1>0, <2>2, <2>3, <2>4 DEF IsInjective
  <2>6. ~ (k < j) /\ ~ (j < k)
    BY <1>7, <2>5
  <2>7. k = j
    BY <2>2, <2>6
  <2> QED BY <2>1, <2>7
<1> QED BY <1>5, <1>6, <1>8

-----------------------------------------------------------------------------
(* The inductive invariant, in named parts. *)

Bucket == {s \in Seq(Points) : s # << >> /\ IsInjective(s)}

Shape ==
  /\ scheme \in Schemes /\ round \in 0..scheme.rounds
  /\ pending \subseteq [pts : Bucket, depth : Nat, split : BOOLEAN, path : Seq(Nat)]
  /\ merging \in [depth : Nat, path : Seq(Nat), size : Nat, buckets : Seq(Bucket),
                  stuck : BOOLEAN]
  /\ leaves \subseteq [ids : SUBSET Points, size : 1..MAX_CLUSTER_SIZE, path : Seq(Nat)]

Counted == \A l \in leaves : l.size = Cardinality(l.ids)

Depths ==
  /\ merging.depth <= MAX_DEPTH + 1
  /\ \A c \in pending : c.depth <= IF c.split THEN MAX_DEPTH + 2 ELSE MAX_DEPTH + 1

Order ==
  /\ Sorted(merging.buckets)
  /\ merging.stuck => /\ Len(merging.buckets) > 1
                      /\ Targets(Front(merging.buckets), Last(merging.buckets)) = {}

Holds(p) == \/ \E l \in leaves : p \in l.ids
            \/ \E c \in pending : p \in Ids(c)
            \/ \E i \in 1..Len(merging.buckets) : p \in ToSet(merging.buckets[i])

Covered == round < scheme.rounds => \A p \in Points : Holds(p)

\* A thing that has p, and how many leaves it may still put p into.
Part(kind, of, weight) == [kind |-> kind, of |-> of, weight |-> weight]

Weight(f, d) == IF d < Len(f) THEN CopiesFrom(f)[d] ELSE 1

PartsOf(p, P, m, L, f) ==
  {Part("leaf", l, 1) : l \in {l \in L : p \in l.ids}}
  \cup {Part("cluster", c, Weight(f, c.depth)) : c \in {c \in P : p \in ToSet(c.pts)}}
  \cup {Part("bucket", i, Weight(f, m.depth + 1)) :
          i \in {i \in 1..Len(m.buckets) : p \in ToSet(m.buckets[i])}}

\* The parts can be given separate intervals of 1..M, each as long as its weight.
Apart(a, x, b, y) == a + x <= b \/ b + y <= a

Share(Q, M) ==
  \E at \in [Q -> 0..M] :
    /\ \A q \in Q : at[q] + q.weight <= M
    /\ \A q, r \in Q : q # r => Apart(at[q], q.weight, at[r], r.weight)

Copied == \A p \in Points : Share(PartsOf(p, pending, merging, leaves, scheme.fanouts), MaxCopies)

IInv == Shape /\ Counted /\ Depths /\ Order /\ Covered /\ Copied

-----------------------------------------------------------------------------
(* The products of the fanouts. *)

Products(g, f, e) ==
  g = [d \in e..Len(f) |-> IF d = Len(f) THEN 1 ELSE f[d + 1] * g[d + 1]]

LEMMA ProductsExist ==
  ASSUME NEW f, Len(f) \in Nat
  PROVE  \E g : Products(g, f, 0)
<1> DEFINE L == Len(f)
<1>1. PICK T : T = {k \in 0..L : \E g : Products(g, f, L - k)}
  OBVIOUS
<1>2. 0 \in T
  <2>1. PICK g : g = [d \in L..L |-> 1]
    OBVIOUS
  <2>2. Products(g, f, L - 0)
    BY <2>1 DEF Products
  <2> QED BY <1>1, <2>2
<1>3. ASSUME NEW k \in 1..L, k - 1 \in T PROVE k \in T
  <2>1. PICK g : Products(g, f, L - (k - 1))
    BY <1>1, <1>3
  <2>2. PICK e : e = L - k
    OBVIOUS
  <2>3. e \in 0..L /\ e < L /\ L - (k - 1) = e + 1
    BY <2>2
  <2>4. g = [d \in (e + 1)..L |-> IF d = L THEN 1 ELSE f[d + 1] * g[d + 1]]
    BY <2>1, <2>3 DEF Products
  <2>5. PICK h : h = [d \in e..L |-> IF d = e THEN f[e + 1] * g[e + 1] ELSE g[d]]
    OBVIOUS
  <2>6. \A d \in (e + 1)..L : d \in e..L /\ d # e /\ h[d] = g[d]
    BY <2>3, <2>5
  <2>7. ASSUME NEW d \in e..L PROVE h[d] = IF d = L THEN 1 ELSE f[d + 1] * h[d + 1]
    <3>1. CASE d = e
      <4>1. e \in e..L /\ e + 1 \in (e + 1)..L
        BY <2>3
      <4>2. h[e + 1] = g[e + 1]
        BY <2>6, <4>1
      <4>3. h[e] = f[e + 1] * g[e + 1]
        BY <2>5, <4>1
      <4> QED BY <2>3, <3>1, <4>2, <4>3
    <3>2. CASE d = L
      BY <2>3, <2>4, <2>6, <3>2
    <3>3. CASE d # e /\ d # L
      <4>1. d \in (e + 1)..L /\ d + 1 \in (e + 1)..L
        BY <2>3, <3>3
      <4>2. h[d] = g[d] /\ h[d + 1] = g[d + 1]
        BY <2>6, <4>1
      <4>3. g[d] = f[d + 1] * g[d + 1]
        BY <2>4, <3>3, <4>1
      <4> QED BY <3>3, <4>2, <4>3
    <3> QED BY <3>1, <3>2, <3>3
  <2>8. h = [d \in e..L |-> h[d]]
    BY <2>5
  <2>9. Products(h, f, e)
    BY <2>7, <2>8 DEF Products
  <2> QED BY <1>1, <2>2, <2>9
<1>4. \A k \in 0..L : k \in T
  BY <1>2, <1>3, UpTo
<1>5. L \in 0..L
  OBVIOUS
<1>6. \E g : Products(g, f, L - L)
  BY <1>1, <1>4, <1>5
<1>7. L - L = 0
  OBVIOUS
<1> QED BY <1>6, <1>7

Fan(f, d) == IF d < Len(f) THEN f[d + 1] ELSE 1

LEMMA WeightIs ==
  ASSUME NEW f \in Seq(Nat \ {0}), NEW d \in Nat
  PROVE  /\ Weight(f, d) \in Nat \ {0} /\ Fan(f, d) \in Nat \ {0}
         /\ Weight(f, d) = Fan(f, d) * Weight(f, d + 1)
         /\ Weight(f, 0) = CopiesFrom(f)[0]
<1> DEFINE L == Len(f)
<1>0. L \in Nat /\ \A i \in 1..L : f[i] \in Nat \ {0}
  BY LenProperties, ElementOfSeq
<1>1. PICK w : w = CopiesFrom(f)
  OBVIOUS
<1>2. w = CHOOSE g : Products(g, f, 0)
  BY <1>1, Zenon DEF CopiesFrom, Products
<1>3. Products(w, f, 0)
  BY <1>0, <1>2, ProductsExist
<1>4. /\ w[L] = 1
      /\ \A e \in 0..L : e < L => w[e] = f[e + 1] * w[e + 1]
  <2>1. \A e \in 0..L : w[e] = IF e = L THEN 1 ELSE f[e + 1] * w[e + 1]
    BY <1>3 DEF Products
  <2> QED BY <1>0, <2>1
<1>5. PICK T : T = {k \in 0..L : w[L - k] \in Nat \ {0}}
  OBVIOUS
<1>6. 0 \in T
  BY <1>0, <1>4, <1>5
<1>7. ASSUME NEW k \in 1..L, k - 1 \in T PROVE k \in T
  <2>1. PICK e : e = L - k
    OBVIOUS
  <2>2. e \in 0..L /\ e < L /\ L - (k - 1) = e + 1 /\ e + 1 \in 1..L
    BY <1>0, <2>1
  <2>3. w[e + 1] \in Nat \ {0}
    BY <1>5, <1>7, <2>2
  <2>4. f[e + 1] \in Nat \ {0} /\ w[e] = f[e + 1] * w[e + 1]
    BY <1>0, <1>4, <2>2
  <2>5. PICK x, y : x = f[e + 1] /\ y = w[e + 1]
    OBVIOUS
  <2>6. x * y \in Nat \ {0}
    BY <2>3, <2>4, <2>5, Product
  <2> QED BY <1>5, <2>1, <2>4, <2>5, <2>6
<1>8. \A k \in 0..L : k \in T
  BY <1>0, <1>6, <1>7, UpTo
<1>9. ASSUME NEW e \in 0..L PROVE w[e] \in Nat \ {0}
  <2>1. L - e \in 0..L /\ L - (L - e) = e
    BY <1>0
  <2> QED BY <1>5, <1>8, <2>1
<1>10. ASSUME d < L
       PROVE  /\ Weight(f, d) \in Nat \ {0} /\ Fan(f, d) \in Nat \ {0}
              /\ Weight(f, d) = Fan(f, d) * Weight(f, d + 1)
  <2>1. d \in 0..L /\ d + 1 \in 0..L /\ Weight(f, d) = w[d] /\ Fan(f, d) = f[d + 1] /\ d + 1 \in 1..L
    BY <1>0, <1>1, <1>10 DEF Weight, Fan
  <2>2. Weight(f, d + 1) = w[d + 1]
    <3>1. CASE d + 1 < L
      BY <1>1, <3>1 DEF Weight
    <3>2. CASE d + 1 = L
      BY <1>0, <1>4, <3>2 DEF Weight
    <3> QED BY <1>0, <1>10, <3>1, <3>2
  <2>3. w[d] = f[d + 1] * w[d + 1]
    BY <1>4, <1>10, <2>1
  <2>4. w[d] \in Nat \ {0} /\ f[d + 1] \in Nat \ {0}
    BY <1>0, <1>9, <2>1
  <2> QED BY <2>1, <2>2, <2>3, <2>4
<1>11. ASSUME ~ (d < L)
       PROVE  /\ Weight(f, d) \in Nat \ {0} /\ Fan(f, d) \in Nat \ {0}
              /\ Weight(f, d) = Fan(f, d) * Weight(f, d + 1)
  <2>1. ~ (d + 1 < L)
    BY <1>0, <1>11
  <2>2. Weight(f, d) = 1 /\ Weight(f, d + 1) = 1 /\ Fan(f, d) = 1
    BY <1>11, <2>1 DEF Weight, Fan
  <2> QED BY <2>2
<1>12. Weight(f, 0) = w[0]
  BY <1>0, <1>1, <1>4 DEF Weight
<1>13. /\ Weight(f, d) \in Nat \ {0} /\ Fan(f, d) \in Nat \ {0}
       /\ Weight(f, d) = Fan(f, d) * Weight(f, d + 1)
  BY <1>10, <1>11
<1> QED BY <1>1, <1>12, <1>13

-----------------------------------------------------------------------------
(* Sharing. *)

\* Every part of N comes from one of R, and those that come from the same one share
\* what it has.
Divides(N, R, g, pos) ==
  /\ g \in [N -> R] /\ pos \in [N -> Nat]
  /\ \A y \in N : y.weight \in Nat /\ pos[y] + y.weight <= g[y].weight
  /\ \A y, z \in N : y # z /\ g[y] = g[z] => Apart(pos[y], y.weight, pos[z], z.weight)

Weighs(P) == \A x \in P : x.weight \in Nat

\* What the parts P share can be shared by Q, if they come from P.
LEMMA Refine ==
  ASSUME NEW P, NEW Q, NEW M \in Nat, Share(P, M), Weighs(P), NEW g, NEW pos, Divides(Q, P, g, pos)
  PROVE  Share(Q, M)
<1> USE DEF Divides, Weighs
<1>1. PICK at \in [P -> 0..M] :
        /\ \A x \in P : at[x] + x.weight <= M
        /\ \A x, y \in P : x # y => Apart(at[x], x.weight, at[y], y.weight)
  BY DEF Share
<1>2. PICK to : to = [q \in Q |-> at[g[q]] + pos[q]]
  OBVIOUS
<1>3. ASSUME NEW q \in Q
      PROVE  /\ g[q] \in P /\ at[g[q]] \in Nat /\ pos[q] \in Nat /\ q.weight \in Nat
             /\ g[q].weight \in Nat /\ to[q] = at[g[q]] + pos[q]
             /\ at[g[q]] + g[q].weight <= M /\ pos[q] + q.weight <= g[q].weight
  BY <1>1, <1>2
<1>4. ASSUME NEW q \in Q PROVE to[q] \in 0..M /\ to[q] + q.weight <= M
  <2>1. PICK a, x, w : a = at[g[q]] /\ x = pos[q] /\ w = g[q].weight
    OBVIOUS
  <2>2. a \in Nat /\ x \in Nat /\ w \in Nat /\ q.weight \in Nat /\ to[q] = a + x
        /\ a + w <= M /\ x + q.weight <= w
    BY <1>3, <2>1
  <2> QED BY <2>2
<1>5. to \in [Q -> 0..M]
  BY <1>2, <1>4
<1>6. ASSUME NEW q \in Q, NEW r \in Q, q # r
      PROVE  Apart(to[q], q.weight, to[r], r.weight)
  <2>1. PICK a, x, w, b, y, v : /\ a = at[g[q]] /\ x = pos[q] /\ w = g[q].weight
                                /\ b = at[g[r]] /\ y = pos[r] /\ v = g[r].weight
    OBVIOUS
  <2>2. /\ a \in Nat /\ x \in Nat /\ w \in Nat /\ q.weight \in Nat /\ to[q] = a + x
        /\ x + q.weight <= w
        /\ b \in Nat /\ y \in Nat /\ v \in Nat /\ r.weight \in Nat /\ to[r] = b + y
        /\ y + r.weight <= v
    BY <1>3, <2>1
  <2>3. CASE g[q] = g[r]
    <3>1. Apart(x, q.weight, y, r.weight) /\ a = b
      BY <1>6, <2>1, <2>3
    <3> QED BY <2>2, <3>1 DEF Apart
  <2>4. CASE g[q] # g[r]
    <3>1. Apart(a, w, b, v)
      BY <1>1, <1>3, <2>1, <2>4
    <3> QED BY <2>2, <3>1 DEF Apart
  <2> QED BY <2>3, <2>4
<1> QED BY <1>4, <1>5, <1>6 DEF Share

\* As many things of weight one as there are shares, at most.
LEMMA ShareCounts ==
  ASSUME NEW P, NEW M \in Nat, Share(P, M), \A x \in P : x.weight \in Nat \ {0}
  PROVE  IsFiniteSet(P) /\ Cardinality(P) <= M
<1>1. PICK at \in [P -> 0..M] :
        /\ \A x \in P : at[x] + x.weight <= M
        /\ \A x, y \in P : x # y => Apart(at[x], x.weight, at[y], y.weight)
  BY DEF Share
<1>2. PICK n : n = [x \in P |-> at[x] + 1]
  OBVIOUS
<1>3. n \in [P -> 1..M]
  BY <1>1, <1>2
<1>4. \A x, y \in P : n[x] = n[y] => x = y
  BY <1>1, <1>2 DEF Apart
<1>5. n \in Injection(P, 1..M)
  BY <1>3, <1>4 DEF Injection, IsInjective
<1>6. IsFiniteSet(1..M) /\ Cardinality(1..M) = M
  BY FS_Interval
<1> QED BY <1>5, <1>6, FS_Injection

LEMMA Renames ==
  ASSUME NEW N, NEW R, NEW g \in [N -> R],
         \A y \in N : y.weight \in Nat /\ y.weight <= g[y].weight,
         \A y, z \in N : g[y] = g[z] => y = z
  PROVE  \E pos : Divides(N, R, g, pos)
<1>1. PICK pos : pos = [y \in N |-> 0]
  OBVIOUS
<1>2. Divides(N, R, g, pos)
  BY <1>1 DEF Divides
<1> QED BY <1>2

\* The parts K stay, and those of N take the place of R.
LEMMA Replace ==
  ASSUME NEW P, NEW Q, NEW M \in Nat, Share(P, M), Weighs(P),
         NEW K, NEW R, NEW N, K \subseteq P, R \subseteq P, K \cap R = {}, Q \subseteq K \cup N,
         NEW g, NEW pos, Divides(N, R, g, pos)
  PROVE  Share(Q, M)
<1>1. PICK h : h = [q \in Q |-> IF q \in K THEN q ELSE g[q]]
  OBVIOUS
<1>2. PICK at : at = [q \in Q |-> IF q \in K THEN 0 ELSE pos[q]]
  OBVIOUS
<1>3. h \in [Q -> P] /\ at \in [Q -> Nat]
  BY <1>1, <1>2 DEF Divides
<1>4. \A q \in Q : q.weight \in Nat /\ at[q] + q.weight <= h[q].weight
  BY <1>1, <1>2 DEF Divides, Weighs
<1>5. \A q, r \in Q : q # r /\ h[q] = h[r] => Apart(at[q], q.weight, at[r], r.weight)
  BY <1>1, <1>2 DEF Divides
<1>6. Divides(Q, P, h, at)
  BY <1>3, <1>4, <1>5 DEF Divides
<1> QED BY <1>6, Refine

LEMMA Fewer ==
  ASSUME NEW P, NEW Q, NEW M \in Nat, Share(P, M), Weighs(P), Q \subseteq P
  PROVE  Share(Q, M)
<1>1. PICK g, pos : g = [q \in Q |-> q] /\ pos = [q \in Q |-> 0]
  OBVIOUS
<1>2. Divides(Q, P, g, pos)
  BY <1>1 DEF Divides, Weighs
<1> QED BY <1>2, Refine

LEMMA PartsWeigh ==
  ASSUME NEW p, NEW P, NEW m, NEW L, NEW f \in Seq(Nat \ {0}),
         \A c \in P : c.depth \in Nat, m.depth \in Nat
  PROVE  \A x \in PartsOf(p, P, m, L, f) : x.weight \in Nat \ {0} /\ x.weight \in Nat
<1>1. \A d \in Nat : Weight(f, d) \in Nat \ {0}
  BY WeightIs
<1>2. m.depth + 1 \in Nat
  OBVIOUS
<1> SUFFICES ASSUME NEW x \in PartsOf(p, P, m, L, f) PROVE x.weight \in Nat \ {0}
  OBVIOUS
<1>3. CASE \E l \in L : x = Part("leaf", l, 1)
  BY <1>3 DEF Part
<1>4. CASE \E c \in P : x = Part("cluster", c, Weight(f, c.depth))
  <2>1. PICK c \in P : x = Part("cluster", c, Weight(f, c.depth))
    BY <1>4
  <2>2. Weight(f, c.depth) \in Nat \ {0}
    BY <1>1
  <2>3. PICK w : w = Weight(f, c.depth)
    OBVIOUS
  <2> QED BY <2>1, <2>2, <2>3 DEF Part
<1>5. CASE \E i \in 1..Len(m.buckets) : x = Part("bucket", i, Weight(f, m.depth + 1))
  <2>1. PICK w : w = Weight(f, m.depth + 1)
    OBVIOUS
  <2>2. w \in Nat \ {0}
    BY <1>1, <1>2, <2>1
  <2> QED BY <1>5, <2>1, <2>2 DEF Part
<1> QED BY <1>3, <1>4, <1>5 DEF PartsOf

\* The parts, one by one.
LEMMA PartIs ==
  ASSUME NEW p, NEW P, NEW m, NEW L, NEW f, NEW x
  PROVE  x \in PartsOf(p, P, m, L, f) <=>
           \/ \E l \in L : p \in l.ids /\ x = Part("leaf", l, 1)
           \/ \E c \in P : p \in ToSet(c.pts) /\ x = Part("cluster", c, Weight(f, c.depth))
           \/ \E i \in 1..Len(m.buckets) : /\ p \in ToSet(m.buckets[i])
                                           /\ x = Part("bucket", i, Weight(f, m.depth + 1))
BY DEF PartsOf

LEMMA Basics ==
  ASSUME ClusterTreeAssumption, Shape
  PROVE  /\ scheme.n_points \in Nat \ {0} /\ scheme.fanouts \in Seq(Nat \ {0})
         /\ scheme.rounds \in Nat \ {0} /\ MaxCopies \in Nat
         /\ \A c \in pending : /\ c.pts \in Bucket /\ c.pts \in Seq(Points) /\ Len(c.pts) \in Nat \ {0}
                               /\ IsInjective(c.pts) /\ c.depth \in Nat /\ c.split \in BOOLEAN
                               /\ c.path \in Seq(Nat)
         /\ merging.depth \in Nat /\ merging.buckets \in Seq(Bucket) /\ merging.path \in Seq(Nat)
         /\ merging.size \in Nat /\ Len(merging.buckets) \in Nat
         /\ \A i \in 1..Len(merging.buckets) :
               /\ merging.buckets[i] \in Bucket /\ merging.buckets[i] \in Seq(Points)
               /\ Len(merging.buckets[i]) \in Nat \ {0} /\ IsInjective(merging.buckets[i])
<1>1. /\ scheme.n_points \in Nat \ {0} /\ scheme.fanouts \in Seq(Nat \ {0})
      /\ scheme.rounds \in Nat \ {0}
  BY DEF ClusterTreeAssumption, Shape
<1>2. MaxCopies \in Nat
  <2>1. PICK f : f = scheme.fanouts
    OBVIOUS
  <2>2. 0 \in Nat /\ f \in Seq(Nat \ {0})
    BY <1>1, <2>1
  <2>3. Weight(f, 0) \in Nat /\ Weight(f, 0) = CopiesFrom(f)[0]
    BY <2>2, WeightIs
  <2> QED BY <2>1, <2>3 DEF MaxCopies
<1>3. \A s \in Bucket : s \in Seq(Points) /\ Len(s) \in Nat \ {0} /\ IsInjective(s)
  BY EmptySeq DEF Bucket
<1>4. \A c \in pending : c.pts \in Bucket /\ c.depth \in Nat /\ c.split \in BOOLEAN /\ c.path \in Seq(Nat)
  BY DEF Shape
<1>5. /\ merging.depth \in Nat /\ merging.buckets \in Seq(Bucket) /\ merging.path \in Seq(Nat)
      /\ merging.size \in Nat
  BY DEF Shape
<1>6. Len(merging.buckets) \in Nat /\ \A i \in 1..Len(merging.buckets) : merging.buckets[i] \in Bucket
  BY <1>5, LenProperties, ElementOfSeq
<1> QED BY <1>1, <1>2, <1>3, <1>4, <1>5, <1>6

LEMMA RootIs ==
  ASSUME scheme.n_points \in Nat \ {0}
  PROVE  /\ Root \in [pts : Bucket, depth : Nat, split : BOOLEAN, path : Seq(Nat)]
         /\ Root.depth = 0 /\ Root.split = FALSE /\ Ids(Root) = Points
<1>1. PICK s : s = [i \in Points |-> i]
  OBVIOUS
<1>2. s \in Seq(Points) /\ Len(s) = scheme.n_points /\ DOMAIN s = Points
  <2>1. s \in [1..scheme.n_points -> Points]
    BY <1>1 DEF Points
  <2> QED BY <2>1, AsSeq DEF Points
<1>3. s # << >>
  BY <1>2, EmptySeq
<1>4. IsInjective(s) /\ ToSet(s) = Points
  BY <1>1, <1>2 DEF IsInjective, ToSet
<1>5. << >> \in Seq(Nat)
  BY EmptySeq
<1> QED BY <1>1, <1>2, <1>3, <1>4, <1>5 DEF Root, Bucket, Ids

\* A round that begins with the root shares out all there is.
LEMMA RootShare ==
  ASSUME NEW p, NEW f \in Seq(Nat \ {0}), NEW P, P \subseteq {Root}
  PROVE  Share(PartsOf(p, P, Nothing, {}, f), CopiesFrom(f)[0])
<1> DEFINE w == Weight(f, 0)
           x == Part("cluster", Root, w)
           Q == PartsOf(p, P, Nothing, {}, f)
<1>1. w \in Nat \ {0} /\ w = CopiesFrom(f)[0]
  BY WeightIs
<1>2. Root.depth = 0 /\ Len(Nothing.buckets) = 0
  BY EmptySeq DEF Root, Nothing
<1>3. Q \subseteq {x}
  BY <1>2, PartIs
<1>4. PICK at : at = [q \in Q |-> 0]
  OBVIOUS
<1>5. /\ at \in [Q -> 0..w] /\ \A q \in Q : at[q] + q.weight <= w
      /\ \A q, r \in Q : q = r
  BY <1>1, <1>3, <1>4 DEF Part
<1>6. Share(Q, w)
  BY <1>5 DEF Share
<1> QED BY <1>1, <1>6

LEMMA LeafIs ==
  ASSUME NEW b \in Seq(Points), IsInjective(b), Len(b) \in 1..MAX_CLUSTER_SIZE, NEW path \in Seq(Nat)
  PROVE  /\ Leaf(b, path) \in [ids : SUBSET Points, size : 1..MAX_CLUSTER_SIZE, path : Seq(Nat)]
         /\ Leaf(b, path).size = Cardinality(Leaf(b, path).ids)
         /\ Leaf(b, path).ids = ToSet(b)
<1>1. ToSet(b) \subseteq Points /\ Cardinality(ToSet(b)) = Len(b)
  BY InSet, IdsAreFinite
<1> QED BY <1>1 DEF Leaf

-----------------------------------------------------------------------------
(* The invariant holds at first, and every step keeps it. *)

LEMMA InitInv ==
  ASSUME ClusterTreeAssumption, TreeInit PROVE IInv
<1>1. /\ scheme.n_points \in Nat \ {0} /\ scheme.fanouts \in Seq(Nat \ {0})
      /\ scheme.rounds \in Nat \ {0} /\ MAX_DEPTH \in Nat
  BY DEF ClusterTreeAssumption, TreeInit
<1>2. /\ Root \in [pts : Bucket, depth : Nat, split : BOOLEAN, path : Seq(Nat)]
      /\ Root.depth = 0 /\ Root.split = FALSE /\ Ids(Root) = Points
  BY <1>1, RootIs
<1>3. /\ Nothing \in [depth : Nat, path : Seq(Nat), size : Nat, buckets : Seq(Bucket), stuck : BOOLEAN]
      /\ Nothing.depth = 0 /\ Nothing.buckets = << >> /\ Nothing.stuck = FALSE
  BY EmptySeq DEF Nothing
<1>4. Shape
  BY <1>1, <1>2, <1>3 DEF Shape, TreeInit
<1>5. Counted
  BY DEF Counted, TreeInit
<1>6. Depths
  BY <1>1, <1>2, <1>3 DEF Depths, TreeInit
<1>7. Order
  <2>1. DOMAIN << >> = {}
    OBVIOUS
  <2> QED BY <1>3, <2>1 DEF Order, Sorted, TreeInit
<1>8. Covered
  BY <1>2 DEF Covered, Holds, TreeInit
<1>9. Copied
  <2>1. ASSUME NEW p \in Points
        PROVE  Share(PartsOf(p, {Root}, Nothing, {}, scheme.fanouts), CopiesFrom(scheme.fanouts)[0])
    BY <1>1, RootShare
  <2> QED BY <2>1 DEF Copied, MaxCopies, TreeInit
<1> QED BY <1>4, <1>5, <1>6, <1>7, <1>8, <1>9 DEF IInv

\* The sequences B cut up the bucket s.
Pieces(B, s) ==
  /\ \A b \in B : /\ b \in Seq(Points) /\ IsInjective(b) /\ Len(b) \in 1..MAX_CLUSTER_SIZE
                  /\ ToSet(b) \subseteq ToSet(s)
  /\ \A p \in ToSet(s) : \E b \in B : p \in ToSet(b)
  /\ \A p : \A b, d \in B : p \in ToSet(b) /\ p \in ToSet(d) => b = d

\* ProcessLeaf and Split: a cluster becomes leaves, of which one has each point.
LEMMA LeavesInv ==
  ASSUME ClusterTreeAssumption, IInv, NEW c \in pending, NEW B,
         Pieces(B, c.pts),
         leaves' = leaves \cup {Leaf(b, c.path) : b \in B}, pending' = pending \ {c},
         scheme' = scheme, round' = round, merging' = merging
  PROVE  IInv'
<1> USE DEF IInv
<1>0. Points' = Points /\ Bucket' = Bucket /\ MaxCopies' = MaxCopies
  BY DEF Points, Bucket, MaxCopies
<1>1. /\ scheme.fanouts \in Seq(Nat \ {0}) /\ MaxCopies \in Nat
      /\ c.path \in Seq(Nat) /\ c.depth \in Nat
      /\ merging.depth \in Nat /\ \A x \in pending : x.depth \in Nat
  BY Basics
<1>2. ASSUME NEW b \in B
      PROVE  /\ Leaf(b, c.path) \in [ids : SUBSET Points, size : 1..MAX_CLUSTER_SIZE, path : Seq(Nat)]
             /\ Leaf(b, c.path).size = Cardinality(Leaf(b, c.path).ids)
             /\ Leaf(b, c.path).ids = ToSet(b)
  <2>1. b \in Seq(Points) /\ IsInjective(b) /\ Len(b) \in 1..MAX_CLUSTER_SIZE
    BY DEF Pieces
  <2> QED BY <1>1, <2>1, LeafIs
<1>3. Shape'
  BY <1>0, <1>2 DEF Shape
<1>4. Counted'
  BY <1>2 DEF Counted
<1>5. Depths'
  BY DEF Depths
<1>6. Order'
  BY DEF Order, Sorted, Targets
<1>7. Covered'
  <2> SUFFICES ASSUME round < scheme.rounds, NEW p \in Points PROVE Holds(p)'
    BY <1>0 DEF Covered
  <2>1. CASE \E l \in leaves : p \in l.ids
    BY <2>1 DEF Holds
  <2>2. CASE \E x \in pending : p \in Ids(x)
    <3>1. CASE p \in Ids(c)
      <4>1. PICK b \in B : p \in ToSet(b)
        BY <3>1 DEF Ids, Pieces
      <4> QED BY <1>2, <4>1 DEF Holds
    <3>2. CASE p \notin Ids(c)
      BY <2>2, <3>2 DEF Holds, Ids
    <3> QED BY <3>1, <3>2
  <2>3. CASE \E i \in 1..Len(merging.buckets) : p \in ToSet(merging.buckets[i])
    BY <2>3 DEF Holds
  <2> QED BY <2>1, <2>2, <2>3 DEF Covered, Holds
<1>8. Copied'
  <2> SUFFICES ASSUME NEW p \in Points
               PROVE  Share(PartsOf(p, pending \ {c}, merging, leaves', scheme.fanouts), MaxCopies)
    BY <1>0 DEF Copied
  <2> DEFINE f == scheme.fanouts
             P == PartsOf(p, pending, merging, leaves, f)
             Q == PartsOf(p, pending \ {c}, merging, leaves', f)
             x == Part("cluster", c, Weight(f, c.depth))
  <2>1. Share(P, MaxCopies) /\ \A y \in P : y.weight \in Nat
    BY <1>1, PartsWeigh DEF Copied
  <2>2. CASE \E b \in B : p \in ToSet(b)
    <3>1. PICK b \in B : p \in ToSet(b)
      BY <2>2
    <3>2. PICK y : y = Part("leaf", Leaf(b, c.path), 1)
      OBVIOUS
    <3>3. x \in P
      <4>1. p \in ToSet(c.pts)
        BY <3>1 DEF Pieces
      <4> QED BY <4>1, PartIs
    <3>4. Q \subseteq (P \ {x}) \cup {y}
      <4> SUFFICES ASSUME NEW q \in Q PROVE q \in (P \ {x}) \cup {y}
        OBVIOUS
      <4>1. CASE \E l \in leaves' : p \in l.ids /\ q = Part("leaf", l, 1)
        <5>1. PICK l \in leaves' : p \in l.ids /\ q = Part("leaf", l, 1)
          BY <4>1
        <5>2. CASE l \in leaves
          <6>1. q \in P
            BY <5>1, <5>2, PartIs
          <6>2. q # x
            BY <5>1 DEF Part
          <6> QED BY <6>1, <6>2
        <5>3. CASE \E d \in B : l = Leaf(d, c.path)
          <6>1. PICK d \in B : l = Leaf(d, c.path)
            BY <5>3
          <6>2. p \in ToSet(d)
            BY <1>2, <5>1, <6>1
          <6>3. d = b
            BY <3>1, <6>2 DEF Pieces
          <6> QED BY <3>2, <5>1, <6>1, <6>3
        <5> QED BY <5>2, <5>3
      <4>2. CASE \E d \in pending \ {c} : /\ p \in ToSet(d.pts)
                                          /\ q = Part("cluster", d, Weight(f, d.depth))
        <5>1. q \in P
          BY <4>2, PartIs
        <5>2. q # x
          BY <4>2 DEF Part
        <5> QED BY <5>1, <5>2
      <4>3. CASE \E i \in 1..Len(merging.buckets) :
                   /\ p \in ToSet(merging.buckets[i])
                   /\ q = Part("bucket", i, Weight(f, merging.depth + 1))
        <5>1. q \in P
          BY <4>3, PartIs
        <5>2. q # x
          BY <4>3 DEF Part
        <5> QED BY <5>1, <5>2
      <4> QED BY <4>1, <4>2, <4>3, PartIs
    <3>5. PICK g, pos : g = [z \in {y} |-> x] /\ pos = [z \in {y} |-> 0]
      OBVIOUS
    <3>6. y.weight = 1 /\ x.weight \in Nat \ {0}
      BY <1>1, <3>2, WeightIs DEF Part
    <3>7. /\ g \in [{y} -> {x}] /\ pos \in [{y} -> Nat]
          /\ \A z \in {y} : z.weight \in Nat /\ pos[z] + z.weight <= g[z].weight
      BY <3>3, <3>5, <3>6
    <3> HIDE DEF P, Q, x
    <3>a. PICK K, N : K = P \ {x} /\ N = {y}
      OBVIOUS
    <3>b. /\ K \subseteq P /\ {x} \subseteq P /\ K \cap {x} = {} /\ Q \subseteq K \cup N
          /\ Divides(N, {x}, g, pos)
      BY <3>3, <3>4, <3>7, <3>a DEF Divides
    <3>c. MaxCopies \in Nat /\ Share(P, MaxCopies) /\ Weighs(P)
      BY <1>1, <2>1 DEF Weighs
    <3>8. Share(Q, MaxCopies)
      BY <3>b, <3>c, Replace
    <3> QED BY <3>8 DEF Q
  <2>3. CASE ~ \E b \in B : p \in ToSet(b)
    <3>1. Q \subseteq P
      <4> SUFFICES ASSUME NEW q \in Q PROVE q \in P
        OBVIOUS
      <4>1. CASE \E l \in leaves' : p \in l.ids /\ q = Part("leaf", l, 1)
        <5>1. PICK l \in leaves' : p \in l.ids /\ q = Part("leaf", l, 1)
          BY <4>1
        <5>2. l \in leaves
          BY <1>2, <2>3, <5>1
        <5> QED BY <5>1, <5>2, PartIs
      <4>2. CASE q \in PartsOf(p, pending \ {c}, merging, {}, f)
        BY <4>2, PartIs
      <4> QED BY <4>1, <4>2, PartIs
    <3> HIDE DEF P, Q
    <3>2. Share(Q, MaxCopies)
      BY <1>1, <2>1, <3>1, Fewer DEF Weighs
    <3> QED BY <3>2 DEF Q
  <2> QED BY <2>2, <2>3
<1> QED BY <1>3, <1>4, <1>5, <1>6, <1>7, <1>8

LEMMA ProcessLeafInv ==
  ASSUME ClusterTreeAssumption, IInv, NEW c \in pending, ProcessLeaf(c) PROVE IInv'
<1>1. /\ c.pts \in Seq(Points) /\ Len(c.pts) \in 1..MAX_CLUSTER_SIZE /\ IsInjective(c.pts)
  <2>1. c.pts \in Seq(Points) /\ Len(c.pts) \in Nat \ {0} /\ IsInjective(c.pts)
    BY Basics DEF IInv
  <2> QED BY <2>1 DEF ProcessLeaf, ClusterTreeAssumption
<1>2. PICK B : B = {c.pts}
  OBVIOUS
<1>3. leaves' = leaves \cup {Leaf(b, c.path) : b \in B}
  BY <1>2 DEF ProcessLeaf
<1>4. /\ pending' = pending \ {c} /\ scheme' = scheme /\ round' = round /\ merging' = merging
  BY DEF ProcessLeaf
<1>5. Pieces(B, c.pts)
  BY <1>1, <1>2 DEF Pieces
<1> QED BY <1>3, <1>4, <1>5, LeavesInv

LEMMA SplitInv ==
  ASSUME ClusterTreeAssumption, IInv, NEW c \in pending, Split(c) PROVE IInv'
<1> DEFINE n == Len(c.pts)
<1>1. /\ c.pts \in Seq(Points) /\ n \in Nat \ {0} /\ IsInjective(c.pts) /\ DOMAIN c.pts = 1..n
      /\ \A i \in 1..n : c.pts[i] \in Points
  <2>1. c.pts \in Seq(Points) /\ n \in Nat \ {0} /\ IsInjective(c.pts)
    BY Basics DEF IInv
  <2> QED BY <2>1, LenProperties, ElementOfSeq
<1>2. /\ pending' = pending \ {c} /\ scheme' = scheme /\ round' = round /\ merging' = merging
  BY DEF Split
<1>3. PICK order \in SetToSeqs(1..n) :
        leaves' = leaves \cup {Leaf(b, c.path) : b \in Runs([i \in 1..n |-> c.pts[order[i]]])}
  BY DEF Split
<1>4. Cardinality(1..n) = n /\ IsFiniteSet(1..n)
  BY <1>1, FS_Interval
<1>5. order \in [1..n -> 1..n] /\ \A i, j \in 1..n : order[i] = order[j] => i = j
  BY <1>3, <1>4 DEF SetToSeqs
<1>6. \A m \in 1..n : \E i \in 1..n : order[i] = m
  <2>1. order \in Injection(1..n, 1..n)
    BY <1>5 DEF Injection, IsInjective
  <2>2. order \in Surjection(1..n, 1..n)
    BY <1>4, <2>1, FS_Injection
  <2> QED BY <2>2 DEF Surjection
<1>7. PICK s : s = [i \in 1..n |-> c.pts[order[i]]]
  OBVIOUS
<1>8. s \in Seq(Points) /\ Len(s) = n /\ DOMAIN s = 1..n
  <2>1. s \in [1..n -> Points]
    BY <1>1, <1>5, <1>7
  <2> QED BY <1>1, <2>1, AsSeq
<1>9. IsInjective(s)
  BY <1>1, <1>5, <1>7 DEF IsInjective
<1>10. ToSet(s) = ToSet(c.pts)
  <2>1. ASSUME NEW m \in 1..n PROVE c.pts[m] \in ToSet(s)
    <3>1. PICK i \in 1..n : order[i] = m
      BY <1>6
    <3>2. s[i] = c.pts[m]
      BY <1>7, <3>1
    <3> QED BY <1>8, <3>2 DEF ToSet
  <2>2. ASSUME NEW i \in 1..n PROVE s[i] \in ToSet(c.pts)
    <3>1. s[i] = c.pts[order[i]] /\ order[i] \in 1..n
      BY <1>5, <1>7
    <3> QED BY <1>1, <3>1 DEF ToSet
  <2> QED BY <1>1, <1>8, <2>1, <2>2 DEF ToSet
<1>11. Pieces(Runs(s), c.pts)
  BY <1>8, <1>9, <1>10, RunsAre DEF Pieces
<1>12. leaves' = leaves \cup {Leaf(b, c.path) : b \in Runs(s)}
  BY <1>3, <1>7
<1> QED BY <1>2, <1>11, <1>12, LeavesInv

LEMMA GiveUpInv ==
  ASSUME ClusterTreeAssumption, IInv, GiveUp PROVE IInv'
<1> USE DEF IInv
<1>0. Points' = Points /\ Bucket' = Bucket /\ MaxCopies' = MaxCopies
  BY DEF Points, Bucket, MaxCopies, GiveUp
<1>1. /\ scheme' = scheme /\ round' = round /\ pending' = pending /\ leaves' = leaves
      /\ merging' = [merging EXCEPT !.stuck = TRUE]
      /\ Len(merging.buckets) > 1
      /\ Targets(Front(merging.buckets), Last(merging.buckets)) = {}
  BY DEF GiveUp, WantsMerge
<1>2. /\ merging \in [depth : Nat, path : Seq(Nat), size : Nat, buckets : Seq(Bucket), stuck : BOOLEAN]
  BY DEF Shape
<1>3. /\ merging' \in [depth : Nat, path : Seq(Nat), size : Nat, buckets : Seq(Bucket), stuck : BOOLEAN]
      /\ merging'.buckets = merging.buckets /\ merging'.depth = merging.depth
  BY <1>1, <1>2
<1>4. Shape'
  BY <1>0, <1>1, <1>3 DEF Shape
<1>5. Counted'
  BY <1>1 DEF Counted
<1>6. Depths'
  BY <1>1, <1>3 DEF Depths
<1>7. Order'
  <2>1. Sorted(merging.buckets)'
    BY <1>3 DEF Order, Sorted
  <2>2. /\ Front(merging.buckets)' = Front(merging.buckets) /\ Last(merging.buckets)' = Last(merging.buckets)
    BY <1>3 DEF Front, Last
  <2>3. Targets(Front(merging.buckets), Last(merging.buckets))' = {}
    BY <1>1, <2>2 DEF Targets
  <2> QED BY <1>1, <1>3, <2>1, <2>3 DEF Order
<1>8. Covered'
  BY <1>0, <1>1, <1>3 DEF Covered, Holds, Ids
<1>9. Copied'
  <2>1. \A p : PartsOf(p, pending, merging', leaves, scheme.fanouts)
                = PartsOf(p, pending, merging, leaves, scheme.fanouts)
    BY <1>3 DEF PartsOf
  <2> QED BY <1>0, <1>1, <2>1 DEF Copied
<1> QED BY <1>4, <1>5, <1>6, <1>7, <1>8, <1>9

LEMMA HasMost ==
  ASSUME NEW S, NEW n \in Nat, S \subseteq 1..n, S # {}
  PROVE  (CHOOSE i \in S : \A j \in S : j <= i) \in S
<1>1. PICK T : T = {m \in Nat : n - m \in S}
  OBVIOUS
<1>2. T \in SUBSET Nat /\ T # {}
  <2>1. PICK i \in S : TRUE
    OBVIOUS
  <2>2. i \in 1..n /\ n - i \in Nat /\ n - (n - i) = i
    BY <2>1
  <2>3. n - i \in T
    BY <1>1, <2>2
  <2> QED BY <1>1, <2>3
<1>3. PICK m \in T : \A y \in T : m <= y
  BY <1>2, Least1
<1>4. n - m \in S
  BY <1>1
<1>5. ASSUME NEW j \in S PROVE j <= n - m
  <2>1. j \in 1..n /\ n - j \in Nat /\ n - (n - j) = j /\ m \in Nat
    BY <1>1
  <2>2. n - j \in T
    BY <1>1, <2>1
  <2>3. m <= n - j
    BY <1>3, <2>2
  <2> QED BY <2>1, <2>3
<1>6. \E i \in S : \A j \in S : j <= i
  BY <1>4, <1>5
<1> QED BY <1>6

\* What a turn of the loop makes of the buckets b: the last one's ids go to bucket i
\* of the others, and bucket n of the result comes from bucket from[n].
Merged(b, r, i, from) ==
  /\ Len(b) \in Nat /\ Len(b) > 1 /\ i \in 1..(Len(b) - 1)
  /\ r \in Seq(Bucket) /\ Len(r) = Len(b) - 1
  /\ from \in [1..Len(r) -> 1..Len(r)]
  /\ \A n, m \in 1..Len(r) : from[n] = from[m] => n = m
  /\ \A m \in 1..Len(r) : \E n \in 1..Len(r) : from[n] = m
  /\ \A n \in 1..Len(r) : \A p :
       p \in ToSet(r[n]) <=> \/ p \in ToSet(b[from[n]])
                             \/ from[n] = i /\ p \in ToSet(b[Len(b)])

LEMMA MergeSmallIs ==
  ASSUME ClusterTreeAssumption, Shape, Order, MergeSmall
  PROVE  \E i, from : /\ Merged(merging.buckets, merging'.buckets, i, from)
                      /\ Sorted(merging'.buckets)
                      /\ merging' = [merging EXCEPT !.buckets = merging'.buckets]
<1> DEFINE b == merging.buckets
           L == Len(b)
           rest == Front(b)
           small == Last(b)
           fits == Targets(rest, small)
           i == CHOOSE i \in fits : \A j \in fits : j <= i
           joined == RemoveDuplicates(rest[i] \o small)
           x == [rest EXCEPT ![i] = joined]
           r == BubbleUp(x, i)
<1>1. /\ L \in Nat /\ L > 1 /\ b \in Seq(Bucket) /\ DOMAIN b = 1..L
      /\ \A n \in 1..L : /\ b[n] \in Bucket /\ b[n] \in Seq(Points) /\ Len(b[n]) \in Nat
                         /\ IsInjective(b[n])
  <2>1. /\ L \in Nat /\ b \in Seq(Bucket)
        /\ \A n \in 1..L : /\ b[n] \in Bucket /\ b[n] \in Seq(Points) /\ Len(b[n]) \in Nat
                           /\ IsInjective(b[n])
    BY Basics
  <2> QED BY <2>1, LenProperties DEF MergeSmall, WantsMerge
<1>2. /\ fits # {} /\ merging' = [merging EXCEPT !.buckets = r]
  BY DEF MergeSmall
<1>3. /\ rest \in Seq(Bucket) /\ Len(rest) = L - 1 /\ DOMAIN rest = 1..(L - 1)
      /\ \A n \in 1..(L - 1) : rest[n] = b[n]
  <2>1. \A n \in 1..(L - 1) : b[n] \in Bucket
    BY <1>1
  <2>2. /\ SubSeq(b, 1, L - 1) \in Seq(Bucket) /\ Len(SubSeq(b, 1, L - 1)) = L - 1
        /\ \A n \in 1..(L - 1) : SubSeq(b, 1, L - 1)[n] = b[n]
    BY <1>1, <2>1, SubSeqProperties
  <2>3. DOMAIN SubSeq(b, 1, L - 1) = 1..(L - 1)
    BY <2>2, LenProperties
  <2> QED BY <2>2, <2>3 DEF Front
<1>4. i \in 1..(L - 1)
  <2>1. fits \subseteq 1..(L - 1)
    BY <1>3 DEF Targets
  <2>2. L - 1 \in Nat
    BY <1>1
  <2>3. i \in fits
    BY <1>2, <2>1, <2>2, HasMost
  <2> QED BY <2>1, <2>3
<1>5. small = b[L] /\ L \in 1..L /\ i \in 1..L /\ rest[i] = b[i]
  <2>1. small = b[L]
    BY DEF Last
  <2>2. rest[i] = b[i]
    BY <1>3, <1>4
  <2> HIDE DEF i
  <2>3. L \in 1..L /\ i \in 1..L
    BY <1>1, <1>4
  <2> QED BY <2>1, <2>2, <2>3
<1> HIDE DEF fits, i
<1>6. /\ joined \in Seq(Points) /\ IsInjective(joined) /\ Len(joined) >= Len(b[i])
      /\ Len(joined) \in Nat
      /\ \A p : p \in ToSet(joined) <=> p \in ToSet(b[i]) \/ p \in ToSet(b[L])
  <2>1. /\ b[i] \in Seq(Points) /\ b[L] \in Seq(Points) /\ IsInjective(b[i])
        /\ joined = RemoveDuplicates(b[i] \o b[L])
    BY <1>1, <1>5
  <2> QED BY <2>1, JoinedIs
<1>7. joined \in Bucket
  <2>1. Len(b[i]) # 0
    <3>1. b[i] \in Bucket
      BY <1>1, <1>5
    <3> QED BY <3>1, EmptySeq DEF Bucket
  <2>2. joined # << >>
    BY <1>1, <1>5, <1>6, <2>1, EmptySeq
  <2> QED BY <1>6, <2>2 DEF Bucket
<1> HIDE DEF joined, rest
<1>8. /\ x \in Seq(Bucket) /\ Len(x) = L - 1 /\ DOMAIN x = 1..(L - 1)
      /\ \A n \in 1..(L - 1) : x[n] = IF n = i THEN joined ELSE b[n]
  <2>1. x = [n \in 1..(L - 1) |-> IF n = i THEN joined ELSE b[n]]
    BY <1>3, <1>4
  <2>2. x \in [1..(L - 1) -> Bucket]
    <3>1. ASSUME NEW n \in 1..(L - 1) PROVE b[n] \in Bucket
      BY <1>1
    <3> QED BY <1>7, <2>1, <3>1
  <2>3. L - 1 \in Nat
    BY <1>1
  <2> HIDE DEF x
  <2>4. x \in Seq(Bucket) /\ Len(x) = L - 1 /\ DOMAIN x = 1..(L - 1)
    BY <2>2, <2>3, AsSeq
  <2> QED BY <2>1, <2>4
<1> HIDE DEF x
<1>9. SortedBut(x, i)
  <2> SUFFICES ASSUME NEW m \in 1..(L - 1), NEW n \in 1..(L - 1), m < n, n # i
               PROVE  Len(x[m]) >= Len(x[n])
    BY <1>8 DEF SortedBut
  <2>1. Len(b[m]) >= Len(b[n]) /\ m \in 1..L /\ n \in 1..L
    <3>1. m \in 1..L /\ n \in 1..L
      BY <1>1
    <3> QED BY <1>1, <3>1 DEF Order, Sorted
  <2>2. x[n] = b[n]
    BY <1>8
  <2>3. CASE m = i
    <3>1. x[m] = joined
      BY <1>8, <2>3
    <3>2. Len(b[m]) \in Nat /\ Len(b[n]) \in Nat /\ Len(joined) >= Len(b[m])
      BY <1>1, <1>6, <2>1, <2>3
    <3> QED BY <1>6, <2>1, <2>2, <3>1, <3>2
  <2>4. CASE m # i
    BY <1>8, <2>1, <2>2, <2>4
  <2> QED BY <2>3, <2>4
<1>10. PICK from : Sorted(r) /\ Rearranged(r, x, from)
  <2>1. Bucket \subseteq Seq(Points)
    BY DEF Bucket
  <2>2. x \in Seq(Seq(Points)) /\ i \in 1..Len(x)
    BY <1>4, <1>8, <2>1, SeqMonotonic
  <2> HIDE DEF r
  <2>3. r = BubbleUp(x, i)
    BY DEF r
  <2> QED BY <1>9, <2>2, <2>3, BubbleUpIs
<1> HIDE DEF r
<1>11. /\ r \in Seq(Bucket) /\ Len(r) = L - 1 /\ from \in [1..(L - 1) -> 1..(L - 1)]
       /\ \A n \in 1..(L - 1) : r[n] = x[from[n]]
  <2>1. from \in [1..(L - 1) -> 1..(L - 1)] /\ r = [n \in 1..(L - 1) |-> x[from[n]]] /\ Len(r) = L - 1
    BY <1>8, <1>10 DEF Rearranged
  <2>2. \A n \in 1..(L - 1) : x[n] \in Bucket
    BY <1>8, ElementOfSeq
  <2>3. r \in [1..(L - 1) -> Bucket]
    BY <2>1, <2>2
  <2>4. L - 1 \in Nat
    BY <1>1
  <2>5. r \in Seq(Bucket)
    BY <2>3, <2>4, AsSeq
  <2> QED BY <2>1, <2>5
<1>12. ASSUME NEW n \in 1..(L - 1), NEW p
       PROVE  p \in ToSet(r[n]) <=> \/ p \in ToSet(b[from[n]])
                                    \/ from[n] = i /\ p \in ToSet(b[L])
  <2>1. from[n] \in 1..(L - 1) /\ r[n] = x[from[n]]
    BY <1>11
  <2>2. PICK m : m = from[n]
    OBVIOUS
  <2>3. x[m] = IF m = i THEN joined ELSE b[m]
    BY <1>8, <2>1, <2>2
  <2>4. p \in ToSet(x[m]) <=> p \in ToSet(b[m]) \/ (m = i /\ p \in ToSet(b[L]))
    <3>1. CASE m = i
      <4>1. x[m] = joined
        BY <2>3, <3>1
      <4> QED BY <1>6, <3>1, <4>1
    <3>2. CASE m # i
      BY <2>3, <3>2
    <3> QED BY <3>1, <3>2
  <2> QED BY <2>1, <2>2, <2>4
<1>13. Merged(b, r, i, from)
  <2>1. /\ \A n, m \in 1..Len(r) : from[n] = from[m] => n = m
        /\ \A m \in 1..Len(r) : \E n \in 1..Len(r) : from[n] = m
    BY <1>8, <1>10, <1>11 DEF Rearranged
  <2> QED BY <1>1, <1>4, <1>11, <1>12, <2>1 DEF Merged
<1>14. merging'.buckets = r
  BY <1>2 DEF Shape
<1> QED BY <1>2, <1>10, <1>13, <1>14

LEMMA MergeSmallInv ==
  ASSUME ClusterTreeAssumption, IInv, MergeSmall PROVE IInv'
<1> USE DEF IInv
<1> DEFINE b == merging.buckets
           f == scheme.fanouts
<1>0. Points' = Points /\ Bucket' = Bucket /\ MaxCopies' = MaxCopies
  BY DEF Points, Bucket, MaxCopies, MergeSmall
<1>1. /\ scheme' = scheme /\ round' = round /\ pending' = pending /\ leaves' = leaves
      /\ ~ merging.stuck
  BY DEF MergeSmall, WantsMerge
<1>2. PICK i, from, r : /\ Merged(b, r, i, from) /\ Sorted(r) /\ r = merging'.buckets
                        /\ merging' = [merging EXCEPT !.buckets = r]
  BY MergeSmallIs
<1>3. /\ merging \in [depth : Nat, path : Seq(Nat), size : Nat, buckets : Seq(Bucket), stuck : BOOLEAN]
  BY DEF Shape
<1>4. /\ merging' \in [depth : Nat, path : Seq(Nat), size : Nat, buckets : Seq(Bucket), stuck : BOOLEAN]
      /\ merging'.depth = merging.depth /\ merging'.stuck = merging.stuck
  BY <1>2, <1>3 DEF Merged
<1>5. Shape'
  BY <1>0, <1>1, <1>4 DEF Shape
<1>6. Counted'
  BY <1>1 DEF Counted
<1>7. Depths'
  BY <1>1, <1>4 DEF Depths
<1>8. Order'
  <2>1. Sorted(merging.buckets)'
    BY <1>2 DEF Sorted
  <2> QED BY <1>1, <1>4, <2>1 DEF Order
<1>m. /\ Len(b) \in Nat /\ Len(r) = Len(b) - 1 /\ i \in 1..Len(r) /\ Len(b) > 1
      /\ from \in [1..Len(r) -> 1..Len(r)]
      /\ \A n, m \in 1..Len(r) : from[n] = from[m] => n = m
      /\ \A m \in 1..Len(r) : \E n \in 1..Len(r) : from[n] = m
  BY <1>2 DEF Merged
<1>h. \A n \in 1..Len(r) : \A p :
        p \in ToSet(r[n]) <=> \/ p \in ToSet(b[from[n]])
                              \/ from[n] = i /\ p \in ToSet(b[Len(b)])
  BY <1>2 DEF Merged
<1>9. ASSUME NEW p, NEW k \in 1..Len(b), p \in ToSet(b[k])
      PROVE  \E n \in 1..Len(r) : p \in ToSet(r[n])
  <2>1. CASE k = Len(b)
    <3>1. PICK n \in 1..Len(r) : from[n] = i
      BY <1>m
    <3> QED BY <1>h, <1>9, <2>1, <3>1
  <2>2. CASE k # Len(b)
    <3>1. k \in 1..Len(r)
      BY <1>m, <2>2
    <3>2. PICK n \in 1..Len(r) : from[n] = k
      BY <1>m, <3>1
    <3>3. p \in ToSet(b[from[n]])
      BY <1>9, <3>2
    <3>4. p \in ToSet(r[n])
      BY <1>h, <3>3
    <3> QED BY <3>4
  <2> QED BY <2>1, <2>2
<1>10. Covered'
  BY <1>0, <1>1, <1>2, <1>9 DEF Covered, Holds, Ids
<1>11. Copied'
  <2> SUFFICES ASSUME NEW p \in Points
               PROVE  Share(PartsOf(p, pending, merging', leaves, f), MaxCopies)
    BY <1>0, <1>1 DEF Copied
  <2> DEFINE w == Weight(f, merging.depth + 1)
             P == PartsOf(p, pending, merging, leaves, f)
             Q == PartsOf(p, pending, merging', leaves, f)
  <2>1. /\ MaxCopies \in Nat /\ Share(P, MaxCopies) /\ Weighs(P) /\ w \in Nat
    <3>1. /\ f \in Seq(Nat \ {0}) /\ MaxCopies \in Nat /\ merging.depth \in Nat
          /\ \A c \in pending : c.depth \in Nat
      BY Basics
    <3>2. Weighs(P)
      BY <3>1, PartsWeigh DEF Weighs
    <3>3. merging.depth + 1 \in Nat
      BY <3>1
    <3> QED BY <3>1, <3>2, <3>3, WeightIs DEF Copied
  <2>2. PICK R, K : R = {x \in P : x.kind = "bucket"} /\ K = {x \in P : x.kind # "bucket"}
    OBVIOUS
  <2>3. PICK N : N = {y \in Q : y.kind = "bucket"}
    OBVIOUS
  <2>4. Q \subseteq K \cup N
    <3> SUFFICES ASSUME NEW q \in Q, q.kind # "bucket" PROVE q \in P
      BY <2>2, <2>3
    <3> QED BY PartIs DEF Part
  <2>5. ASSUME NEW y \in N
        PROVE  /\ y.of \in 1..Len(r) /\ p \in ToSet(r[y.of]) /\ y = Part("bucket", y.of, w)
               /\ y.weight = w
    <3>1. PICK n \in 1..Len(r) : p \in ToSet(r[n]) /\ y = Part("bucket", n, w)
      <4>1. y \in Q /\ y.kind = "bucket"
        BY <2>3
      <4>2. ASSUME \/ \E l \in leaves : y = Part("leaf", l, 1)
                   \/ \E c \in pending : y = Part("cluster", c, Weight(f, c.depth))
            PROVE  FALSE
        BY <4>1, <4>2 DEF Part
      <4>3. \E n \in 1..Len(merging'.buckets) :
               p \in ToSet(merging'.buckets[n]) /\ y = Part("bucket", n, Weight(f, merging'.depth + 1))
        BY <4>1, <4>2, PartIs
      <4> QED BY <1>2, <1>4, <4>3
    <3> QED BY <3>1 DEF Part
  <2>6. \A k \in 1..Len(b) : p \in ToSet(b[k]) => Part("bucket", k, w) \in R
    BY <2>2, PartIs DEF Part
  <2>7. PICK old : old = [n \in 1..Len(r) |-> IF from[n] = i /\ p \notin ToSet(b[i])
                                              THEN Len(b) ELSE from[n]]
    OBVIOUS
  <2>8. \A n \in 1..Len(r) : /\ old[n] \in 1..Len(b)
                             /\ p \in ToSet(r[n]) => p \in ToSet(b[old[n]])
    <3> TAKE n \in 1..Len(r)
    <3>1. from[n] \in 1..Len(b) /\ Len(b) \in 1..Len(b)
      <4>1. PICK m \in 1..Len(r) : m = from[n]
        BY <1>m
      <4>2. Len(b) \in Nat /\ Len(r) = Len(b) - 1
        BY <1>m
      <4> QED BY <4>1, <4>2
    <3> QED BY <1>h, <2>7, <3>1
  <2>9. \A n, m \in 1..Len(r) : old[n] = old[m] => n = m
    <3> SUFFICES ASSUME NEW n \in 1..Len(r), NEW m \in 1..Len(r), old[n] = old[m] PROVE n = m
      OBVIOUS
    <3>1. PICK k, j, B : k = from[n] /\ j = from[m] /\ B = Len(b)
      OBVIOUS
    <3>2. k \in 1..(B - 1) /\ j \in 1..(B - 1) /\ B \in Nat
      BY <1>m, <3>1
    <3>3. k # B /\ j # B
      BY <3>2
    <3>4. k = j
      BY <2>7, <3>1, <3>3
    <3> QED BY <1>m, <3>1, <3>4
  <2>10. PICK g : g = [y \in N |-> Part("bucket", old[y.of], w)]
    OBVIOUS
  <2>11. ASSUME NEW y \in N
         PROVE  g[y] \in R /\ g[y].weight = w /\ g[y].of = old[y.of] /\ y.weight = w
    <3>1. Part("bucket", old[y.of], w) \in R
      <4>1. PICK k : k = old[y.of]
        OBVIOUS
      <4>2. k \in 1..Len(b) /\ p \in ToSet(b[k])
        <5>1. PICK n \in 1..Len(r) : n = y.of /\ p \in ToSet(r[n])
          BY <2>5
        <5> QED BY <2>8, <4>1, <5>1
      <4> QED BY <2>6, <4>1, <4>2
    <3> QED BY <2>5, <2>10, <3>1 DEF Part
  <2>12. ASSUME NEW y \in N, NEW z \in N, g[y] = g[z] PROVE y = z
    <3>1. old[y.of] = old[z.of]
      BY <2>11, <2>12
    <3>2. y.of = z.of
      BY <2>5, <2>9, <3>1
    <3>3. y = Part("bucket", y.of, w) /\ z = Part("bucket", z.of, w)
      BY <2>5
    <3> QED BY <3>2, <3>3
  <2>13. g \in [N -> R]
    BY <2>10, <2>11
  <2>14. \A y \in N : y.weight \in Nat /\ y.weight <= g[y].weight
    BY <2>1, <2>11
  <2>15. PICK pos : Divides(N, R, g, pos)
    BY <2>12, <2>13, <2>14, Renames
  <2>16. K \subseteq P /\ R \subseteq P /\ K \cap R = {}
    BY <2>2
  <2> HIDE DEF P, Q
  <2>17. Share(Q, MaxCopies)
    BY <2>1, <2>4, <2>15, <2>16, Replace
  <2> QED BY <2>17 DEF Q
<1> QED BY <1>5, <1>6, <1>7, <1>8, <1>10, <1>11

LEMMA SpawnInv ==
  ASSUME ClusterTreeAssumption, IInv, Spawn PROVE IInv'
<1> USE DEF IInv
<1> DEFINE b == merging.buckets
           f == scheme.fanouts
           deep(k) == TooDeep(merging.depth, b[k], merging.size)
           made(k) == [pts |-> b[k], depth |-> merging.depth + 1, split |-> deep(k),
                       path |-> Append(merging.path, k)]
<1>0. Points' = Points /\ Bucket' = Bucket /\ MaxCopies' = MaxCopies
  BY DEF Points, Bucket, MaxCopies, Spawn
<1>1. /\ scheme' = scheme /\ round' = round /\ leaves' = leaves /\ merging' = Nothing
      /\ pending' = pending \cup {made(k) : k \in 1..Len(b)}
  BY DEF Spawn
<1>2. /\ f \in Seq(Nat \ {0}) /\ MaxCopies \in Nat /\ merging.depth \in Nat /\ Len(b) \in Nat
      /\ merging.path \in Seq(Nat) /\ merging.depth + 1 \in Nat
      /\ \A k \in 1..Len(b) : b[k] \in Bucket
      /\ \A c \in pending : c.depth \in Nat
  <2>1. merging.depth \in Nat
    BY Basics
  <2>2. merging.depth + 1 \in Nat
    BY <2>1
  <2> QED BY <2>2, Basics
<1>3. /\ Nothing \in [depth : Nat, path : Seq(Nat), size : Nat, buckets : Seq(Bucket), stuck : BOOLEAN]
      /\ Nothing.depth = 0 /\ Nothing.buckets = << >> /\ Nothing.stuck = FALSE /\ Len(Nothing.buckets) = 0
  BY EmptySeq DEF Nothing
<1>4. ASSUME NEW k \in 1..Len(b)
      PROVE  /\ made(k) \in [pts : Bucket, depth : Nat, split : BOOLEAN, path : Seq(Nat)]
             /\ made(k).depth = merging.depth + 1 /\ made(k).pts = b[k]
             /\ made(k).depth <= IF made(k).split THEN MAX_DEPTH + 2 ELSE MAX_DEPTH + 1
  <2>1. deep(k) \in BOOLEAN
    BY DEF TooDeep
  <2>2. Append(merging.path, k) \in Seq(Nat)
    BY <1>2, AppendProperties
  <2>3. merging.depth <= MAX_DEPTH + 1 /\ MAX_DEPTH \in Nat
    BY DEF Depths, ClusterTreeAssumption
  <2>4. ~ deep(k) => merging.depth <= MAX_DEPTH
    BY <1>2, <2>3 DEF TooDeep
  <2> HIDE DEF deep
  <2> QED BY <1>2, <2>1, <2>2, <2>3, <2>4
<1> HIDE DEF made
<1>5. Shape'
  BY <1>0, <1>1, <1>3, <1>4 DEF Shape
<1>6. Counted'
  BY <1>1 DEF Counted
<1>7. Depths'
  <2>1. Nothing.depth <= MAX_DEPTH + 1
    BY <1>3 DEF ClusterTreeAssumption
  <2> QED BY <1>1, <1>4, <2>1 DEF Depths
<1>8. Order'
  <2>1. DOMAIN << >> = {}
    OBVIOUS
  <2>2. Sorted(Nothing.buckets)
    BY <1>3, <2>1 DEF Sorted
  <2> QED BY <1>1, <1>3, <2>2 DEF Order, Sorted
<1>9. Covered'
  <2> SUFFICES ASSUME round < scheme.rounds, NEW p \in Points PROVE Holds(p)'
    BY <1>0, <1>1 DEF Covered
  <2>1. CASE \E i \in 1..Len(b) : p \in ToSet(b[i])
    <3>1. PICK i \in 1..Len(b) : p \in ToSet(b[i])
      BY <2>1
    <3>2. made(i) \in pending' /\ p \in Ids(made(i))
      BY <1>1, <1>4, <3>1 DEF Ids
    <3> QED BY <3>2 DEF Holds, Ids
  <2>2. CASE \E l \in leaves : p \in l.ids
    BY <1>1, <2>2 DEF Holds
  <2>3. CASE \E c \in pending : p \in Ids(c)
    BY <1>1, <2>3 DEF Holds, Ids
  <2> QED BY <2>1, <2>2, <2>3 DEF Covered, Holds
<1>10. Copied'
  <2> SUFFICES ASSUME NEW p \in Points
               PROVE  Share(PartsOf(p, pending', Nothing, leaves, f), MaxCopies)
    BY <1>0, <1>1 DEF Copied
  <2> DEFINE w == Weight(f, merging.depth + 1)
             P == PartsOf(p, pending, merging, leaves, f)
             Q == PartsOf(p, pending', Nothing, leaves, f)
  <2>1. /\ MaxCopies \in Nat /\ Share(P, MaxCopies) /\ Weighs(P) /\ w \in Nat
    <3>1. Weighs(P)
      BY <1>2, PartsWeigh DEF Weighs
    <3> QED BY <1>2, <3>1, WeightIs DEF Copied
  <2>2. PICK R, K : R = {x \in P : x.kind = "bucket"} /\ K = {x \in P : x.kind # "bucket"}
    OBVIOUS
  <2>3. PICK N : N = Q \ K
    OBVIOUS
  <2>4. Q \subseteq K \cup N
    BY <2>3
  <2>5. ASSUME NEW y \in N
        PROVE  \E k \in 1..Len(b) : p \in ToSet(b[k]) /\ y = Part("cluster", made(k), w)
    <3>1. y \in Q /\ y \notin K
      BY <2>3
    <3>2. CASE \E l \in leaves : p \in l.ids /\ y = Part("leaf", l, 1)
      <4>1. y \in P /\ y.kind # "bucket"
        BY <3>2, PartIs DEF Part
      <4> QED BY <2>2, <3>1, <4>1
    <3>3. CASE \E c \in pending' : p \in ToSet(c.pts) /\ y = Part("cluster", c, Weight(f, c.depth))
      <4>1. PICK c \in pending' : p \in ToSet(c.pts) /\ y = Part("cluster", c, Weight(f, c.depth))
        BY <3>3
      <4>2. CASE c \in pending
        <5>1. y \in P /\ y.kind # "bucket"
          BY <4>1, <4>2, PartIs DEF Part
        <5> QED BY <2>2, <3>1, <5>1
      <4>3. CASE \E k \in 1..Len(b) : c = made(k)
        <5>1. PICK k \in 1..Len(b) : c = made(k)
          BY <4>3
        <5>2. c.depth = merging.depth + 1 /\ c.pts = b[k]
          BY <1>4, <5>1
        <5> QED BY <4>1, <5>1, <5>2
      <4> QED BY <1>1, <4>2, <4>3
    <3> QED BY <1>3, <3>1, <3>2, <3>3, PartIs
  <2>6. PICK of : of = [y \in N |-> CHOOSE k \in 1..Len(b) : p \in ToSet(b[k]) /\ y = Part("cluster", made(k), w)]
    OBVIOUS
  <2>7. \A y \in N : /\ of[y] \in 1..Len(b) /\ p \in ToSet(b[of[y]])
                     /\ y = Part("cluster", made(of[y]), w) /\ y.weight = w
    <3> TAKE y \in N
    <3>1. of[y] = CHOOSE k \in 1..Len(b) : p \in ToSet(b[k]) /\ y = Part("cluster", made(k), w)
      BY <2>6
    <3>2. of[y] \in 1..Len(b) /\ p \in ToSet(b[of[y]]) /\ y = Part("cluster", made(of[y]), w)
      BY <2>5, <3>1
    <3> QED BY <3>2 DEF Part
  <2>8. PICK g : g = [y \in N |-> Part("bucket", of[y], w)]
    OBVIOUS
  <2>9. ASSUME NEW y \in N
        PROVE  g[y] \in R /\ g[y].weight = w /\ g[y].of = of[y] /\ y.weight = w
    <3>1. PICK k \in 1..Len(b) : k = of[y] /\ p \in ToSet(b[k])
      BY <2>7
    <3>2. Part("bucket", k, w) \in R
      BY <2>2, <3>1, PartIs DEF Part
    <3> QED BY <2>7, <2>8, <3>1, <3>2 DEF Part
  <2>10. ASSUME NEW y \in N, NEW z \in N, g[y] = g[z] PROVE y = z
    <3>1. of[y] = of[z]
      BY <2>9, <2>10
    <3> QED BY <2>7, <3>1
  <2>11. g \in [N -> R]
    BY <2>8, <2>9
  <2>12. \A y \in N : y.weight \in Nat /\ y.weight <= g[y].weight
    BY <2>1, <2>9
  <2>13. PICK pos : Divides(N, R, g, pos)
    BY <2>10, <2>11, <2>12, Renames
  <2>14. K \subseteq P /\ R \subseteq P /\ K \cap R = {}
    BY <2>2
  <2> HIDE DEF P, Q
  <2>15. Share(Q, MaxCopies)
    BY <2>1, <2>4, <2>13, <2>14, Replace
  <2> QED BY <2>15 DEF Q
<1> QED BY <1>5, <1>6, <1>7, <1>8, <1>9, <1>10

LEMMA NextRoundInv ==
  ASSUME ClusterTreeAssumption, IInv, NextRound PROVE IInv'
<1> USE DEF IInv
<1>0. Points' = Points /\ Bucket' = Bucket /\ MaxCopies' = MaxCopies
  BY DEF Points, Bucket, MaxCopies, NextRound
<1>1. /\ scheme' = scheme /\ round' = round + 1 /\ leaves' = {} /\ merging' = merging
      /\ merging = Nothing /\ round < scheme.rounds
      /\ pending' = IF round + 1 < scheme.rounds THEN {Root} ELSE {}
  BY DEF NextRound, RoundOver
<1>2. /\ scheme.fanouts \in Seq(Nat \ {0}) /\ scheme.n_points \in Nat \ {0} /\ scheme.rounds \in Nat
      /\ round \in Nat
  BY Basics DEF Shape
<1>3. /\ Root \in [pts : Bucket, depth : Nat, split : BOOLEAN, path : Seq(Nat)]
      /\ Root.depth = 0 /\ Root.split = FALSE /\ Ids(Root) = Points
  BY <1>2, RootIs
<1>4. Shape'
  <2>1. round' \in 0..scheme.rounds
    BY <1>1, <1>2
  <2> QED BY <1>0, <1>1, <1>3, <2>1 DEF Shape
<1>5. Counted'
  BY <1>1 DEF Counted
<1>6. Depths'
  BY <1>1, <1>3 DEF Depths, ClusterTreeAssumption
<1>7. Order'
  BY <1>1 DEF Order, Sorted, Targets
<1>8. Covered'
  BY <1>0, <1>1, <1>3 DEF Covered, Holds, Ids
<1>9. Copied'
  <2> SUFFICES ASSUME NEW p \in Points
               PROVE  Share(PartsOf(p, pending', Nothing, {}, scheme.fanouts), MaxCopies)
    BY <1>0, <1>1 DEF Copied
  <2>1. pending' \subseteq {Root}
    BY <1>1
  <2> QED BY <1>2, <2>1, RootShare DEF MaxCopies
<1> QED BY <1>4, <1>5, <1>6, <1>7, <1>8, <1>9

\* A point goes to at least one leader, and to no more than the fanout says.
LEMMA LeaderSetsAre ==
  ASSUME ClusterTreeAssumption, scheme \in Schemes, NEW d \in Nat, NEW size \in Nat,
         NEW A \in LeaderSets(d, size)
  PROVE  /\ NumLeaders(d, size) \in Nat /\ A \subseteq 1..NumLeaders(d, size) /\ A # {}
         /\ IsFiniteSet(A) /\ Cardinality(A) \in Nat /\ Cardinality(A) <= Fan(scheme.fanouts, d)
<1> DEFINE f == scheme.fanouts
<1>1. f \in Seq(Nat \ {0})
  BY DEF ClusterTreeAssumption
<1>2. Fan(f, d) \in Nat \ {0} /\ Fan(f, d) = IF d < Len(f) THEN f[d + 1] ELSE 1
  BY <1>1, WeightIs DEF Fan
<1>3. NumLeaders(d, size) \in Nat \ {0}
  <2>1. size \div FractionInverse \in Nat
    BY DEF ClusterTreeAssumption
  <2>2. PICK x : x = IF d = 0 THEN TOP_LEVEL_NUM_LEADERS ELSE size \div FractionInverse
    OBVIOUS
  <2>3. x \in Nat /\ MAX_NUM_LEADERS \in Nat
    BY <2>1, <2>2 DEF ClusterTreeAssumption
  <2>4. NumLeaders(d, size) = Most(3, Least(MAX_NUM_LEADERS, x))
    BY <2>2 DEF NumLeaders
  <2> QED BY <2>3, <2>4 DEF Least, Most
<1>4. Fanout(d, size) \in Nat \ {0} /\ Fanout(d, size) <= Fan(f, d)
  <2>1. Fanout(d, size) = Least(NumLeaders(d, size), Fan(f, d))
    BY <1>2 DEF Fanout
  <2> QED BY <1>2, <1>3, <2>1 DEF Least
<1>5. /\ A \subseteq 1..NumLeaders(d, size)
      /\ Cardinality(A) = Fanout(d, size) \/ Cardinality(A) \in 1..Fanout(d, size)
  BY DEF LeaderSets
<1>6. IsFiniteSet(A) /\ Cardinality(A) \in Nat
  <2>1. IsFiniteSet(1..NumLeaders(d, size))
    BY <1>3, FS_Interval
  <2> QED BY <1>5, <2>1, FS_Subset, FS_CardinalityType
<1>7. Cardinality(A) # 0
  BY <1>4, <1>5
<1>8. A # {}
  BY <1>7, FS_EmptySet
<1>9. Cardinality(A) <= Fan(f, d)
  BY <1>2, <1>4, <1>5, <1>6
<1> QED BY <1>3, <1>5, <1>6, <1>8, <1>9

\* The n filled buckets r that the points of s are divided into.
Divided(s, d, assigned, r, n) ==
  /\ n \in Nat /\ r \in Seq(Bucket) /\ Len(r) = n /\ Sorted(r)
  /\ \A p \in ToSet(s) : /\ assigned[p] # {} /\ assigned[p] \subseteq 1..n
                         /\ IsFiniteSet(assigned[p]) /\ Cardinality(assigned[p]) \in Nat
                         /\ Cardinality(assigned[p]) <= Fan(scheme.fanouts, d)
  /\ \A l \in 1..n : \A p : p \in ToSet(r[l]) <=> p \in ToSet(s) /\ l \in assigned[p]

LEMMA DivideIs ==
  ASSUME ClusterTreeAssumption, Shape, NEW c \in pending, Divide(c)
  PROVE  \E assigned, r, n :
            /\ Divided(c.pts, c.depth, assigned, r, n)
            /\ merging' = [depth |-> c.depth, path |-> c.path, size |-> Len(c.pts),
                           buckets |-> r, stuck |-> FALSE]
<1> DEFINE s == c.pts
           nl == NumLeaders(c.depth, Len(s))
<1>1. /\ s \in Seq(Points) /\ Len(s) \in Nat /\ c.depth \in Nat /\ IsInjective(s) /\ Len(s) # 0
      /\ scheme \in Schemes
  BY Basics DEF Shape
<1>2. PICK assigned \in [ToSet(s) -> LeaderSets(c.depth, Len(s))] :
        LET b == Grouped(s, assigned, nl)
        IN  /\ Sorted(b)
            /\ \E n \in Filled(b) :
                 merging' = [depth |-> c.depth, path |-> c.path, size |-> Len(s),
                             buckets |-> SubSeq(b, 1, n), stuck |-> FALSE]
  BY DEF Divide
<1>3. PICK b : b = Grouped(s, assigned, nl)
  OBVIOUS
<1>4. PICK n \in Filled(b) : merging' = [depth |-> c.depth, path |-> c.path, size |-> Len(s),
                                       buckets |-> SubSeq(b, 1, n), stuck |-> FALSE]
  BY <1>2, <1>3
<1>5. ASSUME NEW p \in ToSet(s)
      PROVE  /\ nl \in Nat /\ assigned[p] \subseteq 1..nl /\ assigned[p] # {}
             /\ IsFiniteSet(assigned[p]) /\ Cardinality(assigned[p]) \in Nat
             /\ Cardinality(assigned[p]) <= Fan(scheme.fanouts, c.depth)
  <2>1. assigned[p] \in LeaderSets(c.depth, Len(s))
    BY <1>2
  <2> QED BY <1>1, <2>1, LeaderSetsAre
<1>6. nl \in Nat
  <2>1. s[1] \in ToSet(s)
    <3>1. 1 \in 1..Len(s)
      BY <1>1
    <3> QED BY <1>1, <3>1, InSet
  <2> QED BY <1>5, <2>1
<1> HIDE DEF nl
<1>7. ASSUME NEW l \in 1..nl
      PROVE  /\ b[l] \in Seq(Points) /\ IsInjective(b[l])
             /\ \A p : p \in ToSet(b[l]) <=> (p \in ToSet(s) /\ l \in assigned[p])
  <2>1. PICK S : S = {p \in ToSet(s) : l \in assigned[p]}
    OBVIOUS
  <2>2. b[l] = Chosen(s, S)
    BY <1>3, <2>1 DEF Grouped
  <2>3. /\ b[l] \in Seq(Points) /\ IsInjective(b[l])
        /\ \A p : p \in ToSet(b[l]) <=> p \in ToSet(s) /\ p \in S
    BY <1>1, <2>2, ChosenIs
  <2> QED BY <2>1, <2>3
<1>8. b \in Seq(Seq(Points)) /\ Len(b) = nl /\ DOMAIN b = 1..nl
  <2>1. b = [l \in 1..nl |-> b[l]]
    BY <1>3 DEF Grouped
  <2>2. b \in [1..nl -> Seq(Points)]
    BY <1>7, <2>1
  <2> QED BY <1>6, <2>2, AsSeq
<1>9. n \in 0..nl /\ \A l \in 1..nl : b[l] # << >> <=> l <= n
  BY <1>4, <1>8 DEF Filled
<1>10. PICK r : r = SubSeq(b, 1, n)
  OBVIOUS
<1>11. \A l \in 1..n : l \in 1..nl /\ b[l] \in Bucket
  <2> SUFFICES ASSUME NEW l \in 1..n PROVE l \in 1..nl /\ b[l] \in Bucket
    OBVIOUS
  <2>1. l \in 1..nl /\ l <= n
    BY <1>6, <1>9
  <2> QED BY <1>7, <1>9, <2>1 DEF Bucket
<1>12. n \in Nat /\ r \in Seq(Bucket) /\ Len(r) = n /\ \A l \in 1..n : r[l] = b[l]
  <2>1. n \in Nat
    BY <1>6, <1>9
  <2>2. /\ SubSeq(b, 1, n) \in Seq(Bucket) /\ Len(SubSeq(b, 1, n)) = n
        /\ \A l \in 1..n : SubSeq(b, 1, n)[l] = b[l]
    BY <1>11, <2>1, SubSeqProperties
  <2> QED BY <1>10, <2>1, <2>2
<1>13. Sorted(r)
  <2>1. DOMAIN r = 1..n
    BY <1>12, LenProperties
  <2>2. \A i, j \in 1..nl : i < j => Len(b[i]) >= Len(b[j])
    BY <1>2, <1>3, <1>8 DEF Sorted
  <2>3. \A i, j \in 1..n : i < j => Len(r[i]) >= Len(r[j])
    BY <1>11, <1>12, <2>2
  <2> QED BY <2>1, <2>3 DEF Sorted
<1>14. ASSUME NEW p \in ToSet(s) PROVE assigned[p] \subseteq 1..n
  <2> SUFFICES ASSUME NEW l \in assigned[p] PROVE l \in 1..n
    OBVIOUS
  <2>1. l \in 1..nl
    BY <1>5, <1>6
  <2>2. p \in ToSet(b[l])
    BY <1>7, <2>1
  <2>3. b[l] # << >>
    <3>1. ToSet(<< >>) = {}
      BY DEF ToSet
    <3> QED BY <2>2, <3>1
  <2> QED BY <1>9, <1>12, <2>1, <2>3
<1>15. \A l \in 1..n : \A p : p \in ToSet(r[l]) <=> p \in ToSet(s) /\ l \in assigned[p]
  BY <1>7, <1>11, <1>12
<1>16. Divided(s, c.depth, assigned, r, n)
  BY <1>5, <1>12, <1>13, <1>14, <1>15 DEF Divided
<1> QED BY <1>4, <1>10, <1>16

\* The shares of a cluster that is divided: one after another, as long as what a
\* cluster of the next level needs.
LEMMA Slots ==
  ASSUME NEW A, IsFiniteSet(A), NEW F \in Nat, Cardinality(A) \in Nat, Cardinality(A) <= F,
         NEW w \in Nat
  PROVE  \E at \in [A -> Nat] : /\ \A l \in A : at[l] + w <= F * w
                                /\ \A l, m \in A : l # m => Apart(at[l], w, at[m], w)
<1> DEFINE C == Cardinality(A)
<1>1. C \in Nat /\ ExistsBijection(1..C, A)
  BY FS_CardinalityType
<1>2. PICK h \in Bijection(1..C, A) : TRUE
  BY <1>1 DEF ExistsBijection
<1>3. h \in [1..C -> A] /\ \A l \in A : \E k \in 1..C : h[k] = l
  BY <1>2 DEF Bijection, Surjection, Injection
<1>4. PICK e : e = [l \in A |-> CHOOSE k \in 1..C : h[k] = l]
  OBVIOUS
<1>5. \A l \in A : e[l] \in 1..C /\ h[e[l]] = l
  BY <1>3, <1>4
<1>6. PICK at : at = [l \in A |-> (e[l] - 1) * w]
  OBVIOUS
<1>7. ASSUME NEW l \in A PROVE at[l] \in Nat /\ at[l] + w <= F * w
  <2>1. PICK k : k = e[l] - 1
    OBVIOUS
  <2>2. k \in Nat /\ k < C /\ at[l] = k * w
    BY <1>1, <1>5, <1>6, <2>1
  <2>3. k < F
    BY <1>1, <2>2
  <2>4. k * w + w <= F * w /\ k * w \in Nat
    BY <2>2, <2>3, Steps
  <2> QED BY <2>2, <2>4
<1>8. ASSUME NEW l \in A, NEW m \in A, l # m PROVE Apart(at[l], w, at[m], w)
  <2>1. PICK k, j : k = e[l] - 1 /\ j = e[m] - 1
    OBVIOUS
  <2>a. e[l] \in 1..C /\ e[m] \in 1..C /\ e[l] # e[m]
    BY <1>5, <1>8
  <2>b. k \in Nat /\ j \in Nat /\ k # j
    BY <1>1, <2>1, <2>a
  <2>2. at[l] = k * w /\ at[m] = j * w
    BY <1>6, <2>1
  <2>3. k < j \/ j < k
    BY <2>b
  <2>4. CASE k < j
    <3>1. k * w + w <= j * w
      BY <2>b, <2>4, Steps
    <3>2. at[l] + w <= at[m]
      BY <2>2, <3>1
    <3> QED BY <3>2 DEF Apart
  <2>5. CASE j < k
    <3>1. j * w + w <= k * w
      BY <2>b, <2>5, Steps
    <3>2. at[m] + w <= at[l]
      BY <2>2, <3>1
    <3> QED BY <3>2 DEF Apart
  <2> QED BY <2>3, <2>4, <2>5
<1>9. at \in [A -> Nat]
  BY <1>6, <1>7
<1> QED BY <1>7, <1>8, <1>9

LEMMA DivideInv ==
  ASSUME ClusterTreeAssumption, IInv, NEW c \in pending, Divide(c) PROVE IInv'
<1> USE DEF IInv
<1> DEFINE f == scheme.fanouts
<1>0. Points' = Points /\ Bucket' = Bucket /\ MaxCopies' = MaxCopies
  BY DEF Points, Bucket, MaxCopies, Divide
<1>1. /\ scheme' = scheme /\ round' = round /\ leaves' = leaves /\ merging = Nothing
      /\ pending' = pending \ {c} /\ ~ c.split
  BY DEF Divide
<1>2. /\ f \in Seq(Nat \ {0}) /\ MaxCopies \in Nat /\ c.depth \in Nat /\ c.path \in Seq(Nat)
      /\ Len(c.pts) \in Nat /\ \A d \in pending : d.depth \in Nat
      /\ merging.depth \in Nat /\ merging.buckets = << >> /\ Len(merging.buckets) = 0
      /\ c.depth + 1 \in Nat
  <2>1. c.depth \in Nat
    BY Basics
  <2>2. c.depth + 1 \in Nat
    BY <2>1
  <2>3. merging.buckets = << >> /\ Len(merging.buckets) = 0
    BY <1>1, EmptySeq DEF Nothing
  <2> QED BY <2>2, <2>3, Basics
<1>3. PICK assigned, r, n : /\ Divided(c.pts, c.depth, assigned, r, n)
                            /\ merging' = [depth |-> c.depth, path |-> c.path, size |-> Len(c.pts),
                                           buckets |-> r, stuck |-> FALSE]
  BY DivideIs
<1>4. /\ n \in Nat /\ r \in Seq(Bucket) /\ Len(r) = n /\ Sorted(r)
      /\ \A l \in 1..n : \A p : p \in ToSet(r[l]) <=> p \in ToSet(c.pts) /\ l \in assigned[p]
  BY <1>3 DEF Divided
<1>5. /\ merging'.depth = c.depth /\ merging'.buckets = r /\ merging'.stuck = FALSE
      /\ merging' \in [depth : Nat, path : Seq(Nat), size : Nat, buckets : Seq(Bucket), stuck : BOOLEAN]
  BY <1>2, <1>3, <1>4
<1>6. Shape'
  BY <1>0, <1>1, <1>5 DEF Shape
<1>7. Counted'
  BY <1>1 DEF Counted
<1>8. Depths'
  BY <1>1, <1>5 DEF Depths
<1>9. Order'
  <2>1. Sorted(merging.buckets)'
    BY <1>4, <1>5 DEF Sorted
  <2> QED BY <1>5, <2>1 DEF Order
<1>10. Covered'
  <2> SUFFICES ASSUME round < scheme.rounds, NEW p \in Points PROVE Holds(p)'
    BY <1>0, <1>1 DEF Covered
  <2>1. CASE p \in ToSet(c.pts)
    <3>1. PICK l \in 1..n : l \in assigned[p]
      BY <1>3, <2>1 DEF Divided
    <3>2. p \in ToSet(r[l])
      BY <1>4, <2>1, <3>1
    <3> QED BY <1>4, <1>5, <3>1, <3>2 DEF Holds
  <2>2. CASE \E l \in leaves : p \in l.ids
    BY <1>1, <2>2 DEF Holds
  <2>3. CASE p \notin ToSet(c.pts) /\ \E d \in pending : p \in Ids(d)
    BY <1>1, <2>3 DEF Holds, Ids
  <2> QED BY <1>2, <2>1, <2>2, <2>3 DEF Covered, Holds
<1>11. Copied'
  <2> SUFFICES ASSUME NEW p \in Points
               PROVE  Share(PartsOf(p, pending \ {c}, merging', leaves, f), MaxCopies)
    BY <1>0, <1>1 DEF Copied
  <2> DEFINE w == Weight(f, c.depth + 1)
             P == PartsOf(p, pending, merging, leaves, f)
             Q == PartsOf(p, pending \ {c}, merging', leaves, f)
             x == Part("cluster", c, Weight(f, c.depth))
             A == assigned[p]
  <2>1. /\ MaxCopies \in Nat /\ Share(P, MaxCopies) /\ Weighs(P) /\ w \in Nat
    <3>1. Weighs(P)
      BY <1>2, PartsWeigh DEF Weighs
    <3> QED BY <1>2, <3>1, WeightIs DEF Copied
  <2>2. ASSUME NEW q \in Q
        PROVE  \/ q \in P /\ q # x
               \/ p \in ToSet(c.pts) /\ \E l \in A : q = Part("bucket", l, w)
    <3>1. CASE \E l \in leaves : p \in l.ids /\ q = Part("leaf", l, 1)
      BY <3>1, PartIs DEF Part
    <3>2. CASE \E d \in pending \ {c} : p \in ToSet(d.pts) /\ q = Part("cluster", d, Weight(f, d.depth))
      BY <3>2, PartIs DEF Part
    <3>3. CASE \E l \in 1..n : p \in ToSet(r[l]) /\ q = Part("bucket", l, w)
      BY <1>4, <3>3
    <3>4. \/ \E l \in leaves : p \in l.ids /\ q = Part("leaf", l, 1)
          \/ \E d \in pending \ {c} : p \in ToSet(d.pts) /\ q = Part("cluster", d, Weight(f, d.depth))
          \/ \E l \in 1..Len(merging'.buckets) :
                p \in ToSet(merging'.buckets[l]) /\ q = Part("bucket", l, Weight(f, merging'.depth + 1))
      BY PartIs
    <3>5. Len(merging'.buckets) = n /\ merging'.buckets = r /\ merging'.depth = c.depth
      BY <1>4, <1>5
    <3> HIDE DEF P, Q, x, A
    <3> QED BY <3>1, <3>2, <3>3, <3>4, <3>5
  <2>3. CASE p \in ToSet(c.pts)
    <3>1. IsFiniteSet(A) /\ Cardinality(A) \in Nat /\ Cardinality(A) <= Fan(f, c.depth)
      BY <1>3, <2>3 DEF Divided
    <3>2. Fan(f, c.depth) \in Nat /\ x.weight = Fan(f, c.depth) * w
      BY <1>2, WeightIs DEF Part
    <3>3. PICK at \in [A -> Nat] : /\ \A l \in A : at[l] + w <= Fan(f, c.depth) * w
                                   /\ \A l, m \in A : l # m => Apart(at[l], w, at[m], w)
      BY <2>1, <3>1, <3>2, Slots
    <3>4. PICK N, K, R : N = {Part("bucket", l, w) : l \in A} /\ K = P \ {x} /\ R = {x}
      OBVIOUS
    <3>5. Q \subseteq K \cup N
      BY <2>2, <3>4
    <3>6. x \in P
      BY <2>3, PartIs
    <3>7. PICK g, pos : g = [y \in N |-> x] /\ pos = [y \in N |-> at[y.of]]
      OBVIOUS
    <3>8. \A y \in N : y.of \in A /\ y.weight = w /\ y = Part("bucket", y.of, w)
      BY <3>4 DEF Part
    <3>9. g \in [N -> R] /\ pos \in [N -> Nat]
      BY <3>4, <3>7, <3>8
    <3>10. \A y \in N : y.weight \in Nat /\ pos[y] + y.weight <= g[y].weight
      BY <2>1, <3>2, <3>3, <3>7, <3>8
    <3>11. ASSUME NEW y \in N, NEW z \in N, y # z PROVE Apart(pos[y], y.weight, pos[z], z.weight)
      <4>1. y.of # z.of /\ y.of \in A /\ z.of \in A
        BY <3>8, <3>11
      <4> QED BY <3>3, <3>7, <3>8, <4>1
    <3>12. Divides(N, R, g, pos)
      BY <3>9, <3>10, <3>11 DEF Divides
    <3>13. K \subseteq P /\ R \subseteq P /\ K \cap R = {}
      BY <3>4, <3>6
    <3> HIDE DEF P, Q
    <3>14. Share(Q, MaxCopies)
      BY <2>1, <3>5, <3>12, <3>13, Replace
    <3> QED BY <3>14 DEF Q
  <2>4. CASE p \notin ToSet(c.pts)
    <3>1. Q \subseteq P
      BY <2>2, <2>4
    <3> HIDE DEF P, Q
    <3>2. Share(Q, MaxCopies)
      BY <2>1, <3>1, Fewer
    <3> QED BY <3>2 DEF Q
  <2> QED BY <2>3, <2>4
<1> QED BY <1>6, <1>7, <1>8, <1>9, <1>10, <1>11

LEMMA StutterInv ==
  ASSUME IInv, UNCHANGED treeVars PROVE IInv'
<1>1. /\ scheme' = scheme /\ round' = round /\ pending' = pending /\ merging' = merging /\ leaves' = leaves
  BY DEF treeVars
<1>2. Points' = Points /\ Bucket' = Bucket /\ MaxCopies' = MaxCopies
  BY <1>1 DEF Points, Bucket, MaxCopies
<1> QED BY <1>1, <1>2 DEF IInv, Shape, Counted, Depths, Order, Sorted, Targets, Covered, Holds, Ids, Copied

-----------------------------------------------------------------------------
(* The theorems. *)

\* The inductive invariant: the buckets are in order while they are merged, and what
\* is left of a point's copies is shared out among the clusters that have it.
THEOREM Invariant == ASSUME ClusterTreeAssumption PROVE TreeSpec => []IInv
<1>1. TreeInit => IInv
  BY InitInv
<1>2. IInv /\ [TreeNext]_treeVars => IInv'
  <2> SUFFICES ASSUME IInv, [TreeNext]_treeVars PROVE IInv'
    OBVIOUS
  <2>1. ASSUME NEW c \in pending, ProcessLeaf(c) PROVE IInv'
    BY <2>1, ProcessLeafInv
  <2>2. ASSUME NEW c \in pending, Divide(c) PROVE IInv'
    BY <2>2, DivideInv
  <2>3. ASSUME NEW c \in pending, Split(c) PROVE IInv'
    BY <2>3, SplitInv
  <2>4. CASE MergeSmall
    BY <2>4, MergeSmallInv
  <2>5. CASE GiveUp
    BY <2>5, GiveUpInv
  <2>6. CASE Spawn
    BY <2>6, SpawnInv
  <2>7. CASE NextRound
    BY <2>7, NextRoundInv
  <2>8. CASE TreesFinished \/ UNCHANGED treeVars
    BY <2>8, StutterInv DEF TreesFinished
  <2> QED BY <2>1, <2>2, <2>3, <2>4, <2>5, <2>6, <2>7, <2>8 DEF TreeNext
<1> QED BY <1>1, <1>2, PTL DEF TreeSpec

\* No point is lost: whatever is merged, given up, split or dropped as empty, each
\* point of a running round is in a leaf, in a cluster or in a bucket.
THEOREM NoPointIsLost == ASSUME ClusterTreeAssumption PROVE TreeSpec => []EveryPointCovered
<1>1. ASSUME IInv PROVE EveryPointCovered
  <2> USE <1>1 DEF IInv
  <2>1. TreeTypeOK
    <3>1. merging.buckets \in Seq(Seq(Points))
      <4>1. Bucket \subseteq Seq(Points)
        BY DEF Bucket
      <4> QED BY <4>1, Basics, SeqMonotonic
    <3>2. \A l \in leaves : l.ids \subseteq Points /\ l.size \in Nat
      BY DEF Shape, ClusterTreeAssumption
    <3> QED BY <3>1, <3>2, Basics DEF TreeTypeOK, Shape
  <2>2. ASSUME round < scheme.rounds
        PROVE  Points = UNION ({l.ids : l \in leaves} \cup {Ids(c) : c \in pending}
                              \cup {ToSet(b) : b \in ToSet(merging.buckets)})
    <3> DEFINE U == UNION ({l.ids : l \in leaves} \cup {Ids(c) : c \in pending}
                           \cup {ToSet(b) : b \in ToSet(merging.buckets)})
    <3>1. merging.buckets \in Seq(Seq(Points)) /\ \A c \in pending : c.pts \in Seq(Points)
      BY <2>1 DEF TreeTypeOK
    <3>2. ASSUME NEW p \in Points PROVE p \in U
      <4>1. CASE \E i \in 1..Len(merging.buckets) : p \in ToSet(merging.buckets[i])
        <5>1. PICK i \in 1..Len(merging.buckets) : p \in ToSet(merging.buckets[i])
          BY <4>1
        <5>2. merging.buckets[i] \in ToSet(merging.buckets)
          BY <3>1, InSet
        <5> QED BY <5>1, <5>2
      <4>2. CASE ~ \E i \in 1..Len(merging.buckets) : p \in ToSet(merging.buckets[i])
        BY <2>2, <4>2 DEF Covered, Holds
      <4> QED BY <4>1, <4>2
    <3>3. ASSUME NEW p \in U PROVE p \in Points
      <4>1. CASE \E l \in leaves : p \in l.ids
        BY <2>1, <4>1 DEF TreeTypeOK
      <4>2. CASE \E c \in pending : p \in Ids(c)
        BY <3>1, <4>2, InSet DEF Ids
      <4>3. CASE \E b \in ToSet(merging.buckets) : p \in ToSet(b)
        <5>1. PICK b \in ToSet(merging.buckets) : p \in ToSet(b)
          BY <4>3
        <5>2. b \in Seq(Points)
          BY <3>1, InSet
        <5> QED BY <5>1, <5>2, InSet
      <4> QED BY <4>1, <4>2, <4>3
    <3> QED BY <3>2, <3>3
  <2> QED BY <2>1, <2>2 DEF EveryPointCovered
<1> QED BY <1>1, Invariant, PTL

\* LeafKNN gets at most MAX_CLUSTER_SIZE ids and no id twice.
THEOREM LeavesAreSound == ASSUME ClusterTreeAssumption PROVE TreeSpec => []LeavesWellFormed
<1>1. IInv => LeavesWellFormed
  BY DEF IInv, Shape, Counted, LeavesWellFormed
<1> QED BY <1>1, Invariant, PTL

\* When MergeSmallClusters is done, no two buckets of which one is too small would fit
\* into one cluster, although only the last bucket was looked at.
THEOREM MergingIsComplete == ASSUME ClusterTreeAssumption PROVE TreeSpec => []NothingLeftToMerge
<1>1. ASSUME IInv PROVE NothingLeftToMerge
  <2> DEFINE b == merging.buckets
             L == Len(b)
  <2>0. /\ L \in Nat /\ DOMAIN b = 1..L /\ \A i \in 1..L : Len(b[i]) \in Nat
        /\ MAX_CLUSTER_SIZE \in Nat /\ MIN_CLUSTER_SIZE \in Nat
    <3>1. b \in Seq(Bucket)
      BY <1>1, Basics DEF IInv
    <3> QED BY <1>1, <3>1, Basics, LenProperties DEF IInv, ClusterTreeAssumption
  <2>m. MAX_CLUSTER_SIZE \in Nat
    BY <2>0
  <2> SUFFICES ASSUME ~ WantsMerge, NEW i \in 1..L, NEW j \in 1..L, i # j, Len(b[i]) < MIN_CLUSTER_SIZE
               PROVE  Len(b[i]) + Len(b[j]) > MAX_CLUSTER_SIZE
    BY DEF NothingLeftToMerge
  <2>1. \A m \in 1..L : Len(b[m]) >= Len(b[L])
    <3> TAKE m \in 1..L
    <3>1. L \in 1..L /\ (m = L \/ m < L)
      BY <2>0
    <3>2. CASE m < L
      BY <1>1, <2>0, <3>1, <3>2 DEF IInv, Order, Sorted
    <3> QED BY <2>0, <3>1, <3>2
  <2>2. L \in 1..L /\ L > 1 /\ Len(b[L]) < MIN_CLUSTER_SIZE
    <3>1. L \in 1..L /\ L > 1
      BY <2>0
    <3> QED BY <2>0, <2>1, <3>1
  <2>3. merging.stuck
    BY <2>2 DEF WantsMerge, Last
  <2>4. Targets(Front(b), b[L]) = {}
    BY <1>1, <2>3 DEF IInv, Order, Last
  <2>5. ASSUME NEW m \in 1..(L - 1) PROVE Len(b[m]) + Len(b[L]) > MAX_CLUSTER_SIZE
    <3>1. Len(Front(b)) = L - 1 /\ Front(b)[m] = b[m] /\ m \in 1..L
      <4>1. \A k \in 1..(L - 1) : b[k] \in Bucket
        BY <1>1, <2>0, Basics DEF IInv
      <4>2. /\ Len(SubSeq(b, 1, L - 1)) = L - 1
            /\ \A k \in 1..(L - 1) : SubSeq(b, 1, L - 1)[k] = b[k]
        BY <2>0, <2>2, <4>1, SubSeqProperties
      <4> QED BY <2>0, <4>2 DEF Front
    <3>2. ~ (Len(b[m]) + Len(b[L]) <= MAX_CLUSTER_SIZE)
      BY <2>4, <3>1 DEF Targets
    <3>3. PICK x, z : x = Len(b[m]) /\ z = Len(b[L])
      OBVIOUS
    <3>4. x \in Nat /\ z \in Nat /\ ~ (x + z <= MAX_CLUSTER_SIZE)
      BY <2>0, <2>2, <3>1, <3>2, <3>3
    <3>5. x + z > MAX_CLUSTER_SIZE
      BY <2>m, <3>4
    <3> QED BY <3>3, <3>5, Zenon
  <2>6. ASSUME NEW m \in 1..(L - 1), NEW k \in 1..L PROVE Len(b[m]) + Len(b[k]) > MAX_CLUSTER_SIZE
    <3>1. PICK x, y, z : x = Len(b[m]) /\ y = Len(b[k]) /\ z = Len(b[L])
      OBVIOUS
    <3>2. m \in 1..L
      BY <2>0
    <3>3. x \in Nat /\ y \in Nat /\ z \in Nat
      BY <2>0, <2>2, <3>1, <3>2
    <3>4. x + z > MAX_CLUSTER_SIZE /\ y >= z
      BY <2>1, <2>5, <3>1
    <3>5. x + y > MAX_CLUSTER_SIZE
      BY <2>m, <3>3, <3>4
    <3> QED BY <3>1, <3>5, Zenon
  <2>7. CASE i \in 1..(L - 1)
    BY <2>6, <2>7
  <2>8. CASE j \in 1..(L - 1)
    <3>1. PICK x, y : x = Len(b[i]) /\ y = Len(b[j])
      OBVIOUS
    <3>2. x \in Nat /\ y \in Nat /\ y + x > MAX_CLUSTER_SIZE
      BY <2>0, <2>6, <2>8, <3>1
    <3>3. x + y > MAX_CLUSTER_SIZE
      BY <2>m, <3>2
    <3> QED BY <3>1, <3>3, Zenon
  <2>9. i \in 1..(L - 1) \/ j \in 1..(L - 1)
    BY <2>0
  <2> QED BY <2>7, <2>8, <2>9
<1> QED BY <1>1, Invariant, PTL

\* No cluster is deeper than the limit, and a point is in no more leaves of a round
\* than the product of the fanouts.
THEOREM RecursionIsBounded == ASSUME ClusterTreeAssumption PROVE TreeSpec => []RecursionBounded
<1>1. ASSUME IInv PROVE RecursionBounded
  <2> USE <1>1 DEF IInv
  <2>1. \A c \in pending : c.depth <= MAX_DEPTH + 2
    <3> TAKE c \in pending
    <3>1. c.depth \in Nat /\ MAX_DEPTH \in Nat
      BY Basics DEF ClusterTreeAssumption
    <3>2. c.depth <= MAX_DEPTH + 2 \/ c.depth <= MAX_DEPTH + 1
      BY DEF Depths
    <3> QED BY <3>1, <3>2
  <2>2. ASSUME NEW p \in Points
        PROVE  Cardinality({l \in leaves : p \in l.ids}) <= MaxCopies
    <3> DEFINE P == PartsOf(p, pending, merging, leaves, scheme.fanouts)
               S == {l \in leaves : p \in l.ids}
    <3>1. Share(P, MaxCopies) /\ MaxCopies \in Nat
      BY Basics DEF Copied
    <3>2. \A x \in P : x.weight \in Nat \ {0}
      BY Basics, PartsWeigh
    <3>3. IsFiniteSet(P) /\ Cardinality(P) <= MaxCopies
      BY <3>1, <3>2, ShareCounts
    <3>4. PICK g : g = [l \in S |-> Part("leaf", l, 1)]
      OBVIOUS
    <3>5. g \in [S -> P] /\ \A l, m \in S : g[l] = g[m] => l = m
      BY <3>4, PartIs DEF Part
    <3>6. g \in Injection(S, P)
      BY <3>5 DEF Injection, IsInjective
    <3>7. IsFiniteSet(S) /\ Cardinality(S) <= Cardinality(P)
      BY <3>3, <3>6, FS_Injection
    <3>8. Cardinality(S) \in Nat /\ Cardinality(P) \in Nat
      BY <3>3, <3>7, FS_CardinalityType
    <3> QED BY <3>1, <3>3, <3>7, <3>8
  <2> QED BY <2>1, <2>2 DEF RecursionBounded, CopiesBounded
<1> QED BY <1>1, Invariant, PTL
=============================================================================
