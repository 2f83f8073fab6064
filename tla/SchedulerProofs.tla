-------------------------- MODULE SchedulerProofs --------------------------
(***************************************************************************)
(* A forked loop runs each iteration once and a join waits for all that is *)
(* below it (LoopJoins), and a job object outlives everything that refers  *)
(* to it (OwnJobIsRightHalf): for any number of workers and iterations,    *)
(* whatever is stolen from whom.                                           *)
(***************************************************************************)
EXTENDS Scheduler, Integers, SequenceTheorems, TLAPS

-----------------------------------------------------------------------------
(* Ranges, and what is known of a stack of calls. *)

LeftHalf(f) == <<f.range[1], Mid(f.range)>>
RanIn(counts, r) == \A i \in r[1]..r[2] - 1 : counts[i] = 1
AllRan(r) == RanIn(ran, r)
Apart(r, s) == r[2] <= s[1] \/ s[2] <= r[1]
Inside(r, s) == s[1] <= r[1] /\ r[2] <= s[2]

Jobs(w) == deques[w].jobs
Height(w) == Len(frames[w])

Place == {"main", "down", "seek", "tired", "load", "spin", "flag",
          "version", "recheck", "futex", "asleep", "woken", "exit"}

Types ==
    /\ granularity \in Nat
    /\ deques \in [Worker -> [jobs : Seq(Span), top : Nat]]
    /\ frames \in [Worker -> Seq(Frame)]
    /\ done \subseteq Span
    /\ ran \in [0..end - 1 -> 0..1]
    /\ loop \in [Worker -> Place] /\ loop[0] \in {"main", "down"}

NotBegun ==
    /\ \A w \in Worker : frames[w] = << >> /\ Jobs(w) = << >>
    /\ done = {} /\ \A i \in 0..end - 1 : ran[i] = 0

\* A call that has forked knows its halves; the call above it runs the one it
\* is at, and what it is past has run.
Settled(w, p) ==
    LET f == frames[w][p] IN
    /\ f.at = "split" => p = Height(w)
    /\ f.at # "split" => f.range[1] < Mid(f.range) /\ Mid(f.range) < f.range[2]
    /\ f.at \in {"right", "join"} => AllRan(LeftHalf(f))
    /\ f.at = "left" => IF p = Height(w) THEN AllRan(LeftHalf(f))
                        ELSE frames[w][p + 1].range = LeftHalf(f)
    /\ f.at = "right" => IF p = Height(w) THEN AllRan(RightJob(f))
                         ELSE frames[w][p + 1].range = RightJob(f)

StackInv == \A w \in Worker : \A p \in 1..Height(w) : Settled(w, p)

\* What is done has run; the main thread's stack stands for the whole loop.
RunInv ==
    /\ granularity = 0 => NotBegun
    /\ \A r \in done : AllRan(r)
    /\ granularity # 0 =>
         IF frames[0] = << >> THEN AllRan(<<0, end>>)
         ELSE frames[0][1].range[2] = end /\ AllRan(<<0, frames[0][1].range[1]>>)

\* Job j of w's deque belongs to call m[j]: the jobs are those of the topmost
\* calls at "left", and every call that waits for a thief is below them.
Owns(w, m) ==
    /\ \A j, k \in 1..Len(Jobs(w)) : j < k => m[j] < m[k]
    /\ \A j \in 1..Len(Jobs(w)) : /\ frames[w][m[j]].at = "left"
                                  /\ Jobs(w)[j] = RightJob(frames[w][m[j]])
    /\ \A p \in 1..Height(w), j \in 1..Len(Jobs(w)) :
         /\ frames[w][p].at = "left" /\ m[j] <= p => \E k \in 1..Len(Jobs(w)) : m[k] = p
         /\ frames[w][p].at = "join" => p < m[j]

DequeInv == \A w \in Worker : \E m \in [1..Len(Jobs(w)) -> 1..Height(w)] : Owns(w, m)

\* The pieces of the loop that nobody runs yet: the new call on top of a stack,
\* and the jobs.
IsPiece(w, j) == IF j = 0 THEN frames[w] # << >> /\ Top(w).at = "split"
                 ELSE j \in 1..Len(Jobs(w))
Piece(w, j) == IF j = 0 THEN Top(w).range ELSE Jobs(w)[j]

PieceInv ==
    /\ \A v, w \in Worker : \A j, k \in Nat :
         IsPiece(v, j) /\ IsPiece(w, k) /\ (v # w \/ j # k) => Apart(Piece(v, j), Piece(w, k))
    /\ \A w \in Worker : \A j \in Nat : IsPiece(w, j) =>
         \A i \in Piece(w, j)[1]..Piece(w, j)[2] - 1 : ran[i] = 0

\* A forked job, while it is in a deque or a thief runs it.
IsToken(w, j) == IF j < 0 THEN -j \in 1..Height(w) /\ frames[w][-j].stolen
                 ELSE j \in 1..Len(Jobs(w))
Token(w, j) == IF j < 0 THEN frames[w][-j].range ELSE Jobs(w)[j]

\* Forked once, owned, and never part of a piece.
TokenInv ==
    /\ \A v, w \in Worker : \A j, k \in Int :
         IsToken(v, j) /\ IsToken(w, k) /\ Token(v, j) = Token(w, k) => v = w /\ j = k
    /\ \A w \in Worker : \A j \in Int :
         IsToken(w, j) => Token(w, j) \notin done /\ Token(w, j) \in Owned

Within(r) == \A w \in Worker : \A j \in Nat :
               IsPiece(w, j) => Apart(Piece(w, j), r) \/ Inside(Piece(w, j), r)

WithinInv ==
    /\ \A r \in done : Within(r)
    /\ \A w \in Worker : \A j \in Int : IsToken(w, j) => Within(Token(w, j))

Inv == Types /\ StackInv /\ RunInv /\ DequeInv /\ PieceInv /\ TokenInv /\ WithinInv

-----------------------------------------------------------------------------
(* Sequences that are used as stacks. *)

LEMMA TopOfStack ==
  ASSUME NEW S, NEW s \in Seq(S), s # << >>
  PROVE  /\ Len(s) \in Nat \ {0}
         /\ Last(s) = s[Len(s)] /\ Last(s) \in S
         /\ Front(s) \in Seq(S) /\ Len(Front(s)) = Len(s) - 1
         /\ \A p \in 1..Len(s) - 1 : Front(s)[p] = s[p]
<1>1. Len(s) \in Nat \ {0}
  BY EmptySeq
<1>2. \A p \in 1..Len(s) : s[p] \in S
  BY ElementOfSeq
<1>3. /\ SubSeq(s, 1, Len(s) - 1) \in Seq(S)
      /\ Len(SubSeq(s, 1, Len(s) - 1)) =
           IF 1 <= Len(s) - 1 THEN (Len(s) - 1) - 1 + 1 ELSE 0
      /\ \A p \in 1..(Len(s) - 1) - 1 + 1 : SubSeq(s, 1, Len(s) - 1)[p] = s[1 + p - 1]
  <2>1. Len(s) - 1 \in Int /\ \A p \in 1..Len(s) - 1 : s[p] \in S
    BY <1>1, <1>2
  <2> QED BY <2>1, SubSeqProperties
<1>4. Len(SubSeq(s, 1, Len(s) - 1)) = Len(s) - 1
  <2>1. \A n \in Nat \ {0} : (IF 1 <= n - 1 THEN (n - 1) - 1 + 1 ELSE 0) = n - 1
    OBVIOUS
  <2> QED BY <1>1, <1>3, <2>1
<1>5. \A p \in 1..Len(s) - 1 : SubSeq(s, 1, Len(s) - 1)[p] = s[p]
  BY <1>1, <1>3
<1> QED BY <1>1, <1>2, <1>3, <1>4, <1>5 DEF Last, Front

LEMMA ReplaceTop ==
  ASSUME NEW S, NEW s \in Seq(S), s # << >>, NEW x \in S
  PROVE  /\ Front(s) \o <<x>> \in Seq(S) /\ Len(Front(s) \o <<x>>) = Len(s)
         /\ \A p \in 1..Len(s) - 1 : (Front(s) \o <<x>>)[p] = s[p]
         /\ (Front(s) \o <<x>>)[Len(s)] = x
<1>1. /\ Len(s) \in Nat \ {0} /\ Front(s) \in Seq(S) /\ Len(Front(s)) = Len(s) - 1
      /\ \A p \in 1..Len(s) - 1 : Front(s)[p] = s[p]
  BY TopOfStack
<1>2. Front(s) \o <<x>> = Append(Front(s), x)
  BY <1>1, AppendIsConcat
<1>3. /\ Append(Front(s), x) \in Seq(S) /\ Len(Append(Front(s), x)) = Len(Front(s)) + 1
      /\ \A p \in 1..Len(Front(s)) : Append(Front(s), x)[p] = Front(s)[p]
      /\ Append(Front(s), x)[Len(Front(s)) + 1] = x
  BY <1>1, AppendProperties
<1>4. Len(Front(s)) + 1 = Len(s)
  BY <1>1
<1> QED BY <1>1, <1>2, <1>3, <1>4

Push(s, x, y) == Append(Front(s) \o <<x>>, y)

LEMMA PushOn ==
  ASSUME NEW S, NEW s \in Seq(S), s # << >>, NEW x \in S, NEW y \in S
  PROVE  /\ Push(s, x, y) \in Seq(S) /\ Len(Push(s, x, y)) = Len(s) + 1
         /\ \A p \in 1..Len(s) - 1 : Push(s, x, y)[p] = s[p]
         /\ Push(s, x, y)[Len(s)] = x /\ Push(s, x, y)[Len(s) + 1] = y
<1> DEFINE t == Front(s) \o <<x>>
<1>1. /\ t \in Seq(S) /\ Len(t) = Len(s) /\ t[Len(s)] = x
      /\ \A p \in 1..Len(s) - 1 : t[p] = s[p]
  BY ReplaceTop
<1>2. Len(s) \in Nat \ {0}
  BY EmptySeq
<1> HIDE DEF t
<1>3. /\ Append(t, y) \in Seq(S) /\ Len(Append(t, y)) = Len(t) + 1
      /\ \A p \in 1..Len(t) : Append(t, y)[p] = t[p]
      /\ Append(t, y)[Len(t) + 1] = y
  BY <1>1, AppendProperties
<1>5. \A p \in 1..Len(s) - 1 : Append(t, y)[p] = s[p]
  BY <1>1, <1>2, <1>3
<1>6. Append(t, y)[Len(s)] = x
  BY <1>1, <1>2, <1>3
<1> QED BY <1>1, <1>3, <1>5, <1>6 DEF t, Push

LEMMA PushIsConcat ==
  ASSUME NEW S, NEW s \in Seq(S), s # << >>, NEW x \in S, NEW y \in S
  PROVE  Push(s, x, y) = Front(s) \o <<x>> \o <<y>>
<1>1. Front(s) \o <<x>> \in Seq(S)
  BY ReplaceTop
<1> QED BY <1>1, AppendIsConcat DEF Push

LEMMA SpanFacts ==
  ASSUME SchedulerAssumption, NEW r \in Span
  PROVE  /\ r[1] \in 0..end /\ r[2] \in 0..end /\ r[1] < r[2] /\ r = <<r[1], r[2]>>
         /\ end \in Nat /\ Mid(r) \in Int
<1>1. r[1] \in 0..end /\ r[2] \in 0..end /\ r[1] < r[2] /\ r = <<r[1], r[2]>> /\ end \in Nat
  BY DEF Span, SchedulerAssumption
<1>2. \A a, b \in Nat : a + (9 * (b - a + 1)) \div 16 \in Int
  OBVIOUS
<1> QED BY <1>1, <1>2 DEF Mid

LEMMA SpanIntro ==
  ASSUME NEW a \in 0..end, NEW b \in 0..end, a < b
  PROVE  <<a, b>> \in Span
BY DEF Span

\* A range of at least two iterations has two halves that are not empty.
LEMMA MidFacts ==
  ASSUME SchedulerAssumption, NEW r \in Span, r[2] - r[1] > 1
  PROVE  Mid(r) \in Int /\ r[1] < Mid(r) /\ Mid(r) < r[2]
<1>1. r[1] \in Nat /\ r[2] \in Nat
  BY SpanFacts
<1> DEFINE n == r[2] - r[1]
<1>2. n \in Nat /\ n > 1 /\ r[2] = r[1] + n
  BY <1>1
<1>3. Mid(r) = r[1] + (9 * (n + 1)) \div 16
  BY DEF Mid
<1> HIDE DEF n
<1>4. (9 * (n + 1)) \div 16 \in Int /\ (9 * (n + 1)) \div 16 >= 1 /\ (9 * (n + 1)) \div 16 < n
  BY <1>2
<1> QED BY <1>1, <1>2, <1>3, <1>4

LEMMA WorkerTypes ==
  ASSUME SchedulerAssumption, Types, NEW w \in Worker
  PROVE  /\ frames[w] \in Seq(Frame) /\ Height(w) \in Nat
         /\ \A p \in 1..Height(w) : frames[w][p] \in Frame
         /\ Jobs(w) \in Seq(Span) /\ Len(Jobs(w)) \in Nat
         /\ \A j \in 1..Len(Jobs(w)) : Jobs(w)[j] \in Span
         /\ frames[w] # << >> => /\ Height(w) > 0 /\ Top(w) = frames[w][Height(w)]
                                 /\ Top(w) \in Frame
         /\ frames[w] = << >> <=> Height(w) = 0
         /\ Jobs(w) = << >> <=> Len(Jobs(w)) = 0
<1>1. frames[w] \in Seq(Frame) /\ Jobs(w) \in Seq(Span)
  BY DEF Types, Jobs
<1>2. Height(w) \in Nat /\ Len(Jobs(w)) \in Nat
  BY <1>1, LenProperties DEF Height
<1>3. /\ \A p \in 1..Height(w) : frames[w][p] \in Frame
      /\ \A j \in 1..Len(Jobs(w)) : Jobs(w)[j] \in Span
  BY <1>1, ElementOfSeq DEF Height
<1>4. frames[w] # << >> => /\ Height(w) > 0 /\ Top(w) = frames[w][Height(w)]
                           /\ Top(w) \in Frame
  <2> SUFFICES ASSUME frames[w] # << >>
               PROVE  Height(w) > 0 /\ Top(w) = frames[w][Height(w)] /\ Top(w) \in Frame
    OBVIOUS
  <2>1. /\ Len(frames[w]) \in Nat \ {0} /\ Last(frames[w]) = frames[w][Len(frames[w])]
        /\ Last(frames[w]) \in Frame
    BY <1>1, TopOfStack
  <2> QED BY <2>1 DEF Height, Top
<1>5. frames[w] = << >> => Height(w) = 0
  BY DEF Height
<1>6. Jobs(w) = << >> <=> Len(Jobs(w)) = 0
  BY <1>1, EmptySeq
<1> QED BY <1>1, <1>2, <1>3, <1>4, <1>5, <1>6

LEMMA PieceIsSpan ==
  ASSUME SchedulerAssumption, Types, NEW w \in Worker, NEW j \in Nat, IsPiece(w, j)
  PROVE  Piece(w, j) \in Span
BY WorkerTypes DEF IsPiece, Piece, Frame

LEMMA TokenIsSpan ==
  ASSUME SchedulerAssumption, Types, NEW w \in Worker, NEW j \in Int, IsToken(w, j)
  PROVE  Token(w, j) \in Span
BY WorkerTypes DEF IsToken, Token, Frame

OwnedIn(F) == {RightJob(f) : f \in {g \in UNION {ToSet(F[w]) : w \in Worker} :
                                       g.at \in {"left", "join"}}}

LEMMA OwnedMeans ==
  ASSUME NEW F, \A w \in Worker : F[w] \in Seq(Frame), NEW r
  PROVE  r \in OwnedIn(F) <=>
         \E w \in Worker : \E p \in 1..Len(F[w]) :
               F[w][p].at \in {"left", "join"} /\ r = RightJob(F[w][p])
<1>1. \A w \in Worker : ToSet(F[w]) = {F[w][p] : p \in 1..Len(F[w])}
  <2> SUFFICES ASSUME NEW w \in Worker PROVE ToSet(F[w]) = {F[w][p] : p \in 1..Len(F[w])}
    OBVIOUS
  <2>1. DOMAIN F[w] = 1..Len(F[w])
    BY LenProperties
  <2> QED BY <2>1 DEF ToSet
<1> DEFINE all == UNION {ToSet(F[w]) : w \in Worker}
           owners == {g \in all : g.at \in {"left", "join"}}
<1>2. \A g : g \in all <=> \E w \in Worker : \E p \in 1..Len(F[w]) : g = F[w][p]
  BY <1>1
<1> HIDE DEF all
<1>3. \A g : g \in owners <=> \E w \in Worker : \E p \in 1..Len(F[w]) :
                               g = F[w][p] /\ F[w][p].at \in {"left", "join"}
  BY <1>2
<1> HIDE DEF owners
<1>4. r \in {RightJob(f) : f \in owners} <=> \E g \in owners : r = RightJob(g)
  OBVIOUS
<1>5. ASSUME NEW g \in owners, r = RightJob(g)
      PROVE  \E w \in Worker : \E p \in 1..Len(F[w]) :
               F[w][p].at \in {"left", "join"} /\ r = RightJob(F[w][p])
  <2>1. PICK w \in Worker : \E p \in 1..Len(F[w]) :
             g = F[w][p] /\ F[w][p].at \in {"left", "join"}
    BY <1>3
  <2> QED BY <1>5, <2>1
<1>6. ASSUME NEW w \in Worker, NEW p \in 1..Len(F[w]),
             F[w][p].at \in {"left", "join"}, r = RightJob(F[w][p])
      PROVE  \E g \in owners : r = RightJob(g)
  <2>1. F[w][p] \in owners
    BY <1>3, <1>6
  <2> QED BY <1>6, <2>1
<1> QED BY <1>4, <1>5, <1>6 DEF owners, all, OwnedIn

LEMMA OwnerOf ==
  ASSUME SchedulerAssumption, Types, NEW r \in Owned
  PROVE  \E w \in Worker : \E p \in 1..Len(frames[w]) :
           frames[w][p].at \in {"left", "join"} /\ r = RightJob(frames[w][p])
<1>1. \A w \in Worker : frames[w] \in Seq(Frame)
  BY WorkerTypes
<1>2. r \in OwnedIn(frames)
  BY DEF Owned, OwnedIn
<1> QED BY <1>1, <1>2, OwnedMeans

LEMMA StillOwned ==
  ASSUME SchedulerAssumption, Types, \A u \in Worker : frames'[u] \in Seq(Frame), NEW r \in Owned,
         \A u \in Worker : \A p \in 1..Len(frames[u]) :
           frames[u][p].at \in {"left", "join"} /\ r = RightJob(frames[u][p]) =>
             /\ p \in 1..Len(frames'[u]) /\ frames'[u][p].at \in {"left", "join"}
             /\ frames'[u][p].range = frames[u][p].range
  PROVE  r \in Owned'
<1>1. PICK w \in Worker : \E p \in 1..Len(frames[w]) :
         frames[w][p].at \in {"left", "join"} /\ r = RightJob(frames[w][p])
  BY OwnerOf
<1>2. PICK p \in 1..Len(frames[w]) :
         frames[w][p].at \in {"left", "join"} /\ r = RightJob(frames[w][p])
  BY <1>1
<1>3. /\ p \in 1..Len(frames'[w]) /\ frames'[w][p].at \in {"left", "join"}
      /\ r = RightJob(frames'[w][p])
  BY <1>2 DEF RightJob
<1>4. r \in OwnedIn(frames')
  BY <1>3, OwnedMeans
<1> QED BY <1>4 DEF Owned, OwnedIn

\* What ran stays run.
LEMMA RanStays ==
  ASSUME SchedulerAssumption, \A i \in 0..end - 1 : ran[i] = 1 => ran'[i] = 1,
         NEW r, r[1] \in Nat, r[2] \in Int, r[2] <= end, AllRan(r)
  PROVE  RanIn(ran', r)
BY DEF AllRan, RanIn, SchedulerAssumption

LEMMA LeftStays ==
  ASSUME SchedulerAssumption, \A i \in 0..end - 1 : ran[i] = 1 => ran'[i] = 1,
         NEW f, f.range[1] \in Nat, f.range[2] \in Nat, f.range[2] <= end, end \in Nat,
         Mid(f.range) \in Int, Mid(f.range) < f.range[2], AllRan(LeftHalf(f))
  PROVE  RanIn(ran', LeftHalf(f))
<1> DEFINE q == LeftHalf(f)
<1>1. q[1] = f.range[1] /\ q[2] = Mid(f.range)
  BY DEF LeftHalf
<1>2. q[1] \in Nat /\ q[2] \in Int /\ q[2] <= end
  BY <1>1
<1> HIDE DEF q
<1>3. AllRan(q)
  BY DEF q
<1>4. RanIn(ran', q)
  BY <1>2, <1>3, RanStays
<1> QED BY <1>4 DEF q

LEMMA SettledStays ==
  ASSUME SchedulerAssumption, Types, NEW w \in Worker, NEW p \in 1..Height(w), Settled(w, p),
         \A i \in 0..end - 1 : ran[i] = 1 => ran'[i] = 1,
         frames'[w][p] = frames[w][p],
         p # Height(w) => /\ p # Height(w)'
                           /\ frames'[w][p + 1].range = frames[w][p + 1].range,
         p = Height(w) => p = Height(w)'
  PROVE  Settled(w, p)'
<1> DEFINE f == frames[w][p]
<1>1. f \in Frame /\ f.range \in Span
  BY WorkerTypes DEF Frame
<1>2. f.range[1] \in Nat /\ f.range[2] \in Nat /\ f.range[2] <= end /\ end \in Nat
  BY <1>1, SpanFacts
<1>3. Mid(f.range) \in Int
  BY <1>2 DEF Mid
<1>4. f.at # "split" /\ AllRan(LeftHalf(f)) => RanIn(ran', LeftHalf(f))
  BY <1>2, <1>3, RanStays DEF LeftHalf, Settled
<1>5. f.at # "split" /\ AllRan(RightJob(f)) => RanIn(ran', RightJob(f))
  BY <1>2, <1>3, RanStays DEF RightJob, Settled
<1> QED BY <1>4, <1>5 DEF Settled, AllRan, LeftHalf, RightJob, Mid

(* A call returns when its whole range has run: RunRange, AfterRight, Join. *)
LEMMA ReturnStep ==
  ASSUME SchedulerAssumption, Inv, NEW w \in Worker, frames[w] # << >>,
         Return(w, frames[w]), UNCHANGED <<granularity, deques, loop>>,
         Top(w).at # "left",
         ran' \in [0..end - 1 -> 0..1],
         \A i \in 0..end - 1 : ran[i] = 1 => ran'[i] = 1,
         \A i \in 0..end - 1 : \/ ran'[i] = ran[i]
                               \/ /\ Top(w).at = "split"
                                  /\ i \in Top(w).range[1]..Top(w).range[2] - 1,
         RanIn(ran', Top(w).range),
         Top(w).at = "join" => RightJob(Top(w)) \in done
  PROVE  Inv'
<1> DEFINE h == Height(w)
           r == Top(w).range
<1>0. Types /\ StackInv /\ RunInv /\ DequeInv /\ PieceInv /\ TokenInv /\ WithinInv
  BY DEF Inv
<1>1. /\ h \in Nat \ {0} /\ Top(w) = frames[w][h] /\ Top(w) \in Frame /\ r \in Span
      /\ frames[w] \in Seq(Frame)
  BY <1>0, WorkerTypes DEF Frame
<1>2. /\ frames' = [frames EXCEPT ![w] = Front(frames[w])]
      /\ done' = IF Top(w).stolen THEN done \cup {r} ELSE done
  BY DEF Return, Top
<1>3. /\ Front(frames[w]) \in Seq(Frame) /\ Len(Front(frames[w])) = h - 1
      /\ \A p \in 1..h - 1 : Front(frames[w])[p] = frames[w][p]
  BY <1>1, TopOfStack DEF Height
<1>4. /\ frames' \in [Worker -> Seq(Frame)]
      /\ Len(frames'[w]) = h - 1 /\ \A p \in 1..h - 1 : frames'[w][p] = frames[w][p]
      /\ \A v \in Worker \ {w} : frames'[v] = frames[v]
  BY <1>0, <1>2, <1>3 DEF Types, Height
<1>5. Types'
  <2>1. done' \subseteq Span
    BY <1>0, <1>1, <1>2 DEF Types
  <2> QED BY <1>0, <1>4, <2>1 DEF Types
<1>6. \A v \in Worker : Jobs(v)' = Jobs(v)
  BY DEF Jobs
<1>7. StackInv'
  <2> SUFFICES ASSUME NEW v \in Worker, NEW p \in 1..Len(frames'[v]) PROVE Settled(v, p)'
    BY DEF StackInv, Height
  <2>1. CASE v # w
    BY <1>0, <1>4, <2>1, SettledStays DEF StackInv, Height
  <2>2. CASE v = w /\ p # h - 1
    <3>1. p \in 1..Height(v) /\ p # Height(v) /\ p + 1 \in 1..h - 1
      BY <1>1, <1>4, <2>2 DEF Height
    <3> QED BY <1>0, <1>4, <2>2, <3>1, SettledStays DEF StackInv, Height
  <2>3. CASE v = w /\ p = h - 1
    <3> DEFINE f == frames[w][p]
    <3>1. p \in 1..h /\ p # h /\ p + 1 = h /\ f \in Frame
      BY <1>0, <1>1, <1>4, <2>3, WorkerTypes
    <3>2. Settled(w, p)
      BY <1>0, <3>1 DEF StackInv
    <3>3. /\ f.range[1] \in Nat /\ f.range[2] \in Nat /\ f.range[2] <= end /\ end \in Nat
          /\ Mid(f.range) \in Int
      <4>1. f.range \in Span
        BY <3>1 DEF Frame
      <4>2. /\ f.range[1] \in Nat /\ f.range[2] \in Nat /\ f.range[2] <= end /\ end \in Nat
        BY <4>1, SpanFacts
      <4> QED BY <4>1, <4>2, SpanFacts
    <3>4. f.at \in {"right", "join"} => RanIn(ran', LeftHalf(f))
      <4> SUFFICES ASSUME f.at \in {"right", "join"} PROVE RanIn(ran', LeftHalf(f))
        OBVIOUS
      <4>1. AllRan(LeftHalf(f))
        BY <3>2 DEF Settled
      <4>2. Mid(f.range) < f.range[2]
        BY <3>2 DEF Settled
      <4> QED BY <3>3, <4>1, <4>2, LeftStays
    <3>5. f.at = "left" => RanIn(ran', LeftHalf(f))
      BY <1>1, <3>1, <3>2 DEF Settled
    <3>6. f.at = "right" => RanIn(ran', RightJob(f))
      BY <1>1, <3>1, <3>2 DEF Settled
    <3>7. frames'[w][p] = f /\ p = Len(frames'[w])
      BY <1>4, <2>3
    <3> QED BY <2>3, <3>1, <3>2, <3>4, <3>5, <3>6, <3>7
            DEF Settled, AllRan, LeftHalf, RightJob, Mid, Height
  <2> QED BY <2>1, <2>2, <2>3
<1>8. RunInv'
  <2>1. granularity # 0
    BY <1>0 DEF RunInv, NotBegun
  <2>2. \A q \in done' : RanIn(ran', q)
    <3> SUFFICES ASSUME NEW q \in done' PROVE RanIn(ran', q)
      OBVIOUS
    <3>1. CASE q \in done
      <4>1. q[1] \in Nat /\ q[2] \in Int /\ q[2] <= end
        BY <1>0, <3>1, SpanFacts DEF Types
      <4> QED BY <1>0, <3>1, <4>1, RanStays DEF RunInv
    <3>2. CASE q = r
      BY <3>2
    <3> QED BY <1>2, <3>1, <3>2
  <2>3. IF frames'[0] = << >> THEN RanIn(ran', <<0, end>>)
        ELSE frames'[0][1].range[2] = end /\ RanIn(ran', <<0, frames'[0][1].range[1]>>)
    <3>0. 0 \in Worker /\ end \in Nat
      BY DEF Worker, SchedulerAssumption
    <3>1. frames[0] # << >> =>
            /\ frames[0][1].range \in Span /\ frames[0][1].range[2] = end
            /\ RanIn(ran', <<0, frames[0][1].range[1]>>)
      <4> SUFFICES ASSUME frames[0] # << >>
                   PROVE  /\ frames[0][1].range \in Span /\ frames[0][1].range[2] = end
                          /\ RanIn(ran', <<0, frames[0][1].range[1]>>)
        OBVIOUS
      <4>1. /\ frames[0][1].range \in Span /\ frames[0][1].range[2] = end
            /\ AllRan(<<0, frames[0][1].range[1]>>)
        <5>1. 1 \in 1..Height(0)
          BY <1>0, <3>0, WorkerTypes
        <5> QED BY <1>0, <2>1, <3>0, <5>1, WorkerTypes DEF RunInv, Frame
      <4>2. frames[0][1].range[1] \in Int /\ frames[0][1].range[1] <= end
        BY <4>1, SpanFacts
      <4> DEFINE q == <<0, frames[0][1].range[1]>>
      <4>3. q[1] \in Nat /\ q[2] \in Int /\ q[2] <= end /\ AllRan(q)
        BY <4>1, <4>2
      <4> HIDE DEF q
      <4>4. RanIn(ran', q)
        BY <4>3, RanStays
      <4> QED BY <4>1, <4>4 DEF q
    <3>2. CASE w # 0
      <4>1. frames'[0] = frames[0]
        BY <1>4, <3>0, <3>2
      <4>2. frames[0] = << >> => RanIn(ran', <<0, end>>)
        BY <1>0, <2>1, <3>0 DEF RunInv, AllRan, RanIn
      <4> QED BY <3>1, <4>1, <4>2
    <3>3. CASE w = 0 /\ h # 1
      <4>1. frames'[0] # << >> /\ frames'[0][1] = frames[0][1]
        <5>1. 1 \in 1..h - 1 /\ Len(frames'[0]) # 0
          BY <1>1, <1>4, <3>3
        <5> QED BY <1>4, <3>3, <5>1
      <4> QED BY <3>1, <3>3, <4>1
    <3>4. CASE w = 0 /\ h = 1
      <4>1. frames'[0] = << >>
        BY <1>4, <3>0, <3>4, EmptySeq DEF Height
      <4>2. r = frames[0][1].range
        BY <1>1, <3>4
      <4>3. r[1] \in Nat /\ RanIn(ran', <<0, r[1]>>) /\ RanIn(ran', r) /\ r[2] = end
        <5>1. r[1] \in Nat /\ r[2] = end /\ RanIn(ran', r)
          BY <1>1, <3>1, <3>4, <4>2, SpanFacts
        <5>2. RanIn(ran', <<0, r[1]>>)
          BY <3>1, <3>4, <4>2
        <5> QED BY <5>1, <5>2
      <4>4. RanIn(ran', <<0, end>>)
        BY <3>0, <4>3 DEF RanIn
      <4> QED BY <4>1, <4>4
    <3> QED BY <3>2, <3>3, <3>4
  <2> QED BY <2>1, <2>2, <2>3 DEF RunInv, AllRan, NotBegun
<1>9. DequeInv'
  <2> SUFFICES ASSUME NEW v \in Worker
               PROVE  \E m \in [1..Len(Jobs(v)) -> 1..Len(frames'[v])] : Owns(v, m)'
    BY <1>6 DEF DequeInv, Height
  <2>1. PICK m \in [1..Len(Jobs(v)) -> 1..Height(v)] : Owns(v, m)
    BY <1>0 DEF DequeInv
  <2>2. CASE v # w
    <3>1. frames'[v] = frames[v] /\ Jobs(v)' = Jobs(v)
      BY <1>4, <1>6, <2>2
    <3> QED BY <2>1, <3>1 DEF Owns, Height
  <2>3. CASE v = w
    <3>1. ASSUME NEW j \in 1..Len(Jobs(w))
          PROVE  m[j] \in 1..h - 1 /\ frames'[w][m[j]] = frames[w][m[j]]
      <4>1. m[j] \in 1..h /\ frames[w][m[j]].at = "left"
        BY <2>1, <2>3 DEF Owns
      <4>2. m[j] # h
        BY <1>1, <4>1
      <4>3. m[j] \in 1..h - 1
        BY <1>1, <4>1, <4>2
      <4> QED BY <1>4, <4>3
    <3>2. ASSUME NEW p \in 1..Len(frames'[w])
          PROVE  p \in 1..h /\ frames'[w][p] = frames[w][p]
      <4>1. p \in 1..h - 1 /\ h \in Nat
        BY <1>1, <1>4
      <4>2. frames'[w][p] = frames[w][p]
        BY <1>4, <4>1
      <4> QED BY <4>1, <4>2
    <3>3. m \in [1..Len(Jobs(v)) -> 1..Len(frames'[v])]
      BY <1>4, <1>6, <2>1, <2>3, <3>1
    <3>4. Owns(w, m)'
      <4>1. PICK n \in Nat : n = Len(Jobs(w))
        BY <1>0, WorkerTypes
      <4>2. Owns(w, m) /\ Jobs(w)' = Jobs(w)
        BY <1>6, <2>1, <2>3
      <4>3. \A j, k \in 1..n : j < k => m[j] < m[k]
        BY <4>1, <4>2 DEF Owns
      <4>4. \A j \in 1..n : /\ frames'[w][m[j]].at = "left"
                            /\ Jobs(w)[j] = RightJob(frames'[w][m[j]])
        BY <3>1, <4>1, <4>2 DEF Owns
      <4>5. \A p \in 1..h, j \in 1..n :
              /\ frames[w][p].at = "left" /\ m[j] <= p => \E k \in 1..n : m[k] = p
              /\ frames[w][p].at = "join" => p < m[j]
        BY <4>1, <4>2 DEF Owns
      <4>6. \A p \in 1..Len(frames'[w]), j \in 1..n :
              /\ frames'[w][p].at = "left" /\ m[j] <= p => \E k \in 1..n : m[k] = p
              /\ frames'[w][p].at = "join" => p < m[j]
        BY <3>2, <4>5
      <4> QED BY <4>1, <4>2, <4>3, <4>4, <4>6 DEF Owns, Height
    <3> QED BY <2>3, <3>3, <3>4
  <2> QED BY <2>2, <2>3
<1>10. ASSUME NEW v \in Worker, NEW j \in Nat, IsPiece(v, j)'
       PROVE  /\ IsPiece(v, j) /\ Piece(v, j)' = Piece(v, j) /\ Piece(v, j) \in Span
              /\ j = 0 => v # w
  <2>1. CASE j # 0
    <3>1. j \in 1..Len(Jobs(v)) /\ Jobs(v)' = Jobs(v)
      BY <1>6, <1>10, <2>1 DEF IsPiece
    <3> QED BY <1>0, <2>1, <3>1, WorkerTypes DEF IsPiece, Piece
  <2>2. CASE j = 0 /\ v # w
    <3>1. frames'[v] = frames[v] /\ Top(v)' = Top(v)
      BY <1>4, <2>2 DEF Top
    <3>2. frames[v] # << >> /\ Top(v).at = "split"
      BY <1>10, <2>2, <3>1 DEF IsPiece
    <3>3. Top(v).range \in Span
      BY <1>0, <3>2, WorkerTypes DEF Frame
    <3> QED BY <2>2, <3>1, <3>2, <3>3 DEF IsPiece, Piece
  <2>3. CASE j = 0 /\ v = w
    <3>1. frames'[w] # << >> /\ Top(w)'.at = "split"
      BY <1>10, <2>3 DEF IsPiece
    <3>2. frames'[w] \in Seq(Frame) /\ Len(frames'[w]) = h - 1
      BY <1>4
    <3>3. h - 1 # 0 /\ Top(w)' = frames'[w][h - 1]
      BY <3>1, <3>2, TopOfStack DEF Top
    <3>4. h - 1 \in 1..h /\ frames'[w][h - 1] = frames[w][h - 1] /\ h - 1 # h
      BY <1>1, <1>4, <3>3
    <3>5. Settled(w, h - 1)
      BY <1>0, <3>4 DEF StackInv
    <3> QED BY <3>1, <3>3, <3>4, <3>5 DEF Settled
  <2> QED BY <2>1, <2>2, <2>3
<1>11. PieceInv'
  <2>1. \A v, u \in Worker : \A j, k \in Nat :
          IsPiece(v, j)' /\ IsPiece(u, k)' /\ (v # u \/ j # k) => Apart(Piece(v, j)', Piece(u, k)')
    BY <1>0, <1>10 DEF PieceInv
  <2>2. ASSUME NEW v \in Worker, NEW j \in Nat, IsPiece(v, j)',
               NEW i \in Piece(v, j)'[1]..Piece(v, j)'[2] - 1
        PROVE  ran'[i] = 0
    <3> DEFINE q == Piece(v, j)
    <3>1. IsPiece(v, j) /\ Piece(v, j)' = q /\ q \in Span /\ (j = 0 => v # w)
      BY <1>10, <2>2
    <3>2. i \in q[1]..q[2] - 1 /\ q[1] \in Nat /\ q[2] \in Nat /\ q[2] <= end /\ end \in Nat
      BY <2>2, <3>1, SpanFacts
    <3>3. ran[i] = 0 /\ i \in 0..end - 1
      BY <1>0, <3>1, <3>2 DEF PieceInv
    <3>4. CASE ran'[i] # ran[i]
      <4>1. Top(w).at = "split" /\ i \in r[1]..r[2] - 1
        BY <3>3, <3>4
      <4>2. IsPiece(w, 0) /\ Piece(w, 0) = r
        BY <4>1 DEF IsPiece, Piece
      <4>3. Apart(q, r)
        BY <1>0, <3>1, <4>2 DEF PieceInv
      <4>4. r[1] \in Nat /\ r[2] \in Nat
        BY <1>1, SpanFacts
      <4>5. r[2] <= q[1] \/ q[2] <= r[1]
        BY <4>3 DEF Apart
      <4> HIDE DEF q, r
      <4> QED BY <3>2, <4>1, <4>4, <4>5
    <3> QED BY <3>3, <3>4
  <2> QED BY <2>1, <2>2 DEF PieceInv, Apart
<1>12. ASSUME NEW v \in Worker, NEW j \in Int, IsToken(v, j)'
       PROVE  /\ IsToken(v, j) /\ Token(v, j)' = Token(v, j)
              /\ v = w => j # -h
  <2>1. CASE ~ (j < 0)
    BY <1>1, <1>6, <1>12, <2>1 DEF IsToken, Token
  <2>2. CASE j < 0 /\ v # w
    BY <1>4, <1>12, <2>2 DEF IsToken, Token, Height
  <2>3. CASE j < 0 /\ v = w
    <3>1. -j \in 1..h - 1 /\ frames'[w][-j].stolen
      BY <1>4, <1>12, <2>3 DEF IsToken, Height
    <3>2. -j \in 1..h /\ frames'[w][-j] = frames[w][-j] /\ j # -h
      BY <1>1, <1>4, <3>1
    <3> QED BY <2>3, <3>1, <3>2 DEF IsToken, Token
  <2> QED BY <2>1, <2>2, <2>3
<1>13. Top(w).stolen => IsToken(w, -h) /\ Token(w, -h) = r
  BY <1>1 DEF IsToken, Token
<1>14. TokenInv'
  <2>1. \A v, u \in Worker : \A j, k \in Int :
          IsToken(v, j)' /\ IsToken(u, k)' /\ Token(v, j)' = Token(u, k)' => v = u /\ j = k
    BY <1>0, <1>12 DEF TokenInv
  <2>2. ASSUME NEW v \in Worker, NEW j \in Int, IsToken(v, j)'
        PROVE  Token(v, j)' \notin done' /\ Token(v, j)' \in Owned'
    <3>0. PICK q : q = Token(v, j)
      OBVIOUS
    <3>1. IsToken(v, j) /\ Token(v, j)' = q /\ (v = w => j # -h)
      BY <1>12, <2>2, <3>0
    <3>2. q \notin done /\ q \in Owned
      BY <1>0, <3>0, <3>1 DEF TokenInv
    <3>3. q \notin done'
      <4>1. Top(w).stolen => q # r
        BY <1>0, <1>1, <1>13, <3>0, <3>1 DEF TokenInv
      <4> QED BY <1>2, <3>2, <4>1
    <3>4. \A u \in Worker : \A p \in 1..Len(frames[u]) :
            frames[u][p].at \in {"left", "join"} /\ q = RightJob(frames[u][p]) =>
              p \in 1..Len(frames'[u]) /\ frames'[u][p] = frames[u][p]
      <4> SUFFICES ASSUME NEW u \in Worker, NEW p \in 1..Len(frames[u]),
                          frames[u][p].at \in {"left", "join"}, q = RightJob(frames[u][p])
                   PROVE  p \in 1..Len(frames'[u]) /\ frames'[u][p] = frames[u][p]
        OBVIOUS
      <4>1. ~ (u = w /\ p = h)
        BY <1>1, <3>2
      <4>2. CASE u = w
        <5>1. p \in 1..h - 1
          BY <1>1, <4>1, <4>2 DEF Height
        <5> QED BY <1>4, <4>2, <5>1
      <4>3. CASE u # w
        BY <1>4, <4>3
      <4> QED BY <4>2, <4>3
    <3>5. q \in Owned'
      <4>1. \A u \in Worker : frames'[u] \in Seq(Frame)
        BY <1>4
      <4>2. \A u \in Worker : \A p \in 1..Len(frames[u]) :
              frames[u][p].at \in {"left", "join"} /\ q = RightJob(frames[u][p]) =>
                /\ p \in 1..Len(frames'[u]) /\ frames'[u][p].at \in {"left", "join"}
                /\ frames'[u][p].range = frames[u][p].range
        BY <3>4
      <4> QED BY <1>0, <3>2, <4>1, <4>2, StillOwned
    <3>6. Token(v, j)' \in Owned'
      BY <3>1, <3>5
    <3> QED BY <3>1, <3>3, <3>6
  <2> QED BY <2>1, <2>2 DEF TokenInv
<1>15. WithinInv'
  <2>1. ASSUME NEW q, Within(q) PROVE Within(q)'
    BY <1>10, <2>1 DEF Within, Apart, Inside
  <2>2. \A q \in done' : Within(q)
    <3>1. \A q \in done : Within(q)
      BY <1>0 DEF WithinInv
    <3>2. ASSUME Top(w).stolen PROVE Within(r)
      <4>1. -h \in Int
        BY <1>1
      <4>2. IsToken(w, -h) /\ Token(w, -h) = r
        BY <1>13, <3>2
      <4> QED BY <1>0, <4>1, <4>2 DEF WithinInv
    <3>3. \A q \in done' : q \in done \/ (Top(w).stolen /\ q = r)
      BY <1>2
    <3> QED BY <3>1, <3>2, <3>3
  <2>3. \A v \in Worker : \A j \in Int : IsToken(v, j)' => Within(Token(v, j)')
    BY <1>0, <1>12 DEF WithinInv
  <2> QED BY <2>1, <2>2, <2>3 DEF WithinInv
<1> QED BY <1>5, <1>7, <1>8, <1>9, <1>11, <1>14, <1>15 DEF Inv

(* Nothing is forked: before the loop, after it, and while a worker sleeps.  *)
LEMMA InitInv ==
  ASSUME SchedulerAssumption, Init
  PROVE  Inv
<1>1. 0 \in Worker /\ end \in Nat \ {0} /\ << >> \in Seq(Frame) /\ << >> \in Seq(Span)
      /\ Len(<< >>) = 0
  BY DEF Worker, SchedulerAssumption
<1>2. /\ \A w \in Worker : frames[w] = << >> /\ Jobs(w) = << >>
      /\ done = {} /\ granularity = 0 /\ \A i \in 0..end - 1 : ran[i] = 0
  BY <1>1 DEF Init, Jobs
<1>3. Types
  <2>1. deques \in [Worker -> [jobs : Seq(Span), top : Nat]]
    BY <1>1 DEF Init
  <2>2. frames \in [Worker -> Seq(Frame)] /\ ran \in [0..end - 1 -> 0..1]
    BY <1>1 DEF Init
  <2>3. loop \in [Worker -> Place] /\ loop[0] \in {"main", "down"}
    BY <1>1 DEF Init, Place
  <2> QED BY <1>2, <2>1, <2>2, <2>3 DEF Types
<1>4. \A w \in Worker : Height(w) = 0 /\ Len(Jobs(w)) = 0
  BY <1>1, <1>2 DEF Height
<1>5. DequeInv
  <2> SUFFICES ASSUME NEW w \in Worker
               PROVE  \E m \in [1..Len(Jobs(w)) -> 1..Height(w)] : Owns(w, m)
    BY DEF DequeInv
  <2> DEFINE m == [j \in 1..Len(Jobs(w)) |-> 1]
  <2>1. m \in [1..Len(Jobs(w)) -> 1..Height(w)] /\ Owns(w, m)
    BY <1>4 DEF Owns
  <2> QED BY <2>1
<1>6. \A w \in Worker : \A j \in Nat : ~ IsPiece(w, j)
  BY <1>2, <1>4 DEF IsPiece
<1>7. \A w \in Worker : \A j \in Int : ~ IsToken(w, j)
  BY <1>4 DEF IsToken
<1>8. StackInv
  BY <1>4 DEF StackInv
<1>9. RunInv
  BY <1>2 DEF RunInv, NotBegun
<1> QED BY <1>2, <1>3, <1>5, <1>6, <1>7, <1>8, <1>9 DEF Inv, PieceInv, TokenInv, WithinInv

LEMMA IdleStep ==
  ASSUME Inv, UNCHANGED work,
         loop' \in [Worker -> Place], loop'[0] \in {"main", "down"}
  PROVE  Inv'
<1>1. /\ granularity' = granularity /\ deques' = deques /\ frames' = frames
      /\ done' = done /\ ran' = ran
  BY DEF work
<1>2. Types' /\ StackInv'
  BY <1>1 DEF Inv, Types, StackInv, Settled, AllRan, Height
<1>3. RunInv' /\ DequeInv'
  BY <1>1 DEF Inv, RunInv, NotBegun, AllRan, DequeInv, Owns, Jobs, Height
<1>4. PieceInv' /\ WithinInv'
  BY <1>1 DEF Inv, PieceInv, WithinInv, Within, IsPiece, Piece, IsToken, Token, Jobs, Height, Top
<1>5. TokenInv'
  <2>1. Owned = OwnedIn(frames) /\ Owned' = OwnedIn(frames')
    BY DEF Owned, OwnedIn
  <2>2. Owned' = Owned
    BY <1>1, <2>1
  <2> QED BY <1>1, <2>2 DEF Inv, TokenInv, IsToken, Token, Jobs, Height
<1> QED BY <1>2, <1>3, <1>4, <1>5 DEF Inv

LEMMA StartLoopStep ==
  ASSUME SchedulerAssumption, Inv, StartLoop
  PROVE  Inv'
<1>0. Types /\ RunInv /\ NotBegun
  BY DEF Inv, RunInv, StartLoop
<1>1. PICK sized \in 1..end :
        LET each == end \div (BlocksPerThread * num_threads) IN
        /\ granularity' = IF each > sized THEN each ELSE sized
        /\ ran' = Count(<<0, sized>>)
        /\ frames' = IF sized = end THEN frames
                     ELSE [frames EXCEPT ![0] = <<NewFrame(<<sized, end>>, FALSE)>>]
  BY DEF StartLoop
<1>2. 0 \in Worker /\ end \in Nat \ {0} /\ sized \in Nat \ {0} /\ sized <= end
  BY DEF Worker, SchedulerAssumption
<1>3. granularity' \in Nat \ {0}
  <2>1. BlocksPerThread * num_threads \in Nat \ {0}
    BY DEF SchedulerAssumption
  <2>2. \A n \in Nat \ {0} : end \div n \in Nat
    BY <1>2
  <2> DEFINE each == end \div (BlocksPerThread * num_threads)
  <2>3. each \in Nat
    BY <2>1, <2>2
  <2> HIDE DEF each
  <2>4. granularity' = IF each > sized THEN each ELSE sized
    BY <1>1 DEF each
  <2> QED BY <1>2, <2>3, <2>4
<1>4. /\ ran' \in [0..end - 1 -> 0..1]
      /\ \A i \in 0..end - 1 : ran'[i] = IF i < sized THEN 1 ELSE 0
  BY <1>0, <1>1, <1>2 DEF NotBegun, Count
<1> DEFINE new == NewFrame(<<sized, end>>, FALSE)
<1>5. sized # end => new \in Frame /\ <<new>> \in Seq(Frame)
  <2> SUFFICES ASSUME sized # end PROVE new \in Frame /\ <<new>> \in Seq(Frame)
    OBVIOUS
  <2>1. <<sized, end>> \in Span
    BY <1>2 DEF Span
  <2>2. new \in Frame
    BY <2>1 DEF NewFrame, Frame
  <2> HIDE DEF new
  <2> QED BY <2>2
<1>6. /\ \A w \in Worker : frames'[w] = << >> \/ (w = 0 /\ sized # end /\ frames'[w] = <<new>>)
      /\ IF sized = end THEN frames'[0] = << >> ELSE frames'[0] = <<new>>
  <2>1. CASE sized = end
    BY <1>0, <1>1, <1>2, <2>1 DEF NotBegun
  <2>2. CASE sized # end
    <3>1. frames' = [frames EXCEPT ![0] = <<new>>]
      BY <1>1, <2>2
    <3> HIDE DEF new
    <3> QED BY <1>0, <1>2, <2>2, <3>1 DEF NotBegun, Types
  <2> QED BY <2>1, <2>2
<1>7. Types'
  <2>1. frames' \in [Worker -> Seq(Frame)]
    BY <1>0, <1>1, <1>2, <1>5 DEF Types
  <2>2. deques' = deques /\ done' = done /\ loop' = loop
    BY DEF StartLoop
  <2> QED BY <1>0, <1>3, <1>4, <2>1, <2>2 DEF Types
<1>8. /\ \A w \in Worker : Jobs(w)' = << >> /\ Len(Jobs(w)') = 0
      /\ done' = {}
  BY <1>0 DEF StartLoop, NotBegun, Jobs
<1>9. /\ new.range = <<sized, end>> /\ new.at = "split" /\ ~ new.stolen
      /\ Len(<<new>>) = 1 /\ <<new>>[1] = new /\ Len(<< >>) = 0 /\ << >> # <<new>>
  BY DEF NewFrame
<1> HIDE DEF new
<1>10. StackInv'
  <2> SUFFICES ASSUME NEW w \in Worker, NEW p \in 1..Len(frames'[w]) PROVE Settled(w, p)'
    BY DEF StackInv, Height
  <2>1. frames'[w] = <<new>>
    BY <1>6, <1>9
  <2>2. p = 1 /\ Len(frames'[w]) = 1 /\ frames'[w][p].at = "split"
    <3>1. Len(frames'[w]) = 1 /\ frames'[w][1].at = "split"
      BY <1>9, <2>1
    <3>2. p = 1
      BY <3>1
    <3> QED BY <3>1, <3>2
  <2> QED BY <2>2 DEF Settled, Height
<1>11. RunInv'
  <2>1. RanIn(ran', <<0, sized>>)
    BY <1>2, <1>4 DEF RanIn
  <2>2. IF frames'[0] = << >> THEN RanIn(ran', <<0, end>>)
        ELSE frames'[0][1].range[2] = end /\ RanIn(ran', <<0, frames'[0][1].range[1]>>)
    <3>1. CASE sized = end
      BY <1>6, <2>1, <3>1
    <3>2. CASE frames'[0] = <<new>>
      <4>1. frames'[0][1].range = <<sized, end>> /\ frames'[0] # << >>
        BY <1>9, <3>2
      <4>2. frames'[0][1].range[1] = sized /\ frames'[0][1].range[2] = end
        BY <4>1
      <4> QED BY <2>1, <4>1, <4>2
    <3> QED BY <1>6, <3>1, <3>2
  <2> QED BY <1>3, <1>8, <2>2 DEF RunInv, AllRan
<1>12. DequeInv'
  <2> SUFFICES ASSUME NEW w \in Worker
               PROVE  \E m \in [1..Len(Jobs(w)') -> 1..Len(frames'[w])] : Owns(w, m)'
    BY DEF DequeInv, Height
  <2>1. PICK m : m \in [1..Len(Jobs(w)') -> 1..Len(frames'[w])]
    <3> DEFINE m == [j \in 1..Len(Jobs(w)') |-> 1]
    <3>1. m \in [1..Len(Jobs(w)') -> 1..Len(frames'[w])]
      BY <1>8
    <3> QED BY <3>1
  <2>2. Owns(w, m)'
    BY <1>8 DEF Owns
  <2> QED BY <2>1, <2>2
<1>13. ASSUME NEW w \in Worker, NEW j \in Nat, IsPiece(w, j)'
       PROVE  w = 0 /\ j = 0 /\ Piece(w, j)' = <<sized, end>>
  <2>1. j = 0
    BY <1>8, <1>13 DEF IsPiece
  <2>2. w = 0 /\ frames'[w] = <<new>>
    BY <1>6, <1>13, <2>1 DEF IsPiece
  <2>3. Top(w)' = new
    BY <1>9, <2>2 DEF Top, Last
  <2> QED BY <1>9, <2>1, <2>2, <2>3 DEF Piece
<1>14. PieceInv'
  BY <1>2, <1>4, <1>13 DEF PieceInv
<1>15. \A w \in Worker : \A j \in Int : ~ IsToken(w, j)'
  BY <1>6, <1>8, <1>9 DEF IsToken, Height
<1> QED BY <1>7, <1>8, <1>10, <1>11, <1>12, <1>14, <1>15 DEF Inv, TokenInv, WithinInv

(* A step that runs nothing: a piece after it lies inside a piece before it,  *)
(* and two of them inside the same one are apart.                            *)
Moves(who, which) ==
    /\ \A w \in Worker : \A j \in Nat : IsPiece(w, j)' =>
         /\ who[w][j] \in Worker /\ which[w][j] \in Nat /\ IsPiece(who[w][j], which[w][j])
         /\ Piece(w, j)' \in Span /\ Piece(who[w][j], which[w][j]) \in Span
         /\ Inside(Piece(w, j)', Piece(who[w][j], which[w][j]))
    /\ \A v, w \in Worker : \A j, k \in Nat :
         /\ IsPiece(v, j)' /\ IsPiece(w, k)' /\ (v # w \/ j # k)
         /\ who[v][j] = who[w][k] /\ which[v][j] = which[w][k]
         => Apart(Piece(v, j)', Piece(w, k)')

LEMMA MovePieces ==
  ASSUME PieceInv, ran' = ran, NEW who, NEW which, Moves(who, which)
  PROVE  PieceInv' /\ \A r \in Span : Within(r) => Within(r)'
<1>0. /\ \A w \in Worker : \A j \in Nat : IsPiece(w, j)' =>
           /\ who[w][j] \in Worker /\ which[w][j] \in Nat /\ IsPiece(who[w][j], which[w][j])
           /\ Piece(w, j)' \in Span /\ Piece(who[w][j], which[w][j]) \in Span
           /\ Inside(Piece(w, j)', Piece(who[w][j], which[w][j]))
      /\ \A v, w \in Worker : \A j, k \in Nat :
           /\ IsPiece(v, j)' /\ IsPiece(w, k)' /\ (v # w \/ j # k)
           /\ who[v][j] = who[w][k] /\ which[v][j] = which[w][k]
           => Apart(Piece(v, j)', Piece(w, k)')
  BY DEF Moves
<1>1. \A r \in Span : r[1] \in Int /\ r[2] \in Int
  BY DEF Span
<1>2. \A q, r, s, t \in Span : Inside(q, r) /\ Inside(s, t) /\ Apart(r, t) => Apart(q, s)
  BY <1>1 DEF Inside, Apart
<1>3. \A q, r, s \in Span : Inside(q, r) /\ (Apart(r, s) \/ Inside(r, s)) =>
                              Apart(q, s) \/ Inside(q, s)
  BY <1>1 DEF Inside, Apart
<1>4. ASSUME NEW v \in Worker, NEW w \in Worker, NEW j \in Nat, NEW k \in Nat,
             IsPiece(v, j)', IsPiece(w, k)', v # w \/ j # k
      PROVE  Apart(Piece(v, j)', Piece(w, k)')
  <2>1. CASE who[v][j] = who[w][k] /\ which[v][j] = which[w][k]
    BY <1>0, <1>4, <2>1
  <2>2. CASE ~ (who[v][j] = who[w][k] /\ which[v][j] = which[w][k])
    <3>1. Apart(Piece(who[v][j], which[v][j]), Piece(who[w][k], which[w][k]))
      BY <1>0, <1>4, <2>2 DEF PieceInv
    <3> QED BY <1>0, <1>2, <1>4, <3>1
  <2> QED BY <2>1, <2>2
<1>5. ASSUME NEW w \in Worker, NEW j \in Nat, IsPiece(w, j)',
             NEW i \in Piece(w, j)'[1]..Piece(w, j)'[2] - 1
      PROVE  ran'[i] = 0
  <2>1. PICK q, r : /\ q = Piece(w, j)' /\ r = Piece(who[w][j], which[w][j])
                    /\ q \in Span /\ r \in Span /\ Inside(q, r) /\ i \in q[1]..q[2] - 1
    BY <1>0, <1>5
  <2>2. i \in r[1]..r[2] - 1
    BY <1>1, <2>1 DEF Inside
  <2>3. ran[i] = 0
    BY <1>0, <1>5, <2>1, <2>2 DEF PieceInv
  <2> QED BY <2>3
<1>6. PieceInv'
  BY <1>4, <1>5 DEF PieceInv, Apart
<1>7. ASSUME NEW r \in Span, Within(r) PROVE Within(r)'
  <2> SUFFICES ASSUME NEW w \in Worker, NEW j \in Nat, IsPiece(w, j)'
               PROVE  Apart(Piece(w, j)', r) \/ Inside(Piece(w, j)', r)
    BY DEF Within, Apart, Inside
  <2> QED BY <1>0, <1>3, <1>7 DEF Within
<1> QED BY <1>6, <1>7

LEMMA ForkStep ==
  ASSUME SchedulerAssumption, Inv, NEW w \in Worker, Fork(w)
  PROVE  Inv'
<1>8. PICK h, f, r, n, half, job, here, new :
        /\ h = Height(w) /\ h = Len(frames[w]) /\ f = Top(w) /\ n = Len(Jobs(w)) /\ r = f.range
        /\ half = LeftHalf(f) /\ job = RightJob(f)
        /\ here = [f EXCEPT !.at = "left"] /\ new = NewFrame(half, FALSE)
  BY DEF Height
<1>0. Types /\ StackInv /\ RunInv /\ DequeInv /\ PieceInv /\ TokenInv /\ WithinInv
  BY DEF Inv
<1>1. frames[w] # << >> /\ f.at = "split" /\ r[2] - r[1] > granularity
  BY <1>8 DEF Fork, InFrame
<1>same. granularity' = granularity /\ done' = done /\ ran' = ran /\ loop' = loop
  BY DEF Fork
<1>frames. frames' = [frames EXCEPT ![w] = Append(Front(frames[w]) \o <<here>>, new)]
  BY <1>0, <1>8 DEF Fork, LeftHalf, Types
<1>deques. deques' = [deques EXCEPT ![w].jobs = Append(@, job)]
  BY <1>8 DEF Fork
<1>2. /\ h \in Nat \ {0} /\ f = frames[w][h] /\ f \in Frame /\ r \in Span
      /\ frames[w] \in Seq(Frame) /\ Jobs(w) \in Seq(Span) /\ n \in Nat
      /\ \A j \in 1..n : Jobs(w)[j] \in Span
  BY <1>0, <1>1, <1>8, WorkerTypes DEF Frame
<1>3. granularity \in Nat \ {0}
  BY <1>0, <1>1 DEF RunInv, NotBegun, Types
<1>4. /\ r[1] \in Nat /\ r[2] \in Nat /\ r[2] <= end /\ end \in Nat /\ r[1] < r[2]
      /\ Mid(r) \in Int /\ r[1] < Mid(r) /\ Mid(r) < r[2]
  <2>1. r[1] \in Nat /\ r[2] \in Nat /\ r[2] <= end /\ end \in Nat /\ r[1] < r[2]
    BY <1>2, SpanFacts
  <2>2. r[2] - r[1] > 1
    BY <1>1, <1>3, <2>1
  <2> QED BY <1>2, <2>1, <2>2, MidFacts
<1>5. /\ half \in Span /\ half[1] = r[1] /\ half[2] = Mid(r)
      /\ job \in Span /\ job[1] = Mid(r) /\ job[2] = r[2]
  BY <1>4, <1>8 DEF LeftHalf, RightJob, Span
<1>6. /\ here \in Frame /\ here.range = r /\ here.at = "left" /\ (here.stolen <=> f.stolen)
      /\ LeftHalf(here) = half /\ RightJob(here) = job
  BY <1>2, <1>8 DEF Frame, LeftHalf, RightJob
<1>7. new \in Frame /\ new.range = half /\ new.at = "split" /\ ~ new.stolen
  BY <1>5, <1>8 DEF NewFrame, Frame
<1>9. /\ \A v \in Worker : frames'[v] \in Seq(Frame)
      /\ frames' \in [Worker -> Seq(Frame)]
      /\ Len(frames'[w]) = h + 1 /\ frames'[w][h] = here /\ frames'[w][h + 1] = new
      /\ \A p \in 1..h - 1 : frames'[w][p] = frames[w][p]
      /\ \A v \in Worker \ {w} : frames'[v] = frames[v]
  <2>0. PICK t : t = frames[w] /\ t \in Seq(Frame) /\ t # << >>
    BY <1>1, <1>2
  <2>3. t \in Seq(Frame) /\ t # << >> /\ here \in Frame /\ new \in Frame
    BY <1>6, <1>7, <2>0
  <2>4. /\ Push(t, here, new) \in Seq(Frame) /\ Len(Push(t, here, new)) = Len(t) + 1
        /\ \A p \in 1..Len(t) - 1 : Push(t, here, new)[p] = t[p]
        /\ Push(t, here, new)[Len(t)] = here /\ Push(t, here, new)[Len(t) + 1] = new
    BY <2>3, PushOn
  <2>1. PICK s : /\ s = Push(t, here, new) /\ s \in Seq(Frame) /\ Len(s) = Len(t) + 1
                 /\ s[Len(t)] = here /\ s[Len(t) + 1] = new
                 /\ \A p \in 1..Len(t) - 1 : s[p] = t[p]
    BY <2>4
  <2>2. frames' = [frames EXCEPT ![w] = s]
    BY <1>frames, <2>0, <2>1 DEF Push
  <2> QED BY <1>0, <1>8, <2>0, <2>1, <2>2 DEF Types
<1>10. /\ deques' \in [Worker -> [jobs : Seq(Span), top : Nat]]
       /\ Len(deques'[w].jobs) = n + 1 /\ deques'[w].jobs[n + 1] = job
       /\ \A j \in 1..n : deques'[w].jobs[j] = Jobs(w)[j]
       /\ \A v \in Worker \ {w} : deques'[v].jobs = Jobs(v)
  <2> DEFINE s == Append(Jobs(w), job)
  <2>1. /\ s \in Seq(Span) /\ Len(s) = n + 1 /\ s[n + 1] = job
        /\ \A j \in 1..n : s[j] = Jobs(w)[j]
    BY <1>2, <1>5, <1>8, AppendProperties
  <2>2. deques' = [deques EXCEPT ![w].jobs = s]
    BY <1>deques DEF Jobs
  <2> HIDE DEF s
  <2> QED BY <1>0, <2>1, <2>2 DEF Types, Jobs
<1>11. Types'
  BY <1>0, <1>same, <1>9, <1>10 DEF Types
<1>12. StackInv'
  <2> SUFFICES ASSUME NEW v \in Worker, NEW p \in 1..Len(frames'[v]) PROVE Settled(v, p)'
    BY DEF StackInv, Height
  <2>1. CASE v # w
    BY <1>0, <1>same, <1>9, <2>1, SettledStays DEF StackInv, Height
  <2>2. CASE v = w /\ p < h
    <3>1. p \in 1..Height(v) /\ p # Height(v) /\ p # Len(frames'[v]) /\ p \in 1..h - 1
      <4>1. Height(v) = h /\ Len(frames'[v]) = h + 1
        BY <1>8, <1>9, <2>2
      <4> QED BY <1>2, <2>2, <4>1
    <3>2. frames'[v][p + 1].range = frames[v][p + 1].range
      <4>1. CASE p + 1 = h
        <5>1. frames'[w][h].range = frames[w][h].range
          BY <1>2, <1>6, <1>8, <1>9
        <5> QED BY <2>2, <4>1, <5>1
      <4>2. CASE p + 1 \in 1..h - 1
        BY <1>9, <2>2, <4>2
      <4> QED BY <1>2, <2>2, <3>1, <4>1, <4>2
    <3> QED BY <1>0, <1>same, <1>9, <2>2, <3>1, <3>2, SettledStays DEF StackInv, Height
  <2>3. CASE v = w /\ p = h
    <3>1. /\ frames'[v][p] = here /\ p # Len(frames'[v])
          /\ frames'[v][p + 1].range = LeftHalf(here)
      BY <1>2, <1>6, <1>7, <1>9, <2>3
    <3>2. here.range[1] < Mid(here.range) /\ Mid(here.range) < here.range[2]
      BY <1>4, <1>6
    <3> QED BY <1>6, <3>1, <3>2 DEF Settled, Height, LeftHalf, Mid
  <2>4. CASE v = w /\ p = h + 1
    BY <1>7, <1>9, <2>4 DEF Settled, Height
  <2> QED BY <1>2, <1>9, <2>1, <2>2, <2>3, <2>4
<1>13. RunInv'
  <2>1. \A q \in done' : RanIn(ran', q)
    BY <1>0, <1>same DEF RunInv, AllRan
  <2>2. IF frames'[0] = << >> THEN RanIn(ran', <<0, end>>)
        ELSE frames'[0][1].range[2] = end /\ RanIn(ran', <<0, frames'[0][1].range[1]>>)
    <3>1. CASE w # 0
      <4>1. frames'[0] = frames[0]
        BY <1>9, <3>1 DEF Worker, SchedulerAssumption
      <4> QED BY <1>0, <1>same, <1>3, <4>1 DEF RunInv, AllRan
    <3>2. CASE w = 0
      <4>1. frames'[0][1].range = frames[0][1].range
        <5>1. CASE h = 1
          BY <1>6, <1>8, <1>2, <1>9, <3>2, <5>1
        <5>2. CASE h # 1
          <6>1. 1 \in 1..h - 1
            BY <1>2, <5>2
          <6> QED BY <1>9, <3>2, <6>1
        <5> QED BY <5>1, <5>2
      <4>2. frames'[0] # << >>
        <5>1. Len(frames'[0]) # 0
          BY <1>2, <1>9, <3>2
        <5> QED BY <5>1
      <4> QED BY <1>0, <1>1, <1>same, <1>3, <3>2, <4>1, <4>2 DEF RunInv, AllRan
    <3> QED BY <3>1, <3>2
  <2> QED BY <1>same, <1>3, <2>1, <2>2 DEF RunInv, AllRan
<1>14. DequeInv'
  <2> SUFFICES ASSUME NEW v \in Worker
               PROVE  \E m \in [1..Len(deques'[v].jobs) -> 1..Len(frames'[v])] : Owns(v, m)'
    BY DEF DequeInv, Height, Jobs
  <2>1. PICK m \in [1..Len(Jobs(v)) -> 1..Height(v)] : Owns(v, m)
    BY <1>0 DEF DequeInv
  <2>2. CASE v # w
    <3>1. frames'[v] = frames[v] /\ deques'[v].jobs = deques[v].jobs
      BY <1>9, <1>10, <2>2 DEF Jobs
    <3>2. Jobs(v)' = Jobs(v) /\ Height(v)' = Height(v)
      BY <3>1 DEF Height, Jobs
    <3>3. Owns(v, m)'
      BY <2>1, <3>1, <3>2 DEF Owns
    <3> QED BY <2>1, <3>2, <3>3 DEF Height, Jobs
  <2>3. CASE v = w
    <3>0. /\ \A j, k \in 1..n : j < k => m[j] < m[k]
          /\ \A j \in 1..n : /\ m[j] \in 1..h /\ frames[w][m[j]].at = "left"
                             /\ Jobs(w)[j] = RightJob(frames[w][m[j]])
          /\ \A p \in 1..h, j \in 1..n :
               /\ frames[w][p].at = "left" /\ m[j] <= p => \E k \in 1..n : m[k] = p
               /\ frames[w][p].at = "join" => p < m[j]
      <4>1. m \in [1..Len(Jobs(w)) -> 1..Height(w)] /\ Owns(w, m)
        BY <2>1, <2>3
      <4>2. n = Len(Jobs(w)) /\ h = Height(w)
        BY <1>8
      <4> QED BY <4>1, <4>2 DEF Owns
    <3>1. PICK l : l = [j \in 1..n + 1 |-> IF j <= n THEN m[j] ELSE h]
      OBVIOUS
    <3>2. \A j \in 1..n : m[j] \in 1..h - 1
      <4>1. h \in Nat /\ frames[w][h].at # "left"
        BY <1>1, <1>2
      <4> QED BY <3>0, <4>1
    <3>3. /\ \A j \in 1..n : j \in 1..n + 1 /\ l[j] = m[j] /\ l[j] \in 1..h - 1
          /\ n + 1 \in 1..n + 1 /\ l[n + 1] = h
          /\ \A j \in 1..n + 1 : j \in 1..n \/ j = n + 1
      BY <1>2, <3>1, <3>2
    <3>4. l \in [1..Len(deques'[v].jobs) -> 1..Len(frames'[v])]
      <4>1. \A j \in 1..n + 1 : l[j] \in 1..h + 1
        BY <1>2, <3>3
      <4>2. l \in [1..n + 1 -> 1..h + 1]
        BY <3>1, <4>1
      <4> QED BY <1>9, <1>10, <2>3, <4>2
    <3>5. ASSUME NEW j \in 1..n + 1, NEW k \in 1..n + 1, j < k PROVE l[j] < l[k]
      <4>1. j \in 1..n
        BY <1>2, <3>5
      <4>2. CASE k \in 1..n
        BY <3>0, <3>3, <3>5, <4>1, <4>2
      <4>3. CASE k = n + 1
        BY <1>2, <3>3, <4>1, <4>3
      <4> QED BY <3>3, <4>2, <4>3
    <3>6. \A j \in 1..n + 1 : /\ frames'[w][l[j]].at = "left"
                              /\ deques'[w].jobs[j] = RightJob(frames'[w][l[j]])
      <4>1. \A j \in 1..n : /\ frames[w][m[j]].at = "left"
                            /\ Jobs(w)[j] = RightJob(frames[w][m[j]])
        BY <3>0
      <4>2. \A j \in 1..n : frames'[w][l[j]] = frames[w][m[j]] /\ deques'[w].jobs[j] = Jobs(w)[j]
        BY <1>9, <1>10, <3>2, <3>3
      <4>3. \A j \in 1..n : /\ frames'[w][l[j]].at = "left"
                            /\ deques'[w].jobs[j] = RightJob(frames'[w][l[j]])
        BY <4>1, <4>2
      <4>4. frames'[w][l[n + 1]].at = "left" /\ deques'[w].jobs[n + 1] = RightJob(frames'[w][l[n + 1]])
        BY <1>6, <1>9, <1>10, <3>3
      <4> QED BY <3>3, <4>3, <4>4
    <3>7. ASSUME NEW p \in 1..h + 1, NEW j \in 1..n + 1
          PROVE  /\ frames'[w][p].at = "left" /\ l[j] <= p => \E k \in 1..n + 1 : l[k] = p
                 /\ frames'[w][p].at = "join" => p < l[j]
      <4>1. CASE p = h + 1
        BY <1>7, <1>9, <4>1
      <4>2. CASE p = h
        BY <1>6, <1>9, <3>3, <4>2
      <4>3. CASE p \in 1..h - 1 /\ j \in 1..n
        <5>1. /\ frames[w][p].at = "left" /\ m[j] <= p => \E k \in 1..n : m[k] = p
              /\ frames[w][p].at = "join" => p < m[j]
          <6>1. p \in 1..h /\ j \in 1..n
            BY <1>2, <4>3
          <6> QED BY <3>0, <6>1
        <5> QED BY <1>9, <3>3, <4>3, <5>1
      <4>4. CASE p \in 1..h - 1 /\ j = n + 1
        BY <1>2, <3>3, <4>4
      <4> QED BY <1>2, <3>3, <4>1, <4>2, <4>3, <4>4
    <3>8. Owns(w, l)'
      BY <1>9, <1>10, <3>5, <3>6, <3>7 DEF Owns, Height, Jobs
    <3> QED BY <2>3, <3>4, <3>8
  <2> QED BY <2>2, <2>3

<1>15. \A u \in Worker : \A j \in Nat : IsPiece(u, j)' =>
         \/ u = w /\ j = 0 /\ Piece(u, j)' = half
         \/ u = w /\ j = n + 1 /\ Piece(u, j)' = job
         \/ /\ IsPiece(u, j) /\ Piece(u, j)' = Piece(u, j) /\ Piece(u, j) \in Span
            /\ (u # w \/ j \in 1..n)
  <2> SUFFICES ASSUME NEW u \in Worker, NEW j \in Nat, IsPiece(u, j)'
               PROVE  \/ u = w /\ j = 0 /\ Piece(u, j)' = half
                      \/ u = w /\ j = n + 1 /\ Piece(u, j)' = job
                      \/ /\ IsPiece(u, j) /\ Piece(u, j)' = Piece(u, j) /\ Piece(u, j) \in Span
                         /\ (u # w \/ j \in 1..n)
    OBVIOUS
  <2>1. CASE u = w /\ j = 0
    <3>1. Last(frames'[w]) = new
      <4>1. frames'[w] # << >>
        BY <1>2, <1>9
      <4> QED BY <1>2, <1>9, <4>1, TopOfStack
    <3> QED BY <1>7, <2>1, <3>1 DEF Piece, Top
  <2>2. CASE u = w /\ j # 0
    <3>1. j \in 1..n + 1 /\ Piece(u, j)' = deques'[w].jobs[j]
      BY <1>10, <2>2 DEF IsPiece, Piece, Jobs
    <3>2. CASE j = n + 1
      BY <1>10, <2>2, <3>1, <3>2
    <3>3. CASE j \in 1..n
      <4>1. IsPiece(u, j) /\ Piece(u, j) = Jobs(w)[j]
        BY <1>8, <2>2, <3>3 DEF IsPiece, Piece
      <4> QED BY <1>2, <1>10, <3>1, <3>3, <4>1
    <3> QED BY <1>2, <3>1, <3>2, <3>3
  <2>3. CASE u # w
    <3>1. frames'[u] = frames[u] /\ deques'[u].jobs = deques[u].jobs
      BY <1>9, <1>10, <2>3 DEF Jobs
    <3>2. IsPiece(u, j) /\ Piece(u, j)' = Piece(u, j)
      BY <2>3, <3>1 DEF IsPiece, Piece, Jobs, Top
    <3> QED BY <1>0, <2>3, <3>2, PieceIsSpan
  <2> QED BY <2>1, <2>2, <2>3
<1>16. IsPiece(w, 0) /\ Piece(w, 0) = r
  BY <1>1, <1>8 DEF IsPiece, Piece
<1>17. Inside(half, r) /\ Inside(job, r) /\ Apart(half, job) /\ Apart(job, half)
  BY <1>4, <1>5 DEF Inside, Apart
<1>18. \A q \in Span : Inside(q, q) /\ q[1] \in Int /\ q[2] \in Int /\ q[1] < q[2]
  BY DEF Inside, Span
<1>19. PieceInv' /\ \A q \in Span : Within(q) => Within(q)'
  <2>1. PICK who, which :
          /\ who = [u \in Worker |-> [j \in Nat |-> u]]
          /\ which = [u \in Worker |-> [j \in Nat |-> IF u = w /\ j = n + 1 THEN 0 ELSE j]]
    OBVIOUS
  <2>2. \A u \in Worker : \A j \in Nat :
          /\ who[u][j] = u /\ (u # w \/ j # n + 1 => which[u][j] = j)
          /\ which[w][n + 1] = 0
    BY <1>2, <2>1
  <2>3. \A u \in Worker : \A j \in Nat : IsPiece(u, j)' =>
          /\ who[u][j] \in Worker /\ which[u][j] \in Nat /\ IsPiece(who[u][j], which[u][j])
          /\ Piece(u, j)' \in Span /\ Piece(who[u][j], which[u][j]) \in Span
          /\ Inside(Piece(u, j)', Piece(who[u][j], which[u][j]))
    <3> SUFFICES ASSUME NEW u \in Worker, NEW j \in Nat, IsPiece(u, j)'
                 PROVE  /\ who[u][j] \in Worker /\ which[u][j] \in Nat
                        /\ IsPiece(who[u][j], which[u][j])
                        /\ Piece(u, j)' \in Span /\ Piece(who[u][j], which[u][j]) \in Span
                        /\ Inside(Piece(u, j)', Piece(who[u][j], which[u][j]))
      OBVIOUS
    <3>1. CASE u = w /\ j = 0 /\ Piece(u, j)' = half
      BY <1>2, <1>5, <1>16, <1>17, <2>2, <3>1
    <3>2. CASE u = w /\ j = n + 1 /\ Piece(u, j)' = job
      BY <1>2, <1>5, <1>16, <1>17, <2>2, <3>2
    <3>3. CASE /\ IsPiece(u, j) /\ Piece(u, j)' = Piece(u, j) /\ Piece(u, j) \in Span
               /\ (u # w \/ j \in 1..n)
      <4>1. who[u][j] = u /\ which[u][j] = j
        BY <1>2, <2>2, <3>3
      <4> QED BY <1>18, <3>3, <4>1
    <3> QED BY <1>15, <3>1, <3>2, <3>3
  <2>4. \A u, v \in Worker : \A j, k \in Nat :
          /\ IsPiece(u, j)' /\ IsPiece(v, k)' /\ (u # v \/ j # k)
          /\ who[u][j] = who[v][k] /\ which[u][j] = which[v][k]
          => Apart(Piece(u, j)', Piece(v, k)')
    <3> SUFFICES ASSUME NEW u \in Worker, NEW v \in Worker, NEW j \in Nat, NEW k \in Nat,
                        IsPiece(u, j)', IsPiece(v, k)', u # v \/ j # k,
                        who[u][j] = who[v][k], which[u][j] = which[v][k]
                 PROVE  Apart(Piece(u, j)', Piece(v, k)')
      OBVIOUS
    <3>1. u = w /\ v = w /\ ((j = 0 /\ k = n + 1) \/ (j = n + 1 /\ k = 0))
      BY <1>2, <2>2
    <3>2. n + 1 \in Nat /\ n + 1 # 0 /\ ~ (0 \in 1..n) /\ ~ (n + 1 \in 1..n)
      BY <1>2
    <3>3. CASE j = 0 /\ k = n + 1
      <4>1. Piece(u, j)' = half /\ Piece(v, k)' = job
        BY <1>15, <3>1, <3>2, <3>3
      <4> QED BY <1>17, <4>1
    <3>4. CASE j = n + 1 /\ k = 0
      <4>1. Piece(u, j)' = job /\ Piece(v, k)' = half
        BY <1>15, <3>1, <3>2, <3>4
      <4> QED BY <1>17, <4>1
    <3> QED BY <3>1, <3>3, <3>4
  <2>5. Moves(who, which)
    BY <2>3, <2>4 DEF Moves
  <2> QED BY <1>0, <1>same, <2>5, MovePieces
<1>20. \A u \in Worker : \A j \in Int : IsToken(u, j)' =>
         \/ u = w /\ j = n + 1 /\ Token(u, j)' = job
         \/ IsToken(u, j) /\ Token(u, j)' = Token(u, j) /\ (u # w \/ j # n + 1)
  <2> SUFFICES ASSUME NEW u \in Worker, NEW j \in Int, IsToken(u, j)'
               PROVE  \/ u = w /\ j = n + 1 /\ Token(u, j)' = job
                      \/ IsToken(u, j) /\ Token(u, j)' = Token(u, j) /\ (u # w \/ j # n + 1)
    OBVIOUS
  <2>1. CASE u # w
    <3>1. frames'[u] = frames[u] /\ deques'[u].jobs = deques[u].jobs
      BY <1>9, <1>10, <2>1 DEF Jobs
    <3> QED BY <2>1, <3>1 DEF IsToken, Token, Jobs, Height
  <2>2. CASE u = w /\ ~ (j < 0)
    <3>1. j \in 1..n + 1 /\ Token(u, j)' = deques'[w].jobs[j]
      BY <1>10, <2>2 DEF IsToken, Token, Jobs
    <3>2. CASE j = n + 1
      BY <1>10, <2>2, <3>1, <3>2
    <3>3. CASE j \in 1..n
      <4>1. IsToken(u, j) /\ Token(u, j) = Jobs(w)[j] /\ j # n + 1
        BY <1>2, <1>8, <2>2, <3>3 DEF IsToken, Token
      <4> QED BY <1>10, <3>1, <3>3, <4>1
    <3> QED BY <1>2, <3>1, <3>2, <3>3
  <2>3. CASE u = w /\ j < 0
    <3>1. PICK p : p = -j /\ p \in 1..h + 1 /\ frames'[w][p].stolen
      BY <1>9, <2>3 DEF IsToken, Height
    <3>2. p # h + 1
      BY <1>7, <1>9, <3>1
    <3>3. p \in 1..h /\ frames[w][p].stolen /\ frames'[w][p].range = frames[w][p].range
      <4>1. CASE p = h
        <5>1. frames'[w][p] = here /\ here.stolen
          BY <1>9, <3>1, <4>1
        <5>2. frames[w][p].stolen
          BY <1>2, <1>6, <4>1, <5>1
        <5> QED BY <1>2, <1>6, <1>8, <4>1, <5>1, <5>2
      <4>2. CASE p \in 1..h - 1
        BY <1>2, <1>9, <3>1, <4>2
      <4> QED BY <1>2, <3>1, <3>2, <4>1, <4>2
    <3>4. IsToken(u, j) /\ Token(u, j)' = Token(u, j)
      BY <1>8, <2>3, <3>1, <3>3 DEF IsToken, Token
    <3> QED BY <1>2, <2>3, <3>4
  <2> QED BY <2>1, <2>2, <2>3
\* The new job is no older one: a range that contains it would contain the call's.
<1>21. ~ Within(job)
  <2>1. ~ Apart(r, job) /\ ~ Inside(r, job)
    BY <1>4, <1>5 DEF Apart, Inside
  <2> QED BY <1>16, <2>1 DEF Within
<1>22. TokenInv'
  <2>1. ASSUME NEW u \in Worker, NEW v \in Worker, NEW j \in Int, NEW k \in Int,
               IsToken(u, j)', IsToken(v, k)', Token(u, j)' = Token(v, k)'
        PROVE  u = v /\ j = k
    <3>1. \A x \in Worker : \A i \in Int : IsToken(x, i) => Token(x, i) # job
      BY <1>0, <1>21 DEF WithinInv
    <3> QED BY <1>0, <1>20, <2>1, <3>1 DEF TokenInv
  <2>2. ASSUME NEW u \in Worker, NEW j \in Int, IsToken(u, j)'
        PROVE  Token(u, j)' \notin done' /\ Token(u, j)' \in Owned'
    <3>1. CASE u = w /\ j = n + 1 /\ Token(u, j)' = job
      <4>1. job \notin done
        BY <1>0, <1>21 DEF WithinInv
      <4>2. job \in OwnedIn(frames')
        <5>1. h \in 1..Len(frames'[w]) /\ frames'[w][h].at \in {"left", "join"}
              /\ job = RightJob(frames'[w][h])
          BY <1>2, <1>6, <1>9
        <5> QED BY <1>9, <5>1, OwnedMeans
      <4> QED BY <1>same, <3>1, <4>1, <4>2 DEF Owned, OwnedIn
    <3>2. CASE IsToken(u, j) /\ Token(u, j)' = Token(u, j)
      <4>1. PICK q : q = Token(u, j)
        OBVIOUS
      <4>2. q \notin done /\ q \in Owned
        BY <1>0, <3>2, <4>1 DEF TokenInv
      <4>3. \A x \in Worker : \A p \in 1..Len(frames[x]) :
              frames[x][p].at \in {"left", "join"} =>
                p \in 1..Len(frames'[x]) /\ frames'[x][p] = frames[x][p]
        <5> SUFFICES ASSUME NEW x \in Worker, NEW p \in 1..Len(frames[x]),
                            frames[x][p].at \in {"left", "join"}
                     PROVE  p \in 1..Len(frames'[x]) /\ frames'[x][p] = frames[x][p]
          OBVIOUS
        <5>1. CASE x # w
          BY <1>9, <5>1
        <5>2. CASE x = w
          <6>1. p # h /\ p \in 1..h
            BY <1>1, <1>2, <1>8, <5>2
          <6>2. p \in 1..h - 1 /\ p \in 1..h + 1
            BY <1>2, <6>1
          <6> QED BY <1>9, <5>2, <6>2
        <5> QED BY <5>1, <5>2
      <4>4. \A x \in Worker : \A p \in 1..Len(frames[x]) :
              frames[x][p].at \in {"left", "join"} /\ q = RightJob(frames[x][p]) =>
                /\ p \in 1..Len(frames'[x]) /\ frames'[x][p].at \in {"left", "join"}
                /\ frames'[x][p].range = frames[x][p].range
        BY <4>3
      <4>5. q \in Owned'
        BY <1>0, <1>9, <4>2, <4>4, StillOwned
      <4> QED BY <1>same, <3>2, <4>1, <4>2, <4>5
    <3> QED BY <1>20, <2>2, <3>1, <3>2
  <2> QED BY <2>1, <2>2 DEF TokenInv
<1>23. Within(job)'
  <2> SUFFICES ASSUME NEW u \in Worker, NEW j \in Nat, IsPiece(u, j)'
               PROVE  Apart(Piece(u, j)', job) \/ Inside(Piece(u, j)', job)
    BY DEF Within, Apart, Inside
  <2>1. CASE Piece(u, j)' = half
    BY <1>17, <2>1
  <2>2. CASE Piece(u, j)' = job
    BY <1>5, <1>18, <2>2
  <2>3. CASE /\ IsPiece(u, j) /\ Piece(u, j)' = Piece(u, j) /\ Piece(u, j) \in Span
             /\ (u # w \/ j \in 1..n)
    <3>1. Apart(Piece(u, j), r)
      BY <1>0, <1>16, <2>3 DEF PieceInv
    <3>2. Apart(Piece(u, j), job)
      BY <1>2, <1>5, <1>17, <1>18, <2>3, <3>1 DEF Apart, Inside
    <3> QED BY <2>3, <3>2
  <2> QED BY <1>15, <2>1, <2>2, <2>3
<1>24. WithinInv'
  <2>1. \A q \in done' : Within(q)'
    BY <1>0, <1>same, <1>19 DEF WithinInv, Types
  <2>2. ASSUME NEW u \in Worker, NEW j \in Int, IsToken(u, j)'
        PROVE  Within(Token(u, j))'
    <3>1. PICK q : q = Token(u, j)'
      OBVIOUS
    <3>2. Within(q)'
      <4>1. CASE q = job
        BY <1>23, <4>1
      <4>2. CASE IsToken(u, j) /\ q = Token(u, j)
        <5>1. q \in Span /\ Within(q)
          BY <1>0, <4>2, TokenIsSpan DEF WithinInv
        <5> QED BY <1>19, <5>1
      <4> QED BY <1>20, <2>2, <3>1, <4>1, <4>2
    <3> QED BY <3>1, <3>2 DEF Within
  <2> QED BY <2>1, <2>2 DEF WithinInv
<1> QED BY <1>11, <1>12, <1>13, <1>14, <1>19, <1>22, <1>24 DEF Inv

\* The owner takes its newest job, which is the right half of this call.
LEMMA TakeStep ==
  ASSUME SchedulerAssumption, Inv, NEW w \in Worker, AfterLeft(w), Jobs(w) # << >>
  PROVE  Inv'
<1>8. PICK h, t, f, r, n, list, job, here, new :
        /\ h = Height(w) /\ h = Len(frames[w]) /\ t = frames[w] /\ f = Top(w) /\ r = f.range
        /\ n = Len(Jobs(w)) /\ list = Jobs(w) /\ job = RightJob(f)
        /\ here = [f EXCEPT !.at = "right"] /\ new = NewFrame(job, FALSE)
  BY DEF Height
<1>0. Types /\ StackInv /\ RunInv /\ DequeInv /\ PieceInv /\ TokenInv /\ WithinInv
  BY DEF Inv
<1>1. frames[w] # << >> /\ f.at = "left"
  BY <1>8 DEF AfterLeft, InFrame
<1>2. /\ h \in Nat \ {0} /\ f = frames[w][h] /\ f \in Frame /\ r \in Span
      /\ t \in Seq(Frame) /\ t # << >> /\ list \in Seq(Span) /\ list # << >> /\ n \in Nat \ {0}
      /\ \A j \in 1..n : list[j] \in Span
  <2>1. /\ h \in Nat \ {0} /\ f = frames[w][h] /\ f \in Frame /\ r \in Span
        /\ frames[w] \in Seq(Frame) /\ Jobs(w) \in Seq(Span) /\ n \in Nat \ {0}
        /\ \A j \in 1..n : Jobs(w)[j] \in Span
    BY <1>0, <1>1, <1>8, WorkerTypes DEF Frame
  <2> QED BY <1>1, <1>8, <2>1
<1>same. granularity' = granularity /\ done' = done /\ ran' = ran /\ loop' = loop
  BY DEF AfterLeft
<1>3. granularity # 0
  BY <1>0, <1>1 DEF RunInv, NotBegun
<1>4. Settled(w, h)
  <2>1. h = Height(w) /\ h \in 1..h
    BY <1>2, <1>8
  <2> QED BY <1>0, <2>1 DEF StackInv
<1>5. r[1] < Mid(r) /\ Mid(r) < r[2] /\ AllRan(LeftHalf(f))
  BY <1>1, <1>2, <1>4, <1>8 DEF Settled
<1>6. PICK m \in [1..n -> 1..h] : Owns(w, m)
  BY <1>0, <1>8 DEF DequeInv
<1>7. /\ \A j, k \in 1..n : j < k => m[j] < m[k]
      /\ \A j \in 1..n : frames[w][m[j]].at = "left" /\ list[j] = RightJob(frames[w][m[j]])
      /\ \A p \in 1..h, j \in 1..n :
           /\ frames[w][p].at = "left" /\ m[j] <= p => \E k \in 1..n : m[k] = p
           /\ frames[w][p].at = "join" => p < m[j]
  BY <1>6, <1>8 DEF Owns
<1>own. m[n] = h /\ list[n] = job /\ job \in Span
  <2>1. n \in 1..n /\ h \in 1..h /\ m[n] \in 1..h
    BY <1>2, <1>6
  <2>2. PICK k \in 1..n : m[k] = h
    BY <1>1, <1>2, <1>7, <2>1
  <2>3. m[n] = h
    <3>1. k = n \/ k < n
      BY <1>2
    <3> QED BY <1>2, <1>7, <2>1, <2>2, <3>1
  <2>4. list[n] = job
    BY <1>2, <1>7, <1>8, <2>1, <2>3
  <2> QED BY <1>2, <2>1, <2>3, <2>4
<1>9. /\ here \in Frame /\ here.range = r /\ here.at = "right" /\ (here.stolen <=> f.stolen)
      /\ LeftHalf(here) = LeftHalf(f) /\ RightJob(here) = job
  BY <1>2, <1>8 DEF Frame, LeftHalf, RightJob
<1>10. new \in Frame /\ new.range = job /\ new.at = "split" /\ ~ new.stolen
  BY <1>own, <1>8 DEF NewFrame, Frame
<1>frames. /\ \A v \in Worker : frames'[v] \in Seq(Frame)
           /\ frames' \in [Worker -> Seq(Frame)]
           /\ Len(frames'[w]) = h + 1 /\ frames'[w][h] = here /\ frames'[w][h + 1] = new
           /\ \A p \in 1..h - 1 : frames'[w][p] = frames[w][p]
           /\ \A v \in Worker \ {w} : frames'[v] = frames[v]
  <2>1. here \in Frame /\ new \in Frame /\ t \in Seq(Frame) /\ t # << >>
    BY <1>2, <1>9, <1>10
  <2>2. /\ Push(t, here, new) \in Seq(Frame) /\ Len(Push(t, here, new)) = Len(t) + 1
        /\ \A p \in 1..Len(t) - 1 : Push(t, here, new)[p] = t[p]
        /\ Push(t, here, new)[Len(t)] = here /\ Push(t, here, new)[Len(t) + 1] = new
    BY <2>1, PushOn
  <2>3. PICK s : /\ s = Push(t, here, new) /\ s \in Seq(Frame) /\ Len(s) = Len(t) + 1
                 /\ s[Len(t)] = here /\ s[Len(t) + 1] = new
                 /\ \A p \in 1..Len(t) - 1 : s[p] = t[p]
    BY <2>2
  <2>4. s = Front(t) \o <<here>> \o <<new>>
    BY <2>1, <2>3, PushIsConcat
  <2>5. frames' = [frames EXCEPT ![w] = s]
    BY <1>8, <2>4 DEF AfterLeft, Jobs
  <2> QED BY <1>0, <1>8, <2>3, <2>5 DEF Types
<1>deques. /\ deques' \in [Worker -> [jobs : Seq(Span), top : Nat]]
           /\ Len(deques'[w].jobs) = n - 1
           /\ \A j \in 1..n - 1 : deques'[w].jobs[j] = list[j]
           /\ \A v \in Worker \ {w} : deques'[v].jobs = Jobs(v)
  <2>1. PICK s : /\ s = Front(list) /\ s \in Seq(Span) /\ Len(s) = n - 1
                 /\ \A j \in 1..n - 1 : s[j] = list[j]
    <3>1. /\ Front(list) \in Seq(Span) /\ Len(Front(list)) = Len(list) - 1
          /\ \A j \in 1..Len(list) - 1 : Front(list)[j] = list[j]
      BY <1>2, TopOfStack
    <3>2. n = Len(list)
      BY <1>8
    <3> QED BY <3>1, <3>2
  <2>2. PICK top \in Nat : deques' = [deques EXCEPT ![w] = [jobs |-> s, top |-> top]]
    <3>1. deques' = [deques EXCEPT ![w] = PopBottom(deques[w])]
      BY <1>8 DEF AfterLeft, Jobs
    <3>2. PopBottom(deques[w]).jobs = s /\ PopBottom(deques[w]).top \in Nat
          /\ PopBottom(deques[w]) = [jobs |-> s, top |-> PopBottom(deques[w]).top]
      BY <1>0, <1>8, <2>1 DEF PopBottom, Types, Jobs
    <3> QED BY <3>1, <3>2
  <2> QED BY <1>0, <2>1, <2>2 DEF Types, Jobs
<1>11. Types'
  BY <1>0, <1>same, <1>frames, <1>deques DEF Types
<1>12. StackInv'
  <2> SUFFICES ASSUME NEW v \in Worker, NEW p \in 1..Len(frames'[v]) PROVE Settled(v, p)'
    BY DEF StackInv, Height
  <2>1. CASE v # w
    BY <1>0, <1>same, <1>frames, <2>1, SettledStays DEF StackInv, Height
  <2>2. CASE v = w /\ p < h
    <3>1. p \in 1..Height(v) /\ p # Height(v) /\ p # Len(frames'[v]) /\ p \in 1..h - 1
      <4>1. Height(v) = h /\ Len(frames'[v]) = h + 1
        BY <1>8, <1>frames, <2>2
      <4> QED BY <1>2, <2>2, <4>1
    <3>2. frames'[v][p + 1].range = frames[v][p + 1].range
      <4>1. CASE p + 1 = h
        <5>1. frames'[w][h].range = frames[w][h].range
          BY <1>2, <1>8, <1>9, <1>frames
        <5> QED BY <2>2, <4>1, <5>1
      <4>2. CASE p + 1 \in 1..h - 1
        BY <1>frames, <2>2, <4>2
      <4> QED BY <1>2, <2>2, <3>1, <4>1, <4>2
    <3> QED BY <1>0, <1>same, <1>frames, <2>2, <3>1, <3>2, SettledStays DEF StackInv, Height
  <2>3. CASE v = w /\ p = h
    <3>1. /\ frames'[v][p] = here /\ p # Len(frames'[v])
          /\ frames'[v][p + 1].range = RightJob(here)
      BY <1>2, <1>9, <1>10, <1>frames, <2>3
    <3>2. /\ here.range[1] < Mid(here.range) /\ Mid(here.range) < here.range[2]
          /\ here.at = "right" /\ RanIn(ran', LeftHalf(here))
      BY <1>5, <1>9, <1>same DEF AllRan
    <3> QED BY <3>1, <3>2 DEF Settled, Height, LeftHalf, RightJob, Mid, AllRan
  <2>4. CASE v = w /\ p = h + 1
    BY <1>10, <1>frames, <2>4 DEF Settled, Height
  <2> QED BY <1>2, <1>frames, <2>1, <2>2, <2>3, <2>4
<1>13. RunInv'
  <2>1. \A q \in done' : RanIn(ran', q)
    BY <1>0, <1>same DEF RunInv, AllRan
  <2>2. IF frames'[0] = << >> THEN RanIn(ran', <<0, end>>)
        ELSE frames'[0][1].range[2] = end /\ RanIn(ran', <<0, frames'[0][1].range[1]>>)
    <3>1. CASE w # 0
      <4>1. frames'[0] = frames[0]
        BY <1>frames, <3>1 DEF Worker, SchedulerAssumption
      <4> QED BY <1>0, <1>same, <1>3, <4>1 DEF RunInv, AllRan
    <3>2. CASE w = 0
      <4>1. frames'[0][1].range = frames[0][1].range
        <5>1. CASE h = 1
          <6>1. frames'[0][1] = here /\ frames[0][1] = f
            BY <1>2, <1>frames, <3>2, <5>1
          <6>2. here.range = f.range
            BY <1>8, <1>9
          <6> QED BY <6>1, <6>2
        <5>2. CASE h # 1
          <6>1. 1 \in 1..h - 1
            BY <1>2, <5>2
          <6> QED BY <1>frames, <3>2, <6>1
        <5> QED BY <5>1, <5>2
      <4>2. frames'[0] # << >>
        <5>1. Len(frames'[0]) # 0
          BY <1>2, <1>frames, <3>2
        <5> QED BY <5>1
      <4> QED BY <1>0, <1>1, <1>same, <1>3, <3>2, <4>1, <4>2 DEF RunInv, AllRan
    <3> QED BY <3>1, <3>2
  <2> QED BY <1>same, <1>3, <2>1, <2>2 DEF RunInv, AllRan
<1>14. DequeInv'
  <2> SUFFICES ASSUME NEW v \in Worker
               PROVE  \E l \in [1..Len(deques'[v].jobs) -> 1..Len(frames'[v])] : Owns(v, l)'
    BY DEF DequeInv, Height, Jobs
  <2>1. CASE v # w
    <3>1. PICK l \in [1..Len(Jobs(v)) -> 1..Height(v)] : Owns(v, l)
      BY <1>0 DEF DequeInv
    <3>2. frames'[v] = frames[v] /\ deques'[v].jobs = deques[v].jobs
      BY <1>frames, <1>deques, <2>1 DEF Jobs
    <3> QED BY <3>1, <3>2, SMTT(30) DEF Owns, Height, Jobs
  <2>2. CASE v = w
    <3>1. PICK l : l = [j \in 1..n - 1 |-> m[j]]
      OBVIOUS
    <3>2. \A j \in 1..n - 1 : j \in 1..n /\ l[j] = m[j] /\ l[j] \in 1..h - 1
      <4> SUFFICES ASSUME NEW j \in 1..n - 1 PROVE j \in 1..n /\ l[j] = m[j] /\ l[j] \in 1..h - 1
        OBVIOUS
      <4>1. j \in 1..n /\ n \in 1..n /\ j < n /\ m[j] \in 1..h
        BY <1>2, <1>6
      <4>2. m[j] < h
        BY <1>7, <1>own, <4>1
      <4> QED BY <1>2, <3>1, <4>1, <4>2
    <3>3. l \in [1..Len(deques'[v].jobs) -> 1..Len(frames'[v])]
      <4>1. \A j \in 1..n - 1 : l[j] \in 1..h + 1
        BY <1>2, <3>2
      <4>2. l \in [1..n - 1 -> 1..h + 1]
        BY <3>1, <4>1
      <4> QED BY <1>frames, <1>deques, <2>2, <4>2
    <3>4. \A j, k \in 1..n - 1 : j < k => l[j] < l[k]
      BY <1>7, <3>2
    <3>5. \A j \in 1..n - 1 : /\ frames'[w][l[j]].at = "left"
                              /\ deques'[w].jobs[j] = RightJob(frames'[w][l[j]])
      <4>1. \A j \in 1..n - 1 : frames'[w][l[j]] = frames[w][m[j]] /\ deques'[w].jobs[j] = list[j]
        BY <1>frames, <1>deques, <3>2
      <4> QED BY <1>7, <3>2, <4>1
    <3>6. ASSUME NEW p \in 1..h + 1, NEW j \in 1..n - 1
          PROVE  /\ frames'[w][p].at = "left" /\ l[j] <= p => \E k \in 1..n - 1 : l[k] = p
                 /\ frames'[w][p].at = "join" => p < l[j]
      <4>1. CASE p = h + 1
        BY <1>10, <1>frames, <4>1
      <4>2. CASE p = h
        BY <1>9, <1>frames, <4>2
      <4>3. CASE p \in 1..h - 1
        <5>1. /\ frames[w][p].at = "left" /\ m[j] <= p => \E k \in 1..n : m[k] = p
              /\ frames[w][p].at = "join" => p < m[j]
          <6>1. p \in 1..h /\ j \in 1..n
            BY <1>2, <4>3
          <6> QED BY <1>7, <6>1
        <5>2. \A k \in 1..n : m[k] = p => k \in 1..n - 1
          BY <1>2, <1>own, <4>3
        <5> QED BY <1>frames, <3>2, <4>3, <5>1, <5>2
      <4> QED BY <1>2, <4>1, <4>2, <4>3
    <3>7. Owns(w, l)'
      BY <1>frames, <1>deques, <3>4, <3>5, <3>6 DEF Owns, Height, Jobs
    <3> QED BY <2>2, <3>3, <3>7
  <2> QED BY <2>1, <2>2
<1>15. \A u \in Worker : \A j \in Nat : IsPiece(u, j)' =>
         \/ u = w /\ j = 0 /\ Piece(u, j)' = job
         \/ /\ IsPiece(u, j) /\ Piece(u, j)' = Piece(u, j) /\ Piece(u, j) \in Span
            /\ (u # w \/ j \in 1..n - 1)
  <2> SUFFICES ASSUME NEW u \in Worker, NEW j \in Nat, IsPiece(u, j)'
               PROVE  \/ u = w /\ j = 0 /\ Piece(u, j)' = job
                      \/ /\ IsPiece(u, j) /\ Piece(u, j)' = Piece(u, j) /\ Piece(u, j) \in Span
                         /\ (u # w \/ j \in 1..n - 1)
    OBVIOUS
  <2>1. CASE u = w /\ j = 0
    <3>1. Last(frames'[w]) = new
      <4>1. frames'[w] # << >>
        BY <1>2, <1>frames
      <4> QED BY <1>2, <1>frames, <4>1, TopOfStack
    <3> QED BY <1>10, <2>1, <3>1 DEF Piece, Top
  <2>2. CASE u = w /\ j # 0
    <3>1. j \in 1..n - 1 /\ Piece(u, j)' = deques'[w].jobs[j]
      BY <1>deques, <2>2 DEF IsPiece, Piece, Jobs
    <3>2. j \in 1..n /\ IsPiece(u, j) /\ Piece(u, j) = list[j]
      BY <1>2, <1>8, <2>2, <3>1 DEF IsPiece, Piece
    <3> QED BY <1>2, <1>deques, <3>1, <3>2
  <2>3. CASE u # w
    <3>1. frames'[u] = frames[u] /\ deques'[u].jobs = deques[u].jobs
      BY <1>frames, <1>deques, <2>3 DEF Jobs
    <3>2. IsPiece(u, j) /\ Piece(u, j)' = Piece(u, j)
      BY <2>3, <3>1 DEF IsPiece, Piece, Jobs, Top
    <3> QED BY <1>0, <2>3, <3>2, PieceIsSpan
  <2> QED BY <2>1, <2>2, <2>3
<1>16. IsPiece(w, n) /\ Piece(w, n) = job
  BY <1>2, <1>8, <1>own DEF IsPiece, Piece
<1>17. \A q \in Span : Inside(q, q)
  BY DEF Inside, Span
<1>18. PieceInv' /\ \A q \in Span : Within(q) => Within(q)'
  <2>1. PICK who, which :
          /\ who = [u \in Worker |-> [j \in Nat |-> u]]
          /\ which = [u \in Worker |-> [j \in Nat |-> IF u = w /\ j = 0 THEN n ELSE j]]
    OBVIOUS
  <2>2. \A u \in Worker : \A j \in Nat :
          /\ who[u][j] = u /\ (u # w \/ j # 0 => which[u][j] = j)
          /\ which[w][0] = n
    BY <1>2, <2>1
  <2>3. \A u \in Worker : \A j \in Nat : IsPiece(u, j)' =>
          /\ who[u][j] \in Worker /\ which[u][j] \in Nat /\ IsPiece(who[u][j], which[u][j])
          /\ Piece(u, j)' \in Span /\ Piece(who[u][j], which[u][j]) = Piece(u, j)'
    <3> SUFFICES ASSUME NEW u \in Worker, NEW j \in Nat, IsPiece(u, j)'
                 PROVE  /\ who[u][j] \in Worker /\ which[u][j] \in Nat
                        /\ IsPiece(who[u][j], which[u][j])
                        /\ Piece(u, j)' \in Span /\ Piece(who[u][j], which[u][j]) = Piece(u, j)'
      OBVIOUS
    <3>1. CASE u = w /\ j = 0 /\ Piece(u, j)' = job
      BY <1>2, <1>own, <1>16, <2>2, <3>1
    <3>2. CASE /\ IsPiece(u, j) /\ Piece(u, j)' = Piece(u, j) /\ Piece(u, j) \in Span
               /\ (u # w \/ j \in 1..n - 1)
      <4>1. who[u][j] = u /\ which[u][j] = j
        BY <1>2, <2>2, <3>2
      <4> QED BY <3>2, <4>1
    <3> QED BY <1>15, <3>1, <3>2
  <2>4. ASSUME NEW u \in Worker, NEW v \in Worker, NEW j \in Nat, NEW k \in Nat,
               IsPiece(u, j)', IsPiece(v, k)', u # v \/ j # k,
               who[u][j] = who[v][k], which[u][j] = which[v][k]
        PROVE  FALSE
    <3>1. u = w /\ v = w /\ ((j = 0 /\ k = n) \/ (j = n /\ k = 0))
      BY <1>2, <2>2, <2>4
    <3>2. ~ (n \in 1..n - 1) /\ n # 0
      BY <1>2
    <3> QED BY <1>15, <2>4, <3>1, <3>2
  <2>5. Moves(who, which)
    BY <1>17, <2>3, <2>4 DEF Moves
  <2> QED BY <1>0, <1>same, <2>5, MovePieces
<1>19. \A u \in Worker : \A j \in Int : IsToken(u, j)' =>
         IsToken(u, j) /\ Token(u, j)' = Token(u, j) /\ (u # w \/ j # n)
  <2> SUFFICES ASSUME NEW u \in Worker, NEW j \in Int, IsToken(u, j)'
               PROVE  IsToken(u, j) /\ Token(u, j)' = Token(u, j) /\ (u # w \/ j # n)
    OBVIOUS
  <2>1. CASE u # w
    <3>1. frames'[u] = frames[u] /\ deques'[u].jobs = deques[u].jobs
      BY <1>frames, <1>deques, <2>1 DEF Jobs
    <3> QED BY <2>1, <3>1 DEF IsToken, Token, Jobs, Height
  <2>2. CASE u = w /\ ~ (j < 0)
    <3>1. j \in 1..n - 1 /\ Token(u, j)' = deques'[w].jobs[j]
      BY <1>deques, <2>2 DEF IsToken, Token, Jobs
    <3>2. IsToken(u, j) /\ Token(u, j) = list[j] /\ j # n
      BY <1>2, <1>8, <2>2, <3>1 DEF IsToken, Token
    <3> QED BY <1>deques, <3>1, <3>2
  <2>3. CASE u = w /\ j < 0
    <3>1. PICK p : p = -j /\ p \in 1..h + 1 /\ frames'[w][p].stolen
      BY <1>frames, <2>3 DEF IsToken, Height
    <3>2. p # h + 1
      BY <1>10, <1>frames, <3>1
    <3>3. p \in 1..h /\ frames[w][p].stolen /\ frames'[w][p].range = frames[w][p].range
      <4>1. CASE p = h
        <5>1. frames'[w][p] = here /\ here.stolen
          BY <1>frames, <3>1, <4>1
        <5>2. frames[w][p].stolen
          BY <1>2, <1>9, <4>1, <5>1
        <5> QED BY <1>2, <1>8, <1>9, <4>1, <5>1, <5>2
      <4>2. CASE p \in 1..h - 1
        BY <1>2, <1>frames, <3>1, <4>2
      <4> QED BY <1>2, <3>1, <3>2, <4>1, <4>2
    <3>4. IsToken(u, j) /\ Token(u, j)' = Token(u, j)
      BY <1>8, <2>3, <3>1, <3>3 DEF IsToken, Token
    <3> QED BY <1>2, <2>3, <3>4
  <2> QED BY <2>1, <2>2, <2>3
<1>20. IsToken(w, n) /\ Token(w, n) = job
  BY <1>2, <1>8, <1>own DEF IsToken, Token
<1>21. TokenInv'
  <2>1. \A u, v \in Worker : \A j, k \in Int :
          IsToken(u, j)' /\ IsToken(v, k)' /\ Token(u, j)' = Token(v, k)' => u = v /\ j = k
    BY <1>0, <1>19 DEF TokenInv
  <2>2. ASSUME NEW u \in Worker, NEW j \in Int, IsToken(u, j)'
        PROVE  Token(u, j)' \notin done' /\ Token(u, j)' \in Owned'
    <3>1. PICK q : q = Token(u, j) /\ q = Token(u, j)'
      BY <1>19, <2>2
    <3>2. q \notin done /\ q \in Owned
      BY <1>0, <1>19, <2>2, <3>1 DEF TokenInv
    <3>3. q # job
      <4> SUFFICES ASSUME q = job PROVE FALSE
        OBVIOUS
      <4>1. IsToken(u, j) /\ Token(u, j) = Token(w, n) /\ (u # w \/ j # n) /\ n \in Int
        BY <1>2, <1>19, <1>20, <2>2, <3>1
      <4> QED BY <1>0, <1>20, <4>1 DEF TokenInv
    <3>4. \A x \in Worker : \A p \in 1..Len(frames[x]) :
            frames[x][p].at \in {"left", "join"} /\ q = RightJob(frames[x][p]) =>
              /\ p \in 1..Len(frames'[x]) /\ frames'[x][p].at \in {"left", "join"}
              /\ frames'[x][p].range = frames[x][p].range
      <4> SUFFICES ASSUME NEW x \in Worker, NEW p \in 1..Len(frames[x]),
                          frames[x][p].at \in {"left", "join"}, q = RightJob(frames[x][p])
                   PROVE  p \in 1..Len(frames'[x]) /\ frames'[x][p] = frames[x][p]
        OBVIOUS
      <4>1. CASE x # w
        BY <1>frames, <4>1
      <4>2. CASE x = w
        <5>1. p # h /\ p \in 1..h
          BY <1>2, <1>8, <3>3, <4>2
        <5>2. p \in 1..h - 1 /\ p \in 1..h + 1
          BY <1>2, <5>1
        <5> QED BY <1>frames, <4>2, <5>2
      <4> QED BY <4>1, <4>2
    <3>5. q \in Owned'
      BY <1>0, <1>frames, <3>2, <3>4, StillOwned
    <3> QED BY <1>same, <3>1, <3>2, <3>5
  <2> QED BY <2>1, <2>2 DEF TokenInv
<1>22. WithinInv'
  <2>1. \A q \in done' : Within(q)'
    BY <1>0, <1>same, <1>18 DEF WithinInv, Types
  <2>2. ASSUME NEW u \in Worker, NEW j \in Int, IsToken(u, j)'
        PROVE  Within(Token(u, j))'
    <3>1. PICK q : q = Token(u, j) /\ q = Token(u, j)'
      BY <1>19, <2>2
    <3>2. q \in Span /\ Within(q)
      BY <1>0, <1>19, <2>2, <3>1, TokenIsSpan DEF WithinInv
    <3>3. Within(q)'
      BY <1>18, <3>2
    <3> QED BY <3>1, <3>3 DEF Within
  <2> QED BY <2>1, <2>2 DEF WithinInv
<1> QED BY <1>11, <1>12, <1>13, <1>14, <1>18, <1>21, <1>22 DEF Inv

\* The job of this call was stolen, and the call waits for it.
LEMMA WaitForThief ==
  ASSUME SchedulerAssumption, Inv, NEW w \in Worker, AfterLeft(w), Jobs(w) = << >>
  PROVE  Inv'
<1>8. PICK h, t, f, r, here :
        /\ h = Height(w) /\ h = Len(frames[w]) /\ t = frames[w] /\ f = Top(w) /\ r = f.range
        /\ here = [f EXCEPT !.at = "join"]
  BY DEF Height
<1>0. Types /\ StackInv /\ RunInv /\ DequeInv /\ PieceInv /\ TokenInv /\ WithinInv
  BY DEF Inv
<1>1. frames[w] # << >> /\ f.at = "left"
  BY <1>8 DEF AfterLeft, InFrame
<1>2. /\ h \in Nat \ {0} /\ f = frames[w][h] /\ f \in Frame /\ r \in Span
      /\ t \in Seq(Frame) /\ t # << >>
  <2>1. /\ h \in Nat \ {0} /\ f = frames[w][h] /\ f \in Frame /\ r \in Span
        /\ frames[w] \in Seq(Frame)
    BY <1>0, <1>1, <1>8, WorkerTypes DEF Frame
  <2> QED BY <1>1, <1>8, <2>1
<1>same. granularity' = granularity /\ done' = done /\ ran' = ran /\ loop' = loop
  BY DEF AfterLeft
<1>3. granularity # 0
  BY <1>0, <1>1 DEF RunInv, NotBegun
<1>4. Settled(w, h)
  <2>1. h = Height(w) /\ h \in 1..h
    BY <1>2, <1>8
  <2> QED BY <1>0, <2>1 DEF StackInv
<1>5. r[1] < Mid(r) /\ Mid(r) < r[2] /\ AllRan(LeftHalf(f))
  BY <1>1, <1>2, <1>4, <1>8 DEF Settled
<1>9. /\ here \in Frame /\ here.range = r /\ here.at = "join" /\ (here.stolen <=> f.stolen)
      /\ LeftHalf(here) = LeftHalf(f) /\ RightJob(here) = RightJob(f)
  BY <1>2, <1>8 DEF Frame, LeftHalf, RightJob
<1>frames. /\ \A v \in Worker : frames'[v] \in Seq(Frame)
           /\ frames' \in [Worker -> Seq(Frame)]
           /\ Len(frames'[w]) = h /\ frames'[w][h] = here
           /\ \A p \in 1..h - 1 : frames'[w][p] = frames[w][p]
           /\ \A v \in Worker \ {w} : frames'[v] = frames[v]
  <2>1. here \in Frame /\ t \in Seq(Frame) /\ t # << >>
    BY <1>2, <1>9
  <2>2. PICK s : s = Front(t) \o <<here>>
    OBVIOUS
  <2>3. /\ s \in Seq(Frame) /\ Len(s) = Len(t) /\ s[Len(t)] = here
        /\ \A p \in 1..Len(t) - 1 : s[p] = t[p]
    BY <2>1, <2>2, ReplaceTop
  <2>4. s = Front(t) \o <<here>> \o << >>
    BY <2>2, <2>3, ConcatEmptySeq
  <2>5. frames' = [frames EXCEPT ![w] = s]
    BY <1>8, <2>4 DEF AfterLeft, Jobs
  <2> QED BY <1>0, <1>8, <2>3, <2>5 DEF Types
<1>deques. /\ deques' \in [Worker -> [jobs : Seq(Span), top : Nat]]
           /\ \A v \in Worker : deques'[v].jobs = deques[v].jobs
  <2>1. deques' = [deques EXCEPT ![w] = [deques[w] EXCEPT !.top = 0]]
    BY DEF AfterLeft, Jobs
  <2> QED BY <1>0, <2>1 DEF Types
<1>empty. Len(Jobs(w)) = 0
  BY <1>0, WorkerTypes
<1>11. Types'
  BY <1>0, <1>same, <1>frames, <1>deques DEF Types
<1>12. StackInv'
  <2> SUFFICES ASSUME NEW v \in Worker, NEW p \in 1..Len(frames'[v]) PROVE Settled(v, p)'
    BY DEF StackInv, Height
  <2>1. CASE v # w
    BY <1>0, <1>same, <1>frames, <2>1, SettledStays DEF StackInv, Height
  <2>2. CASE v = w /\ p < h
    <3>1. p \in 1..Height(v) /\ p # Height(v) /\ p # Len(frames'[v]) /\ p \in 1..h - 1
      <4>1. Height(v) = h /\ Len(frames'[v]) = h
        BY <1>8, <1>frames, <2>2
      <4> QED BY <1>2, <2>2, <4>1
    <3>2. frames'[v][p + 1].range = frames[v][p + 1].range
      <4>1. CASE p + 1 = h
        <5>1. frames'[w][h].range = frames[w][h].range
          BY <1>2, <1>8, <1>9, <1>frames
        <5> QED BY <2>2, <4>1, <5>1
      <4>2. CASE p + 1 \in 1..h - 1
        BY <1>frames, <2>2, <4>2
      <4> QED BY <1>2, <2>2, <3>1, <4>1, <4>2
    <3> QED BY <1>0, <1>same, <1>frames, <2>2, <3>1, <3>2, SettledStays DEF StackInv, Height
  <2>3. CASE v = w /\ p = h
    <3>1. frames'[v][p] = here
      BY <1>frames, <2>3
    <3>2. /\ here.range[1] < Mid(here.range) /\ Mid(here.range) < here.range[2]
          /\ here.at = "join" /\ RanIn(ran', LeftHalf(here))
      BY <1>5, <1>9, <1>same DEF AllRan
    <3> QED BY <3>1, <3>2 DEF Settled, Height, LeftHalf, RightJob, Mid, AllRan
  <2> QED BY <1>2, <1>frames, <2>1, <2>2, <2>3
<1>13. RunInv'
  <2>1. \A q \in done' : RanIn(ran', q)
    BY <1>0, <1>same DEF RunInv, AllRan
  <2>2. IF frames'[0] = << >> THEN RanIn(ran', <<0, end>>)
        ELSE frames'[0][1].range[2] = end /\ RanIn(ran', <<0, frames'[0][1].range[1]>>)
    <3>1. CASE w # 0
      <4>1. frames'[0] = frames[0]
        BY <1>frames, <3>1 DEF Worker, SchedulerAssumption
      <4> QED BY <1>0, <1>same, <1>3, <4>1 DEF RunInv, AllRan
    <3>2. CASE w = 0
      <4>1. frames'[0][1].range = frames[0][1].range
        <5>1. CASE h = 1
          <6>1. frames'[0][1] = here /\ frames[0][1] = f
            BY <1>2, <1>frames, <3>2, <5>1
          <6>2. here.range = f.range
            BY <1>8, <1>9
          <6> QED BY <6>1, <6>2
        <5>2. CASE h # 1
          <6>1. 1 \in 1..h - 1
            BY <1>2, <5>2
          <6> QED BY <1>frames, <3>2, <6>1
        <5> QED BY <5>1, <5>2
      <4>2. frames'[0] # << >>
        <5>1. Len(frames'[0]) # 0
          BY <1>2, <1>frames, <3>2
        <5> QED BY <5>1
      <4> QED BY <1>0, <1>1, <1>same, <1>3, <3>2, <4>1, <4>2 DEF RunInv, AllRan
    <3> QED BY <3>1, <3>2
  <2> QED BY <1>same, <1>3, <2>1, <2>2 DEF RunInv, AllRan
<1>14. DequeInv'
  <2> SUFFICES ASSUME NEW v \in Worker
               PROVE  \E l \in [1..Len(Jobs(v)) -> 1..Len(frames'[v])] : Owns(v, l)'
    BY <1>deques DEF DequeInv, Height, Jobs
  <2>1. PICK l \in [1..Len(Jobs(v)) -> 1..Height(v)] : Owns(v, l)
    BY <1>0 DEF DequeInv
  <2>2. CASE v # w
    <3>1. frames'[v] = frames[v] /\ deques'[v].jobs = deques[v].jobs
      BY <1>frames, <1>deques, <2>2
    <3>2. Jobs(v)' = Jobs(v) /\ Height(v)' = Height(v)
      BY <3>1 DEF Height, Jobs
    <3>3. Owns(v, l)'
      BY <2>1, <3>1, <3>2 DEF Owns
    <3> QED BY <2>1, <3>2, <3>3 DEF Height, Jobs
  <2>3. CASE v = w
    <3>1. Len(deques'[v].jobs) = 0 /\ Len(Jobs(v)) = 0
      BY <1>deques, <1>empty, <2>3 DEF Jobs
    <3>2. Len(frames'[v]) = Height(v)
      BY <1>8, <1>frames, <2>3
    <3>3. Owns(v, l)'
      <4>1. \A j \in 1..Len(deques'[v].jobs) : FALSE
        BY <3>1
      <4> QED BY <4>1 DEF Owns, Jobs
    <3> QED BY <2>1, <3>2, <3>3
  <2> QED BY <2>2, <2>3
<1>15. \A u \in Worker : \A j \in Nat : IsPiece(u, j)' =>
         IsPiece(u, j) /\ Piece(u, j)' = Piece(u, j) /\ Piece(u, j) \in Span
  <2> SUFFICES ASSUME NEW u \in Worker, NEW j \in Nat, IsPiece(u, j)'
               PROVE  IsPiece(u, j) /\ Piece(u, j)' = Piece(u, j) /\ Piece(u, j) \in Span
    OBVIOUS
  <2>0. deques'[u].jobs = deques[u].jobs
    BY <1>deques
  <2>1. ~ (u = w /\ j = 0)
    <3> SUFFICES ASSUME u = w /\ j = 0 PROVE FALSE
      OBVIOUS
    <3>1. Last(frames'[w]).at = "join"
      <4>1. frames'[w] # << >>
        BY <1>2, <1>frames
      <4> QED BY <1>2, <1>9, <1>frames, <4>1, TopOfStack
    <3> QED BY <3>1 DEF IsPiece, Top
  <2>2. IsPiece(u, j) /\ Piece(u, j)' = Piece(u, j)
    <3>1. CASE j # 0
      BY <2>0, <3>1 DEF IsPiece, Piece, Jobs
    <3>2. CASE u # w
      BY <1>frames, <2>0, <3>2 DEF IsPiece, Piece, Jobs, Top
    <3> QED BY <2>1, <3>1, <3>2
  <2> QED BY <1>0, <2>2, PieceIsSpan
<1>16. PieceInv'
  BY <1>0, <1>15, <1>same DEF PieceInv
<1>17. \A q : Within(q) => Within(q)'
  BY <1>15 DEF Within, Apart, Inside
<1>18. \A u \in Worker : \A j \in Int : IsToken(u, j)' =>
         IsToken(u, j) /\ Token(u, j)' = Token(u, j)
  <2> SUFFICES ASSUME NEW u \in Worker, NEW j \in Int, IsToken(u, j)'
               PROVE  IsToken(u, j) /\ Token(u, j)' = Token(u, j)
    OBVIOUS
  <2>0. deques'[u].jobs = deques[u].jobs
    BY <1>deques
  <2>1. CASE u # w
    BY <1>frames, <2>0, <2>1 DEF IsToken, Token, Jobs, Height
  <2>2. CASE ~ (j < 0)
    BY <2>0, <2>2 DEF IsToken, Token, Jobs
  <2>3. CASE u = w /\ j < 0
    <3>1. PICK p : p = -j /\ p \in 1..h /\ frames'[w][p].stolen
      BY <1>frames, <2>3 DEF IsToken, Height
    <3>2. frames[w][p].stolen /\ frames'[w][p].range = frames[w][p].range
      <4>1. CASE p = h
        <5>1. frames'[w][p] = here /\ here.stolen
          BY <1>frames, <3>1, <4>1
        <5>2. frames[w][p].stolen
          BY <1>2, <1>9, <4>1, <5>1
        <5> QED BY <1>2, <1>8, <1>9, <4>1, <5>1, <5>2
      <4>2. CASE p \in 1..h - 1
        BY <1>2, <1>frames, <3>1, <4>2
      <4> QED BY <1>2, <3>1, <4>1, <4>2
    <3> QED BY <1>8, <2>3, <3>1, <3>2 DEF IsToken, Token
  <2> QED BY <2>1, <2>2, <2>3
<1>19. \A q \in Owned : q \in Owned'
  <2> SUFFICES ASSUME NEW q \in Owned PROVE q \in Owned'
    OBVIOUS
  <2>1. \A x \in Worker : \A p \in 1..Len(frames[x]) :
          frames[x][p].at \in {"left", "join"} /\ q = RightJob(frames[x][p]) =>
            /\ p \in 1..Len(frames'[x]) /\ frames'[x][p].at \in {"left", "join"}
            /\ frames'[x][p].range = frames[x][p].range
    <3> SUFFICES ASSUME NEW x \in Worker, NEW p \in 1..Len(frames[x]),
                        frames[x][p].at \in {"left", "join"}
                 PROVE  /\ p \in 1..Len(frames'[x]) /\ frames'[x][p].at \in {"left", "join"}
                        /\ frames'[x][p].range = frames[x][p].range
      OBVIOUS
    <3>1. CASE x # w
      BY <1>frames, <3>1
    <3>2. CASE x = w /\ p = h
      <4>1. frames'[x][p] = here /\ frames[x][p] = f /\ here.range = f.range
        BY <1>2, <1>8, <1>9, <1>frames, <3>2
      <4> QED BY <1>2, <1>9, <1>frames, <3>2, <4>1
    <3>3. CASE x = w /\ p # h
      <4>1. p \in 1..h - 1 /\ p \in 1..h
        BY <1>2, <1>8, <3>3
      <4> QED BY <1>frames, <3>3, <4>1
    <3> QED BY <3>1, <3>2, <3>3
  <2> QED BY <1>0, <1>frames, <2>1, StillOwned
<1>20. TokenInv'
  BY <1>0, <1>18, <1>19, <1>same DEF TokenInv
<1>21. WithinInv'
  <2>1. \A q \in done' : Within(q)'
    BY <1>0, <1>same, <1>17 DEF WithinInv
  <2>2. ASSUME NEW u \in Worker, NEW j \in Int, IsToken(u, j)'
        PROVE  Within(Token(u, j))'
    <3>1. PICK q : q = Token(u, j) /\ q = Token(u, j)'
      BY <1>18, <2>2
    <3>2. Within(q)'
      BY <1>0, <1>17, <1>18, <2>2, <3>1 DEF WithinInv
    <3> QED BY <3>1, <3>2 DEF Within
  <2> QED BY <2>1, <2>2 DEF WithinInv
<1> QED BY <1>11, <1>12, <1>13, <1>14, <1>16, <1>20, <1>21 DEF Inv

\* A call that waits, or a worker without work, takes the oldest job of another.
LEMMA StealStep ==
  ASSUME SchedulerAssumption, Inv, NEW w \in Worker, NEW v \in Worker, TrySteal(w, v)
  PROVE  Inv'
<1>8. PICK h, t, n, list, job, new :
        /\ h = Height(w) /\ h = Len(frames[w]) /\ t = frames[w]
        /\ n = Len(Jobs(v)) /\ list = Jobs(v) /\ job = Head(list) /\ new = NewFrame(job, TRUE)
  BY DEF Height
<1>0. Types /\ StackInv /\ RunInv /\ DequeInv /\ PieceInv /\ TokenInv /\ WithinInv
  BY DEF Inv
<1>1. list # << >> /\ \/ t # << >> /\ frames[w][h].at = "join"
                      \/ t = << >> /\ loop[w] = "seek"
  BY <1>0, <1>8, WorkerTypes DEF TrySteal, Seeking, InFrame, Jobs, Height
<1>2. /\ h \in Nat /\ t \in Seq(Frame) /\ (t = << >> <=> h = 0)
      /\ list \in Seq(Span) /\ n \in Nat \ {0} /\ \A j \in 1..n : list[j] \in Span
  <2>1. /\ h \in Nat /\ frames[w] \in Seq(Frame) /\ (frames[w] = << >> <=> h = 0)
        /\ Jobs(v) \in Seq(Span) /\ n \in Nat /\ (Jobs(v) = << >> <=> n = 0)
        /\ \A j \in 1..n : Jobs(v)[j] \in Span
    BY <1>0, <1>8, WorkerTypes
  <2> QED BY <1>1, <1>8, <2>1
<1>same. granularity' = granularity /\ done' = done /\ ran' = ran /\ loop' = loop
  BY DEF TrySteal
<1>3. granularity # 0
  BY <1>0, <1>1, <1>8 DEF RunInv, NotBegun
<1>empty. Len(Jobs(w)) = 0 /\ v # w
  <2>1. Len(Jobs(w)) = 0
    <3>1. PICK m \in [1..Len(Jobs(w)) -> 1..Height(w)] : Owns(w, m)
      BY <1>0 DEF DequeInv
    <3>2. SUFFICES ASSUME Len(Jobs(w)) # 0 PROVE FALSE
      OBVIOUS
    <3>3. 1 \in 1..Len(Jobs(w)) /\ m[1] \in 1..h
      <4>1. Len(Jobs(w)) \in Nat
        BY <1>0, WorkerTypes
      <4>2. 1 \in 1..Len(Jobs(w))
        BY <3>2, <4>1
      <4> QED BY <1>8, <3>1, <4>2
    <3>4. CASE h = 0
      BY <3>3, <3>4
    <3>5. CASE h # 0
      <4>1. frames[w][h].at = "join" /\ h \in 1..Height(w)
        BY <1>1, <1>2, <1>8, <3>5
      <4>2. h < m[1]
        BY <3>1, <3>3, <4>1 DEF Owns
      <4> QED BY <1>2, <3>3, <4>2
    <3> QED BY <3>4, <3>5
  <2> QED BY <1>2, <1>8, <2>1
<1>own. job = list[1] /\ job \in Span
  <2>1. job = list[1] /\ 1 \in 1..n
    BY <1>1, <1>2, <1>8, HeadTailProperties
  <2> QED BY <1>2, <2>1
<1>10. new \in Frame /\ new.range = job /\ new.at = "split" /\ new.stolen
  BY <1>own, <1>8 DEF NewFrame, Frame
<1>frames. /\ \A x \in Worker : frames'[x] \in Seq(Frame)
           /\ frames' \in [Worker -> Seq(Frame)]
           /\ Len(frames'[w]) = h + 1 /\ frames'[w][h + 1] = new
           /\ \A p \in 1..h : frames'[w][p] = frames[w][p]
           /\ \A x \in Worker \ {w} : frames'[x] = frames[x]
  <2>1. new \in Frame /\ t \in Seq(Frame)
    BY <1>2, <1>10
  <2>2. PICK s : s = Append(t, new)
    OBVIOUS
  <2>3. /\ s \in Seq(Frame) /\ Len(s) = Len(t) + 1 /\ s[Len(t) + 1] = new
        /\ \A p \in 1..Len(t) : s[p] = t[p]
    BY <2>1, <2>2, AppendProperties
  <2>4. frames' = [frames EXCEPT ![w] = s]
    BY <1>8, <2>2 DEF TrySteal, Jobs
  <2> QED BY <1>0, <1>8, <2>3, <2>4 DEF Types
<1>deques. /\ deques' \in [Worker -> [jobs : Seq(Span), top : Nat]]
           /\ Len(deques'[v].jobs) = n - 1
           /\ \A j \in 1..n - 1 : deques'[v].jobs[j] = list[j + 1]
           /\ \A x \in Worker \ {v} : deques'[x].jobs = deques[x].jobs
  <2>1. PICK s : /\ s = Tail(list) /\ s \in Seq(Span) /\ Len(s) = n - 1
                 /\ \A j \in 1..n - 1 : s[j] = list[j + 1]
    <3>1. /\ Tail(list) \in Seq(Span) /\ Len(Tail(list)) = Len(list) - 1
          /\ \A j \in 1..Len(Tail(list)) : Tail(list)[j] = list[j + 1]
      BY <1>1, <1>2, HeadTailProperties
    <3>2. n = Len(list)
      BY <1>8
    <3> QED BY <3>1, <3>2
  <2>2. PICK top \in Nat : deques' = [deques EXCEPT ![v] = [jobs |-> s, top |-> top]]
    <3>1. deques' = [deques EXCEPT ![v] = [jobs |-> s, top |-> deques[v].top + 1]]
      BY <1>8, <2>1 DEF TrySteal, Jobs
    <3>2. deques[v].top + 1 \in Nat
      BY <1>0 DEF Types
    <3> QED BY <3>1, <3>2
  <2> QED BY <1>0, <2>1, <2>2 DEF Types, Jobs
<1>11. Types'
  BY <1>0, <1>same, <1>frames, <1>deques DEF Types
<1>12. StackInv'
  <2> SUFFICES ASSUME NEW x \in Worker, NEW p \in 1..Len(frames'[x]) PROVE Settled(x, p)'
    BY DEF StackInv, Height
  <2>1. CASE x # w
    BY <1>0, <1>same, <1>frames, <2>1, SettledStays DEF StackInv, Height
  <2>2. CASE x = w /\ p < h
    <3>1. p \in 1..Height(x) /\ p # Height(x) /\ p # Len(frames'[x]) /\ p \in 1..h /\ p + 1 \in 1..h
      <4>1. Height(x) = h /\ Len(frames'[x]) = h + 1
        BY <1>8, <1>frames, <2>2
      <4> QED BY <1>2, <2>2, <4>1
    <3> QED BY <1>0, <1>same, <1>frames, <2>2, <3>1, SettledStays DEF StackInv, Height
  <2>3. CASE x = w /\ p = h
    <3>1. frames'[x][p] = frames[x][p] /\ frames[x][p].at = "join"
      BY <1>1, <1>2, <1>frames, <2>3
    <3>2. Settled(x, p)
      <4>1. p \in 1..Height(x)
        <5>1. Height(x) = h /\ Len(frames'[x]) = h + 1
          BY <1>8, <1>frames, <2>3
        <5> QED BY <1>2, <2>3, <5>1
      <4> QED BY <1>0, <4>1 DEF StackInv
    <3> QED BY <1>same, <3>1, <3>2 DEF Settled, AllRan, LeftHalf, RightJob
  <2>4. CASE x = w /\ p = h + 1
    BY <1>10, <1>frames, <2>4 DEF Settled, Height
  <2> QED BY <1>2, <1>frames, <2>1, <2>2, <2>3, <2>4
<1>13. RunInv'
  <2>1. \A q \in done' : RanIn(ran', q)
    BY <1>0, <1>same DEF RunInv, AllRan
  <2>2. IF frames'[0] = << >> THEN RanIn(ran', <<0, end>>)
        ELSE frames'[0][1].range[2] = end /\ RanIn(ran', <<0, frames'[0][1].range[1]>>)
    <3>1. CASE w # 0
      <4>1. frames'[0] = frames[0]
        BY <1>frames, <3>1 DEF Worker, SchedulerAssumption
      <4> QED BY <1>0, <1>same, <1>3, <4>1 DEF RunInv, AllRan
    <3>2. CASE w = 0
      <4>1. frames[0] # << >> /\ 1 \in 1..h
        <5>1. loop[w] # "seek"
          BY <1>0, <3>2 DEF Types
        <5>2. t # << >>
          BY <1>1, <5>1
        <5> QED BY <1>2, <1>8, <3>2, <5>2
      <4>2. frames'[0][1] = frames[0][1]
        BY <1>frames, <3>2, <4>1
      <4>3. frames'[0] # << >>
        <5>1. Len(frames'[0]) # 0
          BY <1>2, <1>frames, <3>2
        <5> QED BY <5>1
      <4> QED BY <1>0, <1>same, <1>3, <4>1, <4>2, <4>3 DEF RunInv, AllRan
    <3> QED BY <3>1, <3>2
  <2> QED BY <1>same, <1>3, <2>1, <2>2 DEF RunInv, AllRan
<1>14. DequeInv'
  <2> SUFFICES ASSUME NEW x \in Worker
               PROVE  \E l \in [1..Len(deques'[x].jobs) -> 1..Len(frames'[x])] : Owns(x, l)'
    BY DEF DequeInv, Height, Jobs
  <2>1. PICK m \in [1..Len(Jobs(x)) -> 1..Height(x)] : Owns(x, m)
    BY <1>0 DEF DequeInv
  <2>2. CASE x # w /\ x # v
    <3>1. frames'[x] = frames[x] /\ deques'[x].jobs = deques[x].jobs
      BY <1>frames, <1>deques, <2>2
    <3>2. Jobs(x)' = Jobs(x) /\ Height(x)' = Height(x)
      BY <3>1 DEF Height, Jobs
    <3>3. Owns(x, m)'
      BY <2>1, <3>1, <3>2 DEF Owns
    <3> QED BY <2>1, <3>2, <3>3 DEF Height, Jobs
  <2>3. CASE x = w
    <3>1. Len(deques'[x].jobs) = 0
      BY <1>deques, <1>empty, <2>3 DEF Jobs
    <3>2. \A j \in 1..Len(deques'[x].jobs) : FALSE
      BY <3>1
    <3>3. PICK l : l = [j \in 1..Len(deques'[x].jobs) |-> 1]
      OBVIOUS
    <3>4. l \in [1..Len(deques'[x].jobs) -> 1..Len(frames'[x])]
      BY <3>2, <3>3
    <3>5. Owns(x, l)'
      BY <3>2 DEF Owns, Jobs
    <3> QED BY <3>4, <3>5
  <2>4. CASE x = v
    <3>0. /\ \A j, k \in 1..n : j < k => m[j] < m[k]
          /\ \A j \in 1..n : /\ m[j] \in 1..Height(v) /\ frames[v][m[j]].at = "left"
                             /\ list[j] = RightJob(frames[v][m[j]])
          /\ \A p \in 1..Height(v), j \in 1..n :
               /\ frames[v][p].at = "left" /\ m[j] <= p => \E k \in 1..n : m[k] = p
               /\ frames[v][p].at = "join" => p < m[j]
      <4>1. m \in [1..Len(Jobs(v)) -> 1..Height(v)] /\ Owns(v, m)
        BY <2>1, <2>4
      <4>2. n = Len(Jobs(v)) /\ list = Jobs(v)
        BY <1>8
      <4> QED BY <4>1, <4>2 DEF Owns
    <3>1. PICK l : l = [j \in 1..n - 1 |-> m[j + 1]]
      OBVIOUS
    <3>2. \A j \in 1..n - 1 : j \in 1..n /\ j + 1 \in 1..n /\ l[j] = m[j + 1]
      BY <1>2, <3>1
    <3>3. frames'[v] = frames[v] /\ Len(frames'[v]) = Height(v) /\ Height(v) \in Nat
      BY <1>0, <1>empty, <1>frames, WorkerTypes DEF Height
    <3>4. l \in [1..Len(deques'[x].jobs) -> 1..Len(frames'[x])]
      <4>1. \A j \in 1..n - 1 : l[j] \in 1..Height(v)
        BY <3>0, <3>2
      <4>2. l \in [1..n - 1 -> 1..Height(v)]
        BY <3>1, <4>1
      <4> QED BY <1>deques, <2>4, <3>3, <4>2
    <3>5. ASSUME NEW j \in 1..n - 1, NEW k \in 1..n - 1, j < k PROVE l[j] < l[k]
      <4>1. j + 1 \in 1..n /\ k + 1 \in 1..n /\ j + 1 < k + 1
        BY <1>2, <3>5
      <4> QED BY <3>0, <3>2, <4>1
    <3>6. ASSUME NEW j \in 1..n - 1
          PROVE  /\ frames'[v][l[j]].at = "left"
                 /\ deques'[v].jobs[j] = RightJob(frames'[v][l[j]])
      <4>1. j + 1 \in 1..n /\ l[j] = m[j + 1]
        BY <3>2
      <4>2. frames[v][m[j + 1]].at = "left" /\ list[j + 1] = RightJob(frames[v][m[j + 1]])
        BY <3>0, <4>1
      <4>3. deques'[v].jobs[j] = list[j + 1]
        BY <1>deques
      <4> QED BY <3>3, <4>1, <4>2, <4>3
    <3>7. ASSUME NEW p \in 1..Height(v), NEW j \in 1..n - 1
          PROVE  /\ frames'[v][p].at = "left" /\ l[j] <= p => \E k \in 1..n - 1 : l[k] = p
                 /\ frames'[v][p].at = "join" => p < l[j]
      <4>1. frames'[v][p].at = "join" => p < l[j]
        BY <3>0, <3>2, <3>3
      <4>2. ASSUME frames'[v][p].at = "left", l[j] <= p PROVE \E k \in 1..n - 1 : l[k] = p
        <5>1. j + 1 \in 1..n /\ m[j + 1] <= p /\ 1 \in 1..n /\ 1 < j + 1
          BY <1>2, <3>2, <4>2
        <5>2. PICK k \in 1..n : m[k] = p
          BY <3>0, <3>3, <4>2, <5>1
        <5>3. k # 1
          <6>1. m[1] < m[j + 1] /\ m[1] \in 1..Height(v) /\ m[j + 1] \in 1..Height(v)
            BY <3>0, <5>1
          <6> QED BY <3>3, <5>1, <5>2, <6>1
        <5>4. k - 1 \in 1..n - 1 /\ (k - 1) + 1 = k
          BY <1>2, <5>3
        <5>5. l[k - 1] = p
          BY <3>2, <5>2, <5>4
        <5> QED BY <5>4, <5>5
      <4> QED BY <4>1, <4>2
    <3>8. Owns(v, l)'
      BY <1>deques, <3>3, <3>5, <3>6, <3>7 DEF Owns, Height, Jobs
    <3> QED BY <2>4, <3>4, <3>8
  <2> QED BY <2>2, <2>3, <2>4
<1>15. \A u \in Worker : \A j \in Nat : IsPiece(u, j)' =>
         \/ u = w /\ j = 0 /\ Piece(u, j)' = job
         \/ u = v /\ j \in 1..n - 1 /\ Piece(u, j)' = list[j + 1]
         \/ /\ IsPiece(u, j) /\ Piece(u, j)' = Piece(u, j) /\ Piece(u, j) \in Span
            /\ u # w /\ (u # v \/ j = 0)
  <2> SUFFICES ASSUME NEW u \in Worker, NEW j \in Nat, IsPiece(u, j)'
               PROVE  \/ u = w /\ j = 0 /\ Piece(u, j)' = job
                      \/ u = v /\ j \in 1..n - 1 /\ Piece(u, j)' = list[j + 1]
                      \/ /\ IsPiece(u, j) /\ Piece(u, j)' = Piece(u, j) /\ Piece(u, j) \in Span
                         /\ u # w /\ (u # v \/ j = 0)
    OBVIOUS
  <2>1. CASE u = w /\ j = 0
    <3>1. Last(frames'[w]) = new
      <4>1. frames'[w] # << >>
        BY <1>2, <1>frames
      <4> QED BY <1>2, <1>frames, <4>1, TopOfStack
    <3> QED BY <1>10, <2>1, <3>1 DEF Piece, Top
  <2>2. CASE u = w /\ j # 0
    <3>1. j \in 1..Len(deques'[w].jobs) /\ Len(deques'[w].jobs) = 0
      BY <1>deques, <1>empty, <2>2 DEF IsPiece, Jobs
    <3> QED BY <3>1
  <2>3. CASE u = v /\ j # 0
    <3>1. j \in 1..n - 1 /\ Piece(u, j)' = deques'[v].jobs[j]
      BY <1>deques, <2>3 DEF IsPiece, Piece, Jobs
    <3> QED BY <1>deques, <2>3, <3>1
  <2>4. CASE u = v /\ j = 0
    <3>1. frames'[u] = frames[u]
      BY <1>frames, <1>empty, <2>4
    <3>2. IsPiece(u, j) /\ Piece(u, j)' = Piece(u, j)
      BY <2>4, <3>1 DEF IsPiece, Piece, Top
    <3> QED BY <1>0, <1>empty, <2>4, <3>2, PieceIsSpan
  <2>5. CASE u # w /\ u # v
    <3>1. frames'[u] = frames[u] /\ deques'[u].jobs = deques[u].jobs
      BY <1>frames, <1>deques, <2>5 DEF Jobs
    <3>2. IsPiece(u, j) /\ Piece(u, j)' = Piece(u, j)
      BY <3>1 DEF IsPiece, Piece, Jobs, Top
    <3> QED BY <1>0, <2>5, <3>2, PieceIsSpan
  <2> QED BY <2>1, <2>2, <2>3, <2>4, <2>5
<1>16. \A j \in 1..n : IsPiece(v, j) /\ Piece(v, j) = list[j] /\ IsToken(v, j) /\ Token(v, j) = list[j]
  BY <1>2, <1>8 DEF IsPiece, Piece, IsToken, Token
<1>17. \A q \in Span : Inside(q, q)
  BY DEF Inside, Span
\* Where a piece, and a token, was before: the job of v that w runs now was v's first.
<1>18. PieceInv' /\ \A q \in Span : Within(q) => Within(q)'
  <2>1. PICK who, which :
          /\ who = [u \in Worker |-> [j \in Nat |-> IF u = w /\ j = 0 THEN v ELSE u]]
          /\ which = [u \in Worker |-> [j \in Nat |-> IF u = w /\ j = 0 THEN 1
                                                      ELSE IF u = v /\ j # 0 THEN j + 1 ELSE j]]
    OBVIOUS
  <2>2. /\ who[w][0] = v /\ which[w][0] = 1
        /\ \A j \in Nat : who[v][j] = v /\ (j # 0 => which[v][j] = j + 1)
        /\ \A u \in Worker : \A j \in Nat : u # w => who[u][j] = u
        /\ \A u \in Worker : \A j \in Nat : u # w /\ (u # v \/ j = 0) => which[u][j] = j
    BY <1>empty, <2>1
  <2>3. \A u \in Worker : \A j \in Nat : IsPiece(u, j)' =>
          /\ who[u][j] \in Worker /\ which[u][j] \in Nat /\ IsPiece(who[u][j], which[u][j])
          /\ Piece(u, j)' \in Span /\ Piece(who[u][j], which[u][j]) = Piece(u, j)'
    <3> SUFFICES ASSUME NEW u \in Worker, NEW j \in Nat, IsPiece(u, j)'
                 PROVE  /\ who[u][j] \in Worker /\ which[u][j] \in Nat
                        /\ IsPiece(who[u][j], which[u][j])
                        /\ Piece(u, j)' \in Span /\ Piece(who[u][j], which[u][j]) = Piece(u, j)'
      OBVIOUS
    <3>1. CASE u = w /\ j = 0 /\ Piece(u, j)' = job
      <4>1. 1 \in 1..n /\ 1 \in Nat
        BY <1>2
      <4> QED BY <1>own, <1>16, <2>2, <3>1, <4>1
    <3>2. CASE u = v /\ j \in 1..n - 1 /\ Piece(u, j)' = list[j + 1]
      <4>1. j + 1 \in 1..n /\ j + 1 \in Nat /\ j # 0
        BY <1>2, <3>2
      <4>2. who[u][j] = v /\ which[u][j] = j + 1
        BY <2>2, <3>2, <4>1
      <4> QED BY <1>2, <1>16, <3>2, <4>1, <4>2
    <3>3. CASE /\ IsPiece(u, j) /\ Piece(u, j)' = Piece(u, j) /\ Piece(u, j) \in Span
               /\ u # w /\ (u # v \/ j = 0)
      <4>1. who[u][j] = u /\ which[u][j] = j
        BY <2>2, <3>3
      <4> QED BY <3>3, <4>1
    <3> QED BY <1>15, <3>1, <3>2, <3>3
  <2>4. ASSUME NEW x \in Worker, NEW y \in Worker, NEW j \in Nat, NEW k \in Nat,
               IsPiece(x, j)', IsPiece(y, k)', x # y \/ j # k,
               who[x][j] = who[y][k], which[x][j] = which[y][k]
        PROVE  FALSE
    <3>1. \A u \in Worker : \A i \in Nat : IsPiece(u, i)' =>
            \/ u = w /\ i = 0 /\ who[u][i] = v /\ which[u][i] = 1
            \/ u = v /\ i # 0 /\ who[u][i] = v /\ which[u][i] = i + 1
            \/ u # w /\ (u # v \/ i = 0) /\ who[u][i] = u /\ which[u][i] = i
      BY <1>15, <2>2
    <3>2. \/ x = w /\ j = 0 /\ who[x][j] = v /\ which[x][j] = 1
          \/ x = v /\ j # 0 /\ who[x][j] = v /\ which[x][j] = j + 1
          \/ x # w /\ (x # v \/ j = 0) /\ who[x][j] = x /\ which[x][j] = j
      BY <2>4, <3>1
    <3>3. \/ y = w /\ k = 0 /\ who[y][k] = v /\ which[y][k] = 1
          \/ y = v /\ k # 0 /\ who[y][k] = v /\ which[y][k] = k + 1
          \/ y # w /\ (y # v \/ k = 0) /\ who[y][k] = y /\ which[y][k] = k
      BY <2>4, <3>1
    <3> QED BY <1>empty, <2>4, <3>2, <3>3
  <2>5. Moves(who, which)
    BY <1>17, <2>3, <2>4 DEF Moves
  <2> QED BY <1>0, <1>same, <2>5, MovePieces
<1>19. \A u \in Worker : \A j \in Int : IsToken(u, j)' =>
         \/ u = w /\ j = -(h + 1) /\ Token(u, j)' = job
         \/ u = v /\ j \in 1..n - 1 /\ Token(u, j)' = list[j + 1]
         \/ /\ IsToken(u, j) /\ Token(u, j)' = Token(u, j)
            /\ (u # v \/ j < 0)
  <2> SUFFICES ASSUME NEW u \in Worker, NEW j \in Int, IsToken(u, j)'
               PROVE  \/ u = w /\ j = -(h + 1) /\ Token(u, j)' = job
                      \/ u = v /\ j \in 1..n - 1 /\ Token(u, j)' = list[j + 1]
                      \/ /\ IsToken(u, j) /\ Token(u, j)' = Token(u, j)
                         /\ (u # v \/ j < 0)
    OBVIOUS
  <2>1. CASE u = w /\ j < 0
    <3>1. PICK p : p = -j /\ p \in 1..h + 1 /\ frames'[w][p].stolen
      BY <1>frames, <2>1 DEF IsToken, Height
    <3>2. Token(u, j)' = frames'[w][p].range
      BY <2>1, <3>1 DEF Token
    <3>3. CASE p = h + 1
      <4>1. j = -(h + 1)
        BY <1>2, <3>1, <3>3
      <4> QED BY <1>10, <1>frames, <2>1, <3>2, <3>3, <4>1
    <3>4. CASE p \in 1..h
      <4>1. frames'[w][p] = frames[w][p]
        BY <1>frames, <3>4
      <4> QED BY <1>8, <1>empty, <2>1, <3>1, <3>2, <3>4, <4>1 DEF IsToken, Token
    <3> QED BY <1>2, <3>1, <3>3, <3>4
  <2>2. CASE u = w /\ ~ (j < 0)
    <3>1. j \in 1..Len(deques'[w].jobs) /\ Len(deques'[w].jobs) = 0
      BY <1>deques, <1>empty, <2>2 DEF IsToken, Jobs
    <3> QED BY <3>1
  <2>3. CASE u = v /\ ~ (j < 0)
    <3>1. j \in 1..n - 1 /\ Token(u, j)' = deques'[v].jobs[j]
      BY <1>deques, <2>3 DEF IsToken, Token, Jobs
    <3> QED BY <1>deques, <2>3, <3>1
  <2>4. CASE u = v /\ j < 0
    <3>1. frames'[u] = frames[u]
      BY <1>frames, <1>empty, <2>4
    <3> QED BY <2>4, <3>1 DEF IsToken, Token, Height
  <2>5. CASE u # w /\ u # v
    <3>1. frames'[u] = frames[u] /\ deques'[u].jobs = deques[u].jobs
      BY <1>frames, <1>deques, <2>5 DEF Jobs
    <3> QED BY <2>5, <3>1 DEF IsToken, Token, Jobs, Height
  <2> QED BY <2>1, <2>2, <2>3, <2>4, <2>5
<1>20. \A u \in Worker : \A j \in Int : IsToken(u, j)' =>
         \E q : q = Token(u, j)' /\ \E x \in Worker, i \in Int : IsToken(x, i) /\ Token(x, i) = q
  <2>1. ASSUME NEW u \in Worker, NEW j \in Int, IsToken(u, j)'
        PROVE  \E x \in Worker, i \in Int : IsToken(x, i) /\ Token(x, i) = Token(u, j)'
    <3>1. CASE u = w /\ j = -(h + 1) /\ Token(u, j)' = job
      BY <1>2, <1>own, <1>16, <3>1
    <3>2. CASE u = v /\ j \in 1..n - 1 /\ Token(u, j)' = list[j + 1]
      <4>1. j + 1 \in 1..n /\ j + 1 \in Int
        BY <1>2, <3>2
      <4> QED BY <1>16, <3>2, <4>1
    <3>3. CASE IsToken(u, j) /\ Token(u, j)' = Token(u, j)
      BY <3>3
    <3> QED BY <1>19, <2>1, <3>1, <3>2, <3>3
  <2> QED BY <2>1
<1>21. \A q \in Owned : q \in Owned'
  <2> SUFFICES ASSUME NEW q \in Owned PROVE q \in Owned'
    OBVIOUS
  <2>1. \A x \in Worker : \A p \in 1..Len(frames[x]) :
          frames[x][p].at \in {"left", "join"} /\ q = RightJob(frames[x][p]) =>
            /\ p \in 1..Len(frames'[x]) /\ frames'[x][p].at \in {"left", "join"}
            /\ frames'[x][p].range = frames[x][p].range
    <3> SUFFICES ASSUME NEW x \in Worker, NEW p \in 1..Len(frames[x])
                 PROVE  p \in 1..Len(frames'[x]) /\ frames'[x][p] = frames[x][p]
      OBVIOUS
    <3>1. CASE x # w
      BY <1>frames, <3>1
    <3>2. CASE x = w
      <4>1. p \in 1..h /\ p \in 1..h + 1
        BY <1>2, <1>8, <3>2
      <4> QED BY <1>frames, <3>2, <4>1
    <3> QED BY <3>1, <3>2
  <2> QED BY <1>0, <1>frames, <2>1, StillOwned
<1>22. TokenInv'
  <2>1. ASSUME NEW x \in Worker, NEW y \in Worker, NEW j \in Int, NEW k \in Int,
               IsToken(x, j)', IsToken(y, k)', Token(x, j)' = Token(y, k)'
        PROVE  x = y /\ j = k
    <3>1. ASSUME NEW u \in Worker, NEW i \in Int, IsToken(u, i)'
          PROVE  \/ u = w /\ i = -(h + 1) /\ IsToken(v, 1) /\ Token(u, i)' = Token(v, 1)
                 \/ /\ u = v /\ i > 0 /\ i + 1 > 1 /\ IsToken(v, i + 1)
                    /\ Token(u, i)' = Token(v, i + 1)
                 \/ IsToken(u, i) /\ Token(u, i)' = Token(u, i) /\ (u # v \/ i < 0)
      <4>1. CASE u = w /\ i = -(h + 1) /\ Token(u, i)' = job
        BY <1>2, <1>own, <1>16, <4>1
      <4>2. CASE u = v /\ i \in 1..n - 1 /\ Token(u, i)' = list[i + 1]
        <5>1. i + 1 \in 1..n /\ i > 0 /\ i + 1 > 1
          BY <1>2, <4>2
        <5> QED BY <1>16, <4>2, <5>1
      <4> QED BY <1>19, <3>1, <4>1, <4>2
    <3>2. \A u1, u2 \in Worker : \A i1, i2 \in Int :
            IsToken(u1, i1) /\ IsToken(u2, i2) /\ Token(u1, i1) = Token(u2, i2) => u1 = u2 /\ i1 = i2
      BY <1>0 DEF TokenInv
    <3>3. CASE x = w /\ j = -(h + 1) /\ IsToken(v, 1) /\ Token(x, j)' = Token(v, 1)
      <4>1. CASE y = w /\ k = -(h + 1)
        BY <3>3, <4>1
      <4>2. CASE y = v /\ k > 0 /\ k + 1 > 1 /\ IsToken(v, k + 1) /\ Token(y, k)' = Token(v, k + 1)
        <5>1. k + 1 = 1 /\ k + 1 \in Int
          BY <2>1, <3>2, <3>3, <4>2
        <5> QED BY <4>2, <5>1
      <4>3. CASE IsToken(y, k) /\ Token(y, k)' = Token(y, k) /\ (y # v \/ k < 0)
        <5>1. y = v /\ k = 1
          BY <2>1, <3>2, <3>3, <4>3
        <5> QED BY <4>3, <5>1
      <4> QED BY <2>1, <3>1, <4>1, <4>2, <4>3
    <3>4. CASE x = v /\ j > 0 /\ j + 1 > 1 /\ IsToken(v, j + 1) /\ Token(x, j)' = Token(v, j + 1)
      <4>1. CASE y = w /\ k = -(h + 1) /\ IsToken(v, 1) /\ Token(y, k)' = Token(v, 1)
        <5>1. j + 1 = 1 /\ j + 1 \in Int
          BY <2>1, <3>2, <3>4, <4>1
        <5> QED BY <3>4, <5>1
      <4>2. CASE y = v /\ IsToken(v, k + 1) /\ Token(y, k)' = Token(v, k + 1)
        <5>1. j + 1 = k + 1
          BY <2>1, <3>2, <3>4, <4>2
        <5> QED BY <3>4, <4>2, <5>1
      <4>3. CASE IsToken(y, k) /\ Token(y, k)' = Token(y, k) /\ (y # v \/ k < 0)
        <5>1. Token(y, k) = Token(v, j + 1) /\ j + 1 \in Int
          BY <2>1, <3>4, <4>3
        <5>2. y = v /\ k = j + 1
          BY <3>2, <3>4, <4>3, <5>1
        <5> QED BY <3>4, <4>3, <5>2
      <4> QED BY <2>1, <3>1, <4>1, <4>2, <4>3
    <3>5. CASE IsToken(x, j) /\ Token(x, j)' = Token(x, j) /\ (x # v \/ j < 0)
      <4>1. CASE IsToken(v, 1) /\ Token(y, k)' = Token(v, 1)
        <5>1. Token(x, j) = Token(v, 1)
          BY <2>1, <3>5, <4>1
        <5>2. x = v /\ j = 1
          BY <3>2, <3>5, <4>1, <5>1
        <5> QED BY <3>5, <5>2
      <4>2. CASE k > 0 /\ IsToken(v, k + 1) /\ Token(y, k)' = Token(v, k + 1)
        <5>1. Token(x, j) = Token(v, k + 1)
          BY <2>1, <3>5, <4>2
        <5>2. x = v /\ j = k + 1
          BY <3>2, <3>5, <4>2, <5>1
        <5> QED BY <3>5, <4>2, <5>2
      <4>3. CASE IsToken(y, k) /\ Token(y, k)' = Token(y, k)
        BY <2>1, <3>2, <3>5, <4>3
      <4> QED BY <2>1, <3>1, <4>1, <4>2, <4>3
    <3> QED BY <2>1, <3>1, <3>3, <3>4, <3>5
  <2>2. ASSUME NEW u \in Worker, NEW j \in Int, IsToken(u, j)'
        PROVE  Token(u, j)' \notin done' /\ Token(u, j)' \in Owned'
    <3>1. PICK q : q = Token(u, j)' /\ \E x \in Worker, i \in Int : IsToken(x, i) /\ Token(x, i) = q
      BY <1>20, <2>2
    <3>2. q \notin done /\ q \in Owned
      BY <1>0, <3>1 DEF TokenInv
    <3> QED BY <1>same, <1>21, <3>1, <3>2
  <2> QED BY <2>1, <2>2 DEF TokenInv
<1>23. WithinInv'
  <2>1. \A q \in done' : Within(q)'
    BY <1>0, <1>same, <1>18 DEF WithinInv, Types
  <2>2. ASSUME NEW u \in Worker, NEW j \in Int, IsToken(u, j)'
        PROVE  Within(Token(u, j))'
    <3>1. PICK q : q = Token(u, j)' /\ \E x \in Worker, i \in Int : IsToken(x, i) /\ Token(x, i) = q
      BY <1>20, <2>2
    <3>2. q \in Span /\ Within(q)
      BY <1>0, <3>1, TokenIsSpan DEF WithinInv
    <3>3. Within(q)'
      BY <1>18, <3>2
    <3> QED BY <3>1, <3>3 DEF Within
  <2> QED BY <2>1, <2>2 DEF WithinInv
<1> QED BY <1>11, <1>12, <1>13, <1>14, <1>18, <1>22, <1>23 DEF Inv

(* The range of a call that is not forked: none of it has run, and now all. *)
LEMMA RunRangeStep ==
  ASSUME SchedulerAssumption, Inv, NEW w \in Worker, RunRange(w)
  PROVE  Inv'
<1>1. PICK r : r = Top(w).range
  OBVIOUS
<1>2. /\ frames[w] # << >> /\ Top(w).at = "split" /\ ran' = Count(r)
      /\ Return(w, frames[w]) /\ UNCHANGED <<granularity, deques, loop>>
  BY <1>1 DEF RunRange, InFrame
<1>3. r[1] \in 0..end /\ r[2] \in 0..end /\ end \in Nat
  <2>1. Top(w) \in Frame
    BY <1>2, WorkerTypes DEF Inv
  <2> QED BY <1>1, <2>1, SpanFacts DEF Frame
<1>4. ran \in [0..end - 1 -> 0..1]
  BY DEF Inv, Types
<1>5. \A i \in r[1]..r[2] - 1 : ran[i] = 0
  <2>1. IsPiece(w, 0) /\ Piece(w, 0) = r
    BY <1>1, <1>2 DEF IsPiece, Piece
  <2> QED BY <2>1 DEF Inv, PieceInv
<1>6. ASSUME NEW i \in 0..end - 1
      PROVE  /\ i \in r[1]..r[2] - 1 => ran'[i] = 1
             /\ i \notin r[1]..r[2] - 1 => ran'[i] = ran[i]
  <2>1. ran'[i] = ran[i] + IF r[1] <= i /\ i < r[2] THEN 1 ELSE 0
    BY <1>2 DEF Count
  <2>2. CASE i \in r[1]..r[2] - 1
    <3>1. ran[i] = 0 /\ r[1] <= i /\ i < r[2]
      BY <1>3, <1>5, <2>2
    <3> QED BY <2>1, <2>2, <3>1
  <2>3. CASE i \notin r[1]..r[2] - 1
    <3>1. ~ (r[1] <= i /\ i < r[2]) /\ ran[i] \in Int
      BY <1>3, <1>4, <2>3
    <3> QED BY <2>1, <2>3, <3>1
  <2> QED BY <2>2, <2>3
<1>7. ran' \in [0..end - 1 -> 0..1]
  <2>1. \A i \in 0..end - 1 : ran'[i] \in 0..1
    BY <1>4, <1>6
  <2>2. ran' = [i \in 0..end - 1 |-> ran'[i]]
    BY <1>2 DEF Count
  <2> QED BY <2>1, <2>2
<1>8. \A i \in 0..end - 1 : ran[i] = 1 => ran'[i] = 1
  BY <1>6
<1>9. \A i \in 0..end - 1 : ran'[i] = ran[i] \/ i \in r[1]..r[2] - 1
  BY <1>6
<1>10. RanIn(ran', r)
  <2>1. \A i \in r[1]..r[2] - 1 : i \in 0..end - 1
    BY <1>3
  <2> QED BY <1>6, <2>1 DEF RanIn
<1> QED BY <1>1, <1>2, <1>7, <1>8, <1>9, <1>10, ReturnStep

\* Both halves have run.
LEMMA JoinedStep ==
  ASSUME SchedulerAssumption, Inv, NEW w \in Worker, AfterRight(w) \/ Join(w)
  PROVE  Inv'
<1>1. PICK f, r : f = Top(w) /\ r = f.range
  OBVIOUS
<1>2. /\ frames[w] # << >> /\ ran' = ran
      /\ Return(w, frames[w]) /\ UNCHANGED <<granularity, deques, loop>>
      /\ \/ f.at = "right"
         \/ f.at = "join" /\ RightJob(f) \in done
  BY <1>1 DEF AfterRight, Join, InFrame
<1>0. Types /\ StackInv /\ RunInv
  BY DEF Inv
<1>3. /\ f \in Frame /\ r \in Span /\ f = frames[w][Height(w)] /\ Height(w) \in 1..Height(w)
  <2>1. /\ Height(w) \in Nat /\ Height(w) > 0 /\ Top(w) = frames[w][Height(w)]
        /\ Top(w) \in Frame
    BY <1>0, <1>2, WorkerTypes
  <2> QED BY <1>1, <2>1 DEF Frame
<1>4. Settled(w, Height(w))
  BY <1>0, <1>3 DEF StackInv
<1>5. /\ r[1] < Mid(r) /\ Mid(r) < r[2] /\ AllRan(LeftHalf(f))
      /\ (f.at = "right" => AllRan(RightJob(f)))
  BY <1>1, <1>2, <1>3, <1>4 DEF Settled
<1>6. AllRan(RightJob(f))
  BY <1>0, <1>2, <1>5 DEF RunInv
<1>7. AllRan(r)
  <2>1. r[1] \in Int /\ r[2] \in Int /\ Mid(r) \in Int
    BY <1>3, SpanFacts
  <2>2. \A i \in r[1]..r[2] - 1 : i \in r[1]..Mid(r) - 1 \/ i \in Mid(r)..r[2] - 1
    BY <2>1
  <2>3. /\ \A i \in r[1]..Mid(r) - 1 : ran[i] = 1
        /\ \A i \in Mid(r)..r[2] - 1 : ran[i] = 1
    BY <1>1, <1>5, <1>6 DEF AllRan, RanIn, LeftHalf, RightJob
  <2> QED BY <2>2, <2>3 DEF AllRan, RanIn
<1>8. ran' \in [0..end - 1 -> 0..1]
  BY <1>0, <1>2 DEF Types
<1>9. RanIn(ran', Top(w).range)
  BY <1>1, <1>2, <1>7 DEF AllRan
<1>10. Top(w).at # "left" /\ (Top(w).at = "join" => RightJob(Top(w)) \in done)
  BY <1>1, <1>2
<1> QED BY <1>2, <1>8, <1>9, <1>10, ReturnStep

\* Giving up, leaving, sleeping, waking and shutting down touch no job.
LEMMA WaitingStep ==
  ASSUME SchedulerAssumption, Inv, NEW w \in Worker,
         \/ GiveUp(w) \/ Leave(w) \/ WaitStep(w) \/ WakeStep(w)
         \/ Timeout(w) \/ Shutdown
  PROVE  Inv'
<1>1. loop \in [Worker -> Place] /\ loop[0] \in {"main", "down"} /\ 0 \in Worker
  BY DEF Inv, Types, Worker, SchedulerAssumption
<1>2. \A from, to : Step(w, from, to) /\ from \in Place \ {"main", "down"} /\ to \in Place =>
        loop' \in [Worker -> Place] /\ loop'[0] \in {"main", "down"}
  BY <1>1 DEF Step
<1>3. UNCHANGED work
  BY DEF GiveUp, Leave, WaitStep, WakeStep, Timeout, Shutdown
<1>4. loop' \in [Worker -> Place] /\ loop'[0] \in {"main", "down"}
  <2>1. CASE GiveUp(w) \/ Leave(w)
    BY <1>2, <2>1 DEF GiveUp, Leave, Step, Place
  <2>2. CASE WaitForWork(w)
    BY <1>2, <2>2 DEF WaitForWork, Place
  <2>3. CASE AtomicWait(w)
    BY <1>2, <2>3 DEF AtomicWait, Place
  <2>4. CASE TryWaitSlow(w)
    BY <1>2, <2>4 DEF TryWaitSlow, Place
  <2>5. CASE Timeout(w)
    BY <1>2, <2>5 DEF Timeout, Place
  <2>6. CASE WakeUpAWorker(w)
    BY <1>1, <2>6 DEF WakeUpAWorker
  <2>7. CASE NotifyAll(w)
    BY <1>1, <2>7 DEF NotifyAll, Place
  <2>8. CASE Shutdown
    BY <1>1, <2>8 DEF Shutdown, Place
  <2> QED BY <2>1, <2>2, <2>3, <2>4, <2>5, <2>6, <2>7, <2>8 DEF WaitStep, WakeStep
<1> QED BY <1>3, <1>4, IdleStep

LEMMA NextInv ==
  ASSUME SchedulerAssumption, Inv, [Next]_vars
  PROVE  Inv'
<1>1. CASE StartLoop
  BY <1>1, StartLoopStep
<1>2. CASE Shutdown
  <2>1. 0 \in Worker
    BY DEF Worker, SchedulerAssumption
  <2> QED BY <1>2, <2>1, WaitingStep
<1>3. CASE Down \/ UNCHANGED vars
  <2>1. UNCHANGED work /\ loop' = loop
    BY <1>3 DEF Down, vars, work
  <2>2. loop \in [Worker -> Place] /\ loop[0] \in {"main", "down"}
    BY DEF Inv, Types
  <2> QED BY <2>1, <2>2, IdleStep
<1>4. ASSUME NEW w \in Worker, WorkerStep(w) \/ Timeout(w)
      PROVE  Inv'
  <2>1. CASE RunRange(w)
    BY <2>1, RunRangeStep
  <2>2. CASE Fork(w)
    BY <2>2, ForkStep
  <2>3. CASE AfterLeft(w)
    <3>1. CASE Jobs(w) = << >>
      BY <2>3, <3>1, WaitForThief
    <3>2. CASE Jobs(w) # << >>
      BY <2>3, <3>2, TakeStep
    <3> QED BY <3>1, <3>2
  <2>4. CASE AfterRight(w) \/ Join(w)
    BY <2>4, JoinedStep
  <2>5. ASSUME NEW v \in Worker, TrySteal(w, v) PROVE Inv'
    BY <2>5, StealStep
  <2>6. CASE GiveUp(w) \/ Leave(w) \/ WaitStep(w) \/ WakeStep(w) \/ Timeout(w)
    BY <2>6, WaitingStep
  <2>7. ASSUME NEW v \in Worker, LosesRace(w, v) PROVE Inv'
    <3>1. UNCHANGED work /\ loop' = loop
      BY <2>7 DEF LosesRace
    <3>2. loop \in [Worker -> Place] /\ loop[0] \in {"main", "down"}
      BY DEF Inv, Types
    <3> QED BY <3>1, <3>2, IdleStep
  <2> QED BY <1>4, <2>1, <2>2, <2>3, <2>4, <2>5, <2>6, <2>7 DEF WorkerStep
<1> QED BY <1>1, <1>2, <1>3, <1>4 DEF Next

-----------------------------------------------------------------------------
(* The invariant holds in every state of the loop, whatever is stolen.       *)
THEOREM SchedulerInvariant == Spec => []Inv
<1>1. Init => Inv
  BY SchedulerAssumption, InitInv
<1>2. Inv /\ [Next]_vars => Inv'
  BY SchedulerAssumption, NextInv
<1> QED BY <1>1, <1>2, PTL DEF Spec

(* LoopJoins: no iteration runs twice; a job that is done, and the loop when  *)
(* it is over, have nothing left to run.                                     *)
THEOREM LoopIsJoined == Spec => []LoopJoins
<1>1. Inv => LoopJoins
  <2> SUFFICES ASSUME Inv PROVE LoopJoins
    OBVIOUS
  <2>1. \A i \in 0..end - 1 : ran[i] <= 1
    <3>1. \A i \in 0..end - 1 : ran[i] \in 0..1
      BY DEF Inv, Types
    <3>2. \A k \in 0..1 : k <= 1
      OBVIOUS
    <3> QED BY <3>1, <3>2
  <2>2. \A r \in done : \A i \in Iterations(r) : ran[i] = 1
    BY DEF Inv, RunInv, AllRan, RanIn, Iterations
  <2>3. LoopOver => \A i \in 0..end - 1 : ran[i] = 1
    <3>1. LoopOver => AllRan(<<0, end>>)
      BY DEF Inv, RunInv, LoopOver
    <3> QED BY <3>1 DEF AllRan, RanIn
  <2> QED BY <2>1, <2>2, <2>3 DEF LoopJoins
<1> QED BY <1>1, SchedulerInvariant, PTL

(* OwnJobIsRightHalf: what the owner pops is the right half of its innermost  *)
(* call, who seeks work has none of his own, and the call that owns a job in  *)
(* a deque or in a thief's hands has not returned.                           *)
THEOREM JobsHaveOwners == Spec => []OwnJobIsRightHalf
<1>1. Inv => OwnJobIsRightHalf
  <2> SUFFICES ASSUME Inv PROVE OwnJobIsRightHalf
    OBVIOUS
  <2>0. Types /\ DequeInv /\ RunInv /\ TokenInv /\ SchedulerAssumption
    BY SchedulerAssumption DEF Inv
  <2> SUFFICES ASSUME NEW w \in Worker
               PROVE  /\ InFrame(w, "left") /\ deques[w].jobs # << >> =>
                           Last(deques[w].jobs) = RightJob(Top(w))
                      /\ Seeking(w) => deques[w].jobs = << >>
                      /\ ToSet(deques[w].jobs) \subseteq Owned
                      /\ \A f \in ToSet(frames[w]) : f.stolen => f.range \in Owned
    BY DEF OwnJobIsRightHalf, PopsOwnJob
  <2>1. PICK m \in [1..Len(Jobs(w)) -> 1..Height(w)] : Owns(w, m)
    BY <2>0 DEF DequeInv
  <2>2. PICK h, n, list : h = Height(w) /\ n = Len(Jobs(w)) /\ list = Jobs(w)
    OBVIOUS
  <2>3. /\ h \in Nat /\ n \in Nat /\ list \in Seq(Span) /\ frames[w] \in Seq(Frame)
        /\ (frames[w] # << >> => h > 0 /\ Top(w) = frames[w][h])
        /\ (frames[w] = << >> <=> h = 0) /\ (list = << >> <=> n = 0)
    BY <2>0, <2>2, WorkerTypes
  <2>4. /\ \A j, k \in 1..n : j < k => m[j] < m[k]
        /\ \A j \in 1..n : /\ m[j] \in 1..h /\ frames[w][m[j]].at = "left"
                           /\ list[j] = RightJob(frames[w][m[j]])
        /\ \A p \in 1..h, j \in 1..n :
             /\ frames[w][p].at = "left" /\ m[j] <= p => \E k \in 1..n : m[k] = p
             /\ frames[w][p].at = "join" => p < m[j]
    BY <2>1, <2>2 DEF Owns
  <2>5. InFrame(w, "left") /\ deques[w].jobs # << >> => Last(deques[w].jobs) = RightJob(Top(w))
    <3> SUFFICES ASSUME InFrame(w, "left"), list # << >>
                 PROVE  Last(list) = RightJob(Top(w))
      BY <2>2 DEF Jobs
    <3>1. Top(w) = frames[w][h] /\ frames[w][h].at = "left" /\ h \in 1..h
      BY <2>3 DEF InFrame
    <3>2. n \in 1..n /\ Last(list) = list[n]
      <4>1. Last(list) = list[Len(list)]
        BY <2>3, TopOfStack
      <4>2. n = Len(list)
        BY <2>2
      <4> QED BY <2>3, <4>1, <4>2
    <3>3. m[n] = h
      <4>1. m[n] \in 1..h /\ m[n] <= h
        BY <2>3, <2>4, <3>2
      <4>2. PICK k \in 1..n : m[k] = h
        BY <2>4, <3>1, <3>2, <4>1
      <4>3. k = n
        <5> SUFFICES ASSUME k < n PROVE FALSE
          BY <2>3, <4>2
        <5>1. m[k] < m[n]
          BY <2>4, <3>2, <4>2
        <5> QED BY <2>3, <4>1, <4>2, <5>1
      <4> QED BY <4>2, <4>3
    <3> QED BY <2>4, <3>1, <3>2, <3>3
  <2>6. Seeking(w) => deques[w].jobs = << >>
    <3> SUFFICES ASSUME Seeking(w), n # 0 PROVE FALSE
      BY <2>2, <2>3 DEF Jobs
    <3>1. 1 \in 1..n /\ m[1] \in 1..h
      BY <2>3, <2>4
    <3>2. h # 0 /\ frames[w] # << >>
      BY <2>3, <3>1
    <3>3. frames[w][h].at = "join" /\ h \in 1..h
      BY <2>3, <3>2 DEF Seeking, InFrame
    <3>4. h < m[1]
      BY <2>4, <3>1, <3>3
    <3> QED BY <2>3, <3>1, <3>4
  <2>7. ToSet(deques[w].jobs) \subseteq Owned
    <3> SUFFICES ASSUME NEW q \in ToSet(list) PROVE q \in Owned
      BY <2>2 DEF Jobs
    <3>1. DOMAIN list = 1..n
      BY <2>2, <2>3, LenProperties
    <3>2. PICK j \in 1..n : q = list[j]
      BY <3>1 DEF ToSet
    <3>3. j \in Int /\ IsToken(w, j) /\ Token(w, j) = q
      BY <2>2, <2>3, <3>2 DEF IsToken, Token
    <3> QED BY <2>0, <3>3 DEF TokenInv
  <2>8. \A f \in ToSet(frames[w]) : f.stolen => f.range \in Owned
    <3> SUFFICES ASSUME NEW f \in ToSet(frames[w]), f.stolen PROVE f.range \in Owned
      OBVIOUS
    <3>1. DOMAIN frames[w] = 1..h
      BY <2>2, <2>3, LenProperties DEF Height
    <3>2. PICK p \in 1..h : f = frames[w][p]
      BY <3>1 DEF ToSet
    <3>3. PICK j : j = -p
      OBVIOUS
    <3>4. j \in Int /\ j < 0 /\ -j = p
      BY <2>3, <3>2, <3>3
    <3>5. IsToken(w, j) /\ Token(w, j) = f.range
      BY <2>2, <3>2, <3>4 DEF IsToken, Token
    <3> QED BY <2>0, <3>4, <3>5 DEF TokenInv
  <2> QED BY <2>5, <2>6, <2>7, <2>8
<1> QED BY <1>1, SchedulerInvariant, PTL
=============================================================================
