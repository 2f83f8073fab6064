---------------------------- MODULE IntegerSort ----------------------------
(***************************************************************************)
(* ParlayLib's integer sort (integer_sort.h) and group_by_index on top of  *)
(* it (group_by.h): a radix sort from the top bits down that recurses into *)
(* the buckets, which are sorted in any order, and that sorts small ones   *)
(* from the bottom up.  The elements travel between the caller's array and *)
(* temporary ones; every level swaps the roles of the arrays.  They are    *)
(* relocated: written to memory that must not hold an element, and gone    *)
(* from where they were.  The counting sort of a level is taken as what    *)
(* BlockedPasses shows it to be: stable, into the output.                  *)
(***************************************************************************)
EXTENDS Naturals, Sequences, FiniteSets, TLC

CONSTANTS
  SortCalls,      \* calls: [op, keys, num_buckets]
  radix,          \* bits of a round, and of an outer bucket
  base_bits,      \* keys of so few bits take one counting sort
  PARLAY_INTEGER_SORT_BASE_CASE_SIZE,
  kParallelism    \* parallelism below 1/kParallelism sorts sequentially

VARIABLES
  call,
  mem,            \* array -> position -> element <<key, id>>, Uninit or Bad
  tasks,          \* what is still to be sorted
  groups          \* group_by_index: its result

vars == <<call, mem, tasks, groups>>

Uninit == <<>>    \* memory without an element
Bad == <<0>>      \* an element was overwritten, or there was none to move

n == Len(call.keys)
Position == 0..(n - 1)
log2_up(x) == CHOOSE b \in 0..x : 2^b >= x /\ (b = 0 \/ 2^(b - 1) < x)
Largest == CHOOSE x \in {0} \cup {call.keys[i] : i \in 1..n} : \A i \in 1..n : call.keys[i] <= x

-----------------------------------------------------------------------------
(* Moving elements.                                                        *)

Put(there, element) == IF there # Uninit \/ element \in {Uninit, Bad} THEN Bad ELSE element

\* uninitialized_relocate_n, assign_uninitialized.
Moved(m, dst, src, lo, hi, copy) ==
  IF dst = src THEN m
  ELSE [m EXCEPT ![dst] = [p \in Position |-> IF p \in lo..(hi - 1)
                                              THEN Put(m[dst][p], m[src][p]) ELSE @[p]],
                 ![src] = [p \in Position |-> IF p \in lo..(hi - 1) /\ ~copy
                                              THEN Uninit ELSE @[p]]]

Digit(element, shift, bits) ==
  IF element \in {Uninit, Bad} THEN 0 ELSE (element[1] \div 2^shift) % 2^bits

\* seq_count_sort_, count_sort: stable, by some bits of the keys.
Sorted(m, dst, src, lo, hi, shift, bits, copy) ==
  LET D == [p \in lo..(hi - 1) |-> Digit(m[src][p], shift, bits)]
      To == [p \in lo..(hi - 1) |->
               lo + Cardinality({q \in lo..(hi - 1) : D[q] < D[p] \/ (D[q] = D[p] /\ q < p)})]
      From == [t \in lo..(hi - 1) |-> CHOOSE p \in lo..(hi - 1) : To[p] = t]
  IN  [m EXCEPT ![dst] = [p \in Position |-> IF p \in lo..(hi - 1)
                                             THEN Put(m[dst][p], m[src][From[p]]) ELSE @[p]],
                ![src] = [p \in Position |-> IF p \in lo..(hi - 1) /\ ~copy
                                             THEN Uninit ELSE @[p]]]

-----------------------------------------------------------------------------
\* A call of integer_sort_r; share is its parallelism, a quotient.
SortTask(In, Out, Tmp, lo, hi, key_bits, inplace, copy, share) ==
  [kind |-> "sort", In |-> In, Out |-> Out, Tmp |-> Tmp, lo |-> lo, hi |-> hi,
   bits |-> key_bits, inplace |-> inplace, copy |-> copy, share |-> share]

\* A call of seq_radix_sort_ that has done some rounds.
RadixTask(A, B, lo, hi, bits, inplace) ==
  [kind |-> "radix", In |-> A, Out |-> B, lo |-> lo, hi |-> hi, bits |-> bits,
   inplace |-> inplace, round |-> 0]

\* integer_sort_inplace, integer_sort: with 0 bits the largest key tells.
Init ==
  /\ call \in SortCalls
  /\ LET bits == IF call.op = "integer_sort_inplace" THEN 0 ELSE log2_up(call.num_buckets)
         key_bits == IF bits = 0 THEN log2_up(Largest + 1) ELSE bits
         inplace == call.op = "integer_sort_inplace"
     IN  tasks = {SortTask("In", "Out", IF inplace THEN "In" ELSE "Tmp", 0, n, key_bits,
                           inplace, ~inplace, <<1, 1>>)}
  /\ mem = [a \in {"In", "Out", "Tmp"} |->
              [p \in Position |-> IF a = "In" THEN <<call.keys[p + 1], p>> ELSE Uninit]]
  /\ groups = <<>>

Few(t) == \/ t.hi - t.lo < PARLAY_INTEGER_SORT_BASE_CASE_SIZE
          \/ t.share[1] * kParallelism < t.share[2]

\* Keys of no bits: nothing to sort, but the elements may have to move.
NoBits(t) ==
  /\ t.kind = "sort" /\ t.bits = 0
  /\ mem' = IF t.inplace THEN mem ELSE Moved(mem, t.Out, t.In, t.lo, t.hi, t.copy)
  /\ tasks' = tasks \ {t}
  /\ UNCHANGED <<call, groups>>

\* Mutant: out of place, the array the rounds start in is picked the other way.
SmallSort_Parity(t) ==
  /\ t.kind = "sort" /\ t.bits > 0 /\ Few(t)
  /\ LET odd == ((t.bits - 1) \div radix) % 2 = 1
         A == IF t.inplace THEN t.In ELSE IF odd THEN t.Tmp ELSE t.Out
         B == IF t.inplace \/ odd THEN t.Out ELSE t.Tmp
     IN  /\ mem' = IF t.inplace THEN mem ELSE Moved(mem, A, t.In, t.lo, t.hi, t.copy)
         /\ tasks' = (tasks \ {t}) \cup {RadixTask(A, B, t.lo, t.hi, t.bits, TRUE)}
  /\ UNCHANGED <<call, groups>>

\* seq_radix_sort: out of place, the elements are moved to one of the other
\* arrays first, so that the rounds end where they should.
SmallSort(t) ==
  /\ t.kind = "sort" /\ t.bits > 0 /\ Few(t)
  /\ LET odd == ((t.bits - 1) \div radix) % 2 = 1
         A == IF t.inplace THEN t.In ELSE IF odd THEN t.Tmp ELSE t.Out
         B == IF t.inplace \/ odd THEN t.Out ELSE t.Tmp
     IN  /\ mem' = IF t.inplace THEN mem ELSE Moved(mem, A, t.In, t.lo, t.hi, t.copy)
         /\ tasks' = (tasks \ {t})
                       \cup {RadixTask(A, B, t.lo, t.hi, t.bits, t.inplace \/ ~odd)}
  /\ UNCHANGED <<call, groups>>

Rounds(t) == IF t.lo = t.hi THEN 0 ELSE (t.bits + radix - 1) \div radix

\* seq_radix_sort_: one round, from In to Out or back, ...
Round(t) ==
  /\ t.kind = "radix" /\ t.round < Rounds(t)
  /\ LET shift == t.round * radix
         bits == IF t.bits - shift < radix THEN t.bits - shift ELSE radix
         swapped == t.round % 2 = 1
     IN  mem' = IF swapped THEN Sorted(mem, t.In, t.Out, t.lo, t.hi, shift, bits, FALSE)
                ELSE Sorted(mem, t.Out, t.In, t.lo, t.hi, shift, bits, FALSE)
  /\ tasks' = (tasks \ {t}) \cup {[t EXCEPT !.round = @ + 1]}
  /\ UNCHANGED <<call, groups>>

\* ... and at the end the elements go to the array they are wanted in.
LastMove(t) ==
  /\ t.kind = "radix" /\ t.round = Rounds(t)
  /\ LET swapped == t.round % 2 = 1
     IN  mem' = CASE t.lo = t.hi -> mem
                  [] swapped /\ t.inplace -> Moved(mem, t.In, t.Out, t.lo, t.hi, FALSE)
                  [] ~swapped /\ ~t.inplace -> Moved(mem, t.Out, t.In, t.lo, t.hi, FALSE)
                  [] OTHER -> mem
  /\ tasks' = tasks \ {t}
  /\ UNCHANGED <<call, groups>>

\* Whether count_sort may say that all are in one bucket and have not moved: it
\* looks at that only when it runs in parallel.
OneBucket(t, shift, bits) ==
  LET D == {Digit(mem[t.In][p], shift, bits) : p \in t.lo..(t.hi - 1)}
  IN  IF Cardinality(D) = 1 THEN BOOLEAN ELSE {FALSE}

\* Few bits: one counting sort, and back if the sort is in place.
FewBits(t) ==
  /\ t.kind = "sort" /\ t.bits > 0 /\ ~Few(t) /\ t.bits <= base_bits
  /\ \E one_bucket \in IF t.inplace THEN OneBucket(t, 0, t.bits) ELSE {FALSE} :
       mem' = IF one_bucket THEN mem
              ELSE LET m == Sorted(mem, t.Out, t.In, t.lo, t.hi, 0, t.bits, t.copy)
                   IN  IF t.inplace THEN Moved(m, t.In, t.Out, t.lo, t.hi, FALSE) ELSE m
  /\ tasks' = tasks \ {t}
  /\ UNCHANGED <<call, groups>>

\* Many bits: by the top bits into Out, then every bucket on its own, from Out
\* into Tmp or within Out; all in one bucket, the lower bits are tried.
ManyBits(t) ==
  /\ t.kind = "sort" /\ t.bits > base_bits /\ ~Few(t)
  /\ LET shift == t.bits - radix
         m == Sorted(mem, t.Out, t.In, t.lo, t.hi, shift, radix, t.copy)
         Held(d) == {p \in t.lo..(t.hi - 1) : Digit(mem[t.In][p], shift, radix) = d}
         start == [d \in 0..(2^radix) |->
                     t.lo + Cardinality(UNION {Held(e) : e \in {x \in 0..(2^radix - 1) : x < d}})]
         sub == {SortTask(t.Out, t.Tmp, t.Out, start[d], start[d + 1], shift, ~t.inplace, FALSE,
                          <<t.share[1] * (start[d + 1] - start[d]),
                            t.share[2] * (t.hi - t.lo + 1)>>) : d \in 0..(2^radix - 1)}
     IN  \E one_bucket \in OneBucket(t, shift, radix) :
           IF one_bucket
           THEN /\ tasks' = (tasks \ {t}) \cup {[t EXCEPT !.bits = shift]}
                /\ UNCHANGED mem
           ELSE /\ mem' = m
                /\ tasks' = (tasks \ {t}) \cup sub
  /\ UNCHANGED <<call, groups>>

\* group_by_index: the bucket of a key starts where the sorted keys change to
\* it; a bucket without elements stays empty.
Group ==
  /\ call.op = "group_by_index" /\ tasks = {} /\ groups = <<>>
  /\ LET key == [p \in Position |-> mem["Out"][p][1]]
         starts == {p \in Position : p = 0 \/ key[p - 1] < key[p]}
         End(s) == CHOOSE e \in (starts \cup {n}) : e > s /\ \A x \in starts : x <= s \/ x >= e
     IN  groups' = [b \in 0..(call.num_buckets - 1) |->
                      LET s == {p \in starts : key[p] = b}
                      IN  IF s = {} THEN <<>>
                          ELSE LET first == CHOOSE p \in s : TRUE
                               IN  [i \in 1..(End(first) - first) |-> mem["Out"][first + i - 1][2]]]
  /\ UNCHANGED <<call, mem, tasks>>

Next == \/ Group
        \/ \E t \in tasks : \/ NoBits(t) \/ SmallSort(t) \/ Round(t) \/ LastMove(t)
                            \/ FewBits(t) \/ ManyBits(t)

Spec == Init /\ [][Next]_vars
-----------------------------------------------------------------------------
Before(p, q) == call.keys[p + 1] < call.keys[q + 1]
                \/ (call.keys[p + 1] = call.keys[q + 1] /\ p < q)
Rank(p) == Cardinality({q \in Position : Before(q, p)})
Result == IF call.op = "integer_sort_inplace" THEN "In" ELSE "Out"

(* integer_sort_r, seq_radix_sort, group_by_index: no element is written over  *)
(* another or read where there is none, the result is sorted and stable and in *)
(* the caller's array, an input that is not sorted in place is as before and   *)
(* the temporary arrays are empty (they are freed without a destructor).       *)
SortsAndCleansUp ==
  /\ \A a \in DOMAIN mem : \A p \in Position : mem[a][p] # Bad
  /\ tasks = {} =>
       \A p \in Position :
         /\ mem[Result][Rank(p)] = <<call.keys[p + 1], p>>
         /\ Result = "Out" => mem["In"][p] = <<call.keys[p + 1], p>>
         /\ \A a \in DOMAIN mem \ {"In", Result} : mem[a][p] = Uninit
  /\ groups # <<>> =>
       \A b \in DOMAIN groups : \A i \in 1..Len(groups[b]) :
         /\ call.keys[groups[b][i] + 1] = b
         /\ i < Len(groups[b]) => groups[b][i] < groups[b][i + 1]
         /\ Len(groups[b]) = Cardinality({p \in Position : call.keys[p + 1] = b})
=============================================================================
