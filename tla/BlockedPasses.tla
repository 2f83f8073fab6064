--------------------------- MODULE BlockedPasses ---------------------------
(***************************************************************************)
(* ParlayLib's primitives that move elements in two passes over blocks     *)
(* (sequence_ops.h, counting_sort.h, block_delayed.h, sliced_for and       *)
(* parallel_for under them): the first pass counts what each block holds   *)
(* for each bucket, then every block gets the place where its elements of  *)
(* a bucket start, the second pass writes them there.  The blocks of a     *)
(* pass run in any order.  group_by_index (the clusters of a level),       *)
(* filter (the assignments that are kept, the clusters that are not empty) *)
(* and the integer sort (the cell order of NN-descent) are made of them.   *)
(*                                                                         *)
(* Positions count from 0; a filter has two buckets, 1 for what it keeps.  *)
(***************************************************************************)
EXTENDS Naturals, Sequences, FiniteSets, Functions, TLC

CONSTANTS
  Calls,          \* calls: [op, in, keys, num_buckets, skip_if_in_one], op one of
                  \* "filter", "block_filter", "count_sort", "group_by_small_int"
  block_size_,    \* _block_size
  SEQ_THRESHOLD,
  kPerBucket,     \* elements of a block: max(num_buckets * kPerBucket,
  kPerBlock       \*                          kPerBlock)

VARIABLES
  call,
  pass,           \* "count", "offsets", "write", "done"
  blocks,         \* blocks of the pass that are still to run
  counts,         \* block -> bucket -> elements
  offsets,        \* block -> bucket -> where its first element goes
  cells,          \* output: cell -> value, a cell is <<bucket or 0, position>>
  twice,          \* a cell was written that had been written
  moved           \* FALSE: the elements were left in the input

vars == <<call, pass, blocks, counts, offsets, cells, twice, moved>>

n == Len(call.in)
Bucket == 0..(call.num_buckets - 1)
Key(p) == call.keys[p + 1]
IsFilter == call.op \in {"filter", "block_filter"}
Kept(p) == IsFilter => Key(p) = 1

\* num_blocks, sliced_for.
Sliced(size) == IF n = 0 THEN 0 ELSE 1 + ((n - 1) \div size)

\* count_sort_, group_by_small_int: as many blocks as keep the counts cheap.
Share == LET a == call.num_buckets * kPerBucket IN IF a > kPerBlock THEN a ELSE kPerBlock
num_blocks == IF IsFilter THEN Sliced(block_size_) ELSE 1 + (n \div Share)
block_size == IF IsFilter THEN block_size_ ELSE ((n - 1) \div num_blocks) + 1

Least(a, b) == IF a < b THEN a ELSE b

\* Mutant: blocks of n / num_blocks elements, the remainder is left out.
Block_Floor(i) == {p \in 0..(n - 1) : i * (n \div num_blocks) <= p /\ p < (i + 1) * (n \div num_blocks)}

\* The positions of block i.
Block(i) == {p \in 0..(n - 1) : Least(i * block_size, n) <= p
                                /\ p < Least(i * block_size + block_size, n)}

In(P, b) == {p \in P : Key(p) = b}

\* scan_serial and scan_ with plus: the exclusive prefix sums of f.  With more
\* than two blocks the sums of the blocks are scanned first.
SumOver(f, S) == FoldFunctionOnSet(LAMBDA x, y : x + y, 0, f, S)
scan_serial(f, from, to, offset) ==
  [i \in from..(to - 1) |-> offset + SumOver(f, from..(i - 1))]
scan_(f, m) ==
  LET l == IF m = 0 THEN 0 ELSE 1 + ((m - 1) \div block_size_)
      End(j) == Least((j + 1) * block_size_, m)
      sums == [j \in 0..(l - 1) |-> SumOver(f, (j * block_size_)..(End(j) - 1))]
      total == scan_serial(sums, 0, l, 0)
  IN  IF l <= 2 THEN scan_serial(f, 0, m, 0)
      ELSE [i \in 0..(m - 1) |-> LET j == i \div block_size_
                                 IN  scan_serial(f, j * block_size_, End(j), total[j])[i]]

-----------------------------------------------------------------------------
Init ==
  /\ call \in Calls
  /\ pass = "count" /\ blocks = 0..(num_blocks - 1)
  /\ counts = <<>> /\ offsets = <<>> /\ cells = <<>>
  /\ twice = FALSE /\ moved = TRUE

\* count_sort_: few elements or one block are sorted by one worker,
\* group_by_small_int and filter have no such case.
Sequential == call.op = "count_sort" /\ (n < SEQ_THRESHOLD \/ num_blocks = 1)

\* seq_count_sort_: counts, then the end of each bucket, then seq_write_down_
\* from the last element to the first.
SeqCountSort ==
  /\ pass = "count" /\ Sequential
  /\ LET count == [b \in Bucket |-> Cardinality(In(0..(n - 1), b))]
         end == [b \in Bucket |-> SumOver(count, 0..b)]
         At(p) == end[Key(p)] - Cardinality(In(p..(n - 1), Key(p)))
         target == [p \in 0..(n - 1) |-> At(p)]
     IN  /\ cells' = [c \in {<<0, target[p]>> : p \in 0..(n - 1)} |->
                        call.in[(CHOOSE p \in 0..(n - 1) : target[p] = c[2]) + 1]]
         /\ twice' = ~IsInjective(target)
  /\ pass' = "done"
  /\ blocks' = {}
  /\ UNCHANGED <<call, counts, offsets, moved>>

\* seq_count_, sum_bools_serial
Counted(i) == [b \in Bucket |-> Cardinality(In(Block(i), b))]

\* The first pass of each of them, the one of two buckets included: one block.
CountBlock(i) ==
  /\ pass = "count" /\ ~Sequential
  /\ i \in blocks
  /\ counts' = (i :> Counted(i)) @@ counts
  /\ blocks' = blocks \ {i}
  /\ UNCHANGED <<call, pass, offsets, cells, twice, moved>>

\* Where the blocks' elements go.  A filter and two buckets take it from one
\* scan over the blocks, the others go down the blocks for each bucket, which
\* starts at 0 in a sequence of its own or where the buckets before it end.
Before(i, b) == SumOver([j \in 0..(num_blocks - 1) |-> counts[j][b]], 0..(i - 1))
BlockScan(b) == scan_([j \in 0..(num_blocks - 1) |-> counts[j][b]], num_blocks)
total == [b \in Bucket |-> SumOver([j \in 0..(num_blocks - 1) |-> counts[j][b]],
                                   0..(num_blocks - 1))]
bucket_offsets == scan_(total, call.num_buckets)

\* A filter keeps its elements side by side; block_filter first copies those
\* of a block to a sequence of their own.
FilterStart(i) == BlockScan(1)[i]
CopiedStart(i) == BlockScan(1)[i]
SortStart(i, b) == bucket_offsets[b] + Before(i, b)
PairStart(i, b) == IF b = 0 THEN BlockScan(0)[i] ELSE i * block_size - BlockScan(0)[i]
GroupStart(i, b) == Before(i, b)

StartOf(i, b) ==
  CASE call.op = "filter" -> FilterStart(i)
    [] call.op = "block_filter" -> CopiedStart(i)
    [] call.op = "count_sort" -> SortStart(i, b)
    [] call.op = "group_by_small_int" ->
         IF call.num_buckets = 2 THEN PairStart(i, b) ELSE GroupStart(i, b)

\* With skip_if_in_one the elements of a single bucket stay where they are.
Offsets ==
  /\ pass = "count" /\ ~Sequential
  /\ blocks = {}
  /\ IF call.op = "count_sort" /\ call.skip_if_in_one
          /\ Cardinality({b \in Bucket : total[b] > 0}) = 1
     THEN moved' = FALSE /\ pass' = "done" /\ UNCHANGED <<blocks, offsets>>
     ELSE /\ offsets' = [i \in 0..(num_blocks - 1) |-> [b \in Bucket |-> StartOf(i, b)]]
          /\ pass' = "write" /\ blocks' = 0..(num_blocks - 1)
          /\ UNCHANGED moved
  /\ UNCHANGED <<call, counts, cells, twice>>

Cell(b, at) == <<IF call.op = "group_by_small_int" THEN b ELSE 0, at>>

\* seq_write_, pack_serial_at: where the elements of P, one block's, go.
Targets(i, P) ==
  [p \in P |-> Cell(Key(p), offsets[i][Key(p)] + Cardinality({q \in In(P, Key(p)) : q < p}))]

\* The second pass: one block.
WriteBlock(i) ==
  /\ pass = "write"
  /\ i \in blocks
  /\ LET mine == {p \in Block(i) : Kept(p)}
         target == Targets(i, mine)
     IN  /\ cells' = [c \in Range(target) |-> call.in[(CHOOSE p \in mine : target[p] = c) + 1]]
                       @@ cells
         /\ twice' = (twice \/ Range(target) \cap DOMAIN cells # {} \/ ~IsInjective(target))
  /\ blocks' = blocks \ {i}
  /\ UNCHANGED <<call, pass, counts, offsets, moved>>

Return ==
  /\ pass = "write" /\ blocks = {}
  /\ pass' = "done"
  /\ UNCHANGED <<call, blocks, counts, offsets, cells, twice, moved>>

Next == \/ SeqCountSort \/ Offsets \/ Return
        \/ \E i \in blocks : CountBlock(i) \/ WriteBlock(i)

Spec == Init /\ [][Next]_vars
-----------------------------------------------------------------------------
\* What one loop over the elements would give: those of a bucket in the order
\* of the input, the buckets side by side or one after the other.
InOrder(P) == [p \in P |-> Cardinality({q \in P : q < p})]
Expected ==
  LET all == 0..(n - 1)
      Place(p) ==
        CASE IsFilter -> <<0, InOrder(In(all, 1))[p]>>
          [] call.op = "group_by_small_int" -> <<Key(p), InOrder(In(all, Key(p)))[p]>>
          [] OTHER -> <<0, Cardinality({q \in all : Key(q) < Key(p)})
                           + InOrder(In(all, Key(p)))[p]>>
      kept == {p \in all : Kept(p)}
  IN  [c \in {Place(p) : p \in kept} |-> call.in[(CHOOSE p \in kept : Place(p) = c) + 1]]

(* filter, count_sort and group_by_small_int: whatever the blocks are and in   *)
(* whatever order they run, no two write one cell of the uninitialized output  *)
(* and the output is the stable one of a plain loop.                           *)
BlocksAgree ==
  /\ ~twice
  /\ pass = "done" => IF moved THEN cells = Expected
                      ELSE \A p, q \in 0..(n - 1) : Key(p) = Key(q)
=============================================================================
