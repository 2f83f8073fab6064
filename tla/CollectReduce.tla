--------------------------- MODULE CollectReduce ---------------------------
(***************************************************************************)
(* ParlayLib's remove_duplicates (group_by.h) on collect_reduce_sparse     *)
(* (collect_reduce.h), by which a level of the cluster tree drops the      *)
(* copies that a merged cluster got.  A short input goes into one hash     *)
(* table with linear probing.  A long one is first distributed over        *)
(* buckets by the hash of its keys, where a key that turns up often in a   *)
(* sample gets a bucket of its own; the buckets are then reduced in any    *)
(* order, and their results are put side by side.                          *)
(*                                                                         *)
(* The elements are their own keys.  The counting sort is taken as what    *)
(* BlockedPasses shows it to be.                                           *)
(***************************************************************************)
EXTENDS Naturals, Sequences, FiniteSets, SequencesExt

CONSTANTS
  DupCalls,       \* calls: [keys, hash], hash is a function of the keys
  SparseLimit,    \* inputs below it are not distributed (10000)
  bits,           \* 2^bits buckets
  copy_cutoff     \* copies in the sample that make a key a heavy hitter

VARIABLES
  call,
  stage,          \* "start", "tables", "done"
  heavy,          \* keys with a bucket of their own, by bucket
  block,          \* bucket -> its elements
  next,           \* bucket -> element that is hashed next
  table,          \* bucket -> its hash table
  result          \* bucket, then the whole -> keys

vars == <<call, stage, heavy, block, next, table, result>>

num_buckets == 2^bits
Buckets == 0..(num_buckets - 1)
None == <<>>      \* a slot without a key; keys are numbers

\* The slot linear probing finds for key: its own or the first free one.
Slot(t, key) ==
  LET size == Cardinality(DOMAIN t)
      At(d) == (call.hash[key] + d) % size
      hits == {d \in 0..(size - 1) : t[At(d)] \in {<<key>>, None}}
  IN  At(CHOOSE d \in hits : \A e \in hits : d <= e)

-----------------------------------------------------------------------------
Init ==
  /\ call \in DupCalls
  /\ stage = "start"
  /\ heavy = <<>> /\ block = <<>> /\ next = <<>> /\ table = <<>> /\ result = <<>>

\* The hash tables of a set of buckets before anything is hashed.
Ready(blocks) ==
  /\ block' = blocks
  /\ next' = [b \in DOMAIN blocks |-> 1]
  /\ table' = [b \in DOMAIN blocks |-> [s \in 0..((3 * Len(blocks[b])) \div 2 - 1) |-> None]]
  /\ result' = [b \in DOMAIN blocks |-> <<>>]
  /\ stage' = "tables"

\* collect_reduce_sparse_: a short input is one bucket.
Short ==
  /\ stage = "start" /\ Len(call.keys) < SparseLimit
  /\ Ready(0 :> call.keys)
  /\ UNCHANGED <<call, heavy>>

\* get_bucket: the keys of the sample, counted in a table of four times as many
\* slots, are looked through slot by slot; the first heavy one that hashes to a
\* place of the second table, which does not probe, gets the next bucket.
HeavyHitters(sample) ==
  LET size == 4 * num_buckets
      seen[i \in 0..num_buckets] ==
        IF i = 0 THEN [s \in 0..(size - 1) |-> None]
        ELSE LET t == seen[i - 1]
                 key == call.keys[sample[i - 1] + 1]
             IN  [t EXCEPT ![Slot(t, key)] = <<key>>]
      counted == seen[num_buckets]
      Copies(key) == Cardinality({i \in DOMAIN sample : call.keys[sample[i] + 1] = key})
      keys == {k \in ToSet(call.keys) : Copies(k) >= copy_cutoff}
      slot == [k \in keys |-> CHOOSE s \in DOMAIN counted : counted[s] = <<k>>]
      Place(k) == call.hash[k] % size
      first == {k \in keys : \A l \in keys : Place(l) = Place(k) => slot[k] <= slot[l]}
  IN  SetToSortSeq(first, LAMBDA k, l : slot[k] < slot[l])

\* Mutant: keys that are not heavy also go to the buckets of the heavy ones.
Bucket_Shared(key, heavy_) ==
  IF key \in ToSet(heavy_) THEN (CHOOSE i \in DOMAIN heavy_ : heavy_[i] = key) - 1
  ELSE call.hash[key] % num_buckets

\* get_bucket::operator(): the bucket of a key.
Bucket(key, heavy_) ==
  LET hash_val == call.hash[key] % num_buckets
  IN  IF key \in ToSet(heavy_) THEN (CHOOSE i \in DOMAIN heavy_ : heavy_[i] = key) - 1
      ELSE IF hash_val < Len(heavy_)
      THEN (hash_val % (num_buckets - Len(heavy_))) + Len(heavy_)
      ELSE hash_val

\* collect_reduce_sparse_: the places of the sample are hashes of 0, 1, ...,
\* they may be any.
Distribute ==
  /\ stage = "start" /\ Len(call.keys) >= SparseLimit
  /\ \E h \in {HeavyHitters(sample) : sample \in [Buckets -> 0..(Len(call.keys) - 1)]} :
       /\ heavy' = h
       /\ Ready([b \in Buckets |-> SelectSeq(call.keys, LAMBDA k : Bucket(k, h) = b)])
  /\ UNCHANGED call

\* helper.reduce: the bucket of a heavy hitter is represented by its first one.
ReduceHeavy(b) ==
  /\ stage = "tables" /\ b < Len(heavy) /\ result[b] = <<>>
  /\ result' = [result EXCEPT ![b] = <<block[b][1]>>]
  /\ UNCHANGED <<call, stage, heavy, block, next, table>>

\* seq_collect_reduce_sparse: one element, ...
HashOne(b) ==
  /\ stage = "tables" /\ b >= Len(heavy) /\ next[b] <= Len(block[b])
  /\ LET key == block[b][next[b]]
     IN  table' = [table EXCEPT ![b][Slot(table[b], key)] = <<key>>]
  /\ next' = [next EXCEPT ![b] = @ + 1]
  /\ UNCHANGED <<call, stage, heavy, block, result>>

Entries(t) == SetToSortSeq({s \in DOMAIN t : t[s] # None}, <)

\* ... and the entries of the table in its order.
Pack(b) ==
  /\ stage = "tables" /\ b >= Len(heavy) /\ next[b] = Len(block[b]) + 1
  /\ result' = [result EXCEPT ![b] = [i \in DOMAIN Entries(table[b]) |->
                                        table[b][Entries(table[b])[i]][1]]]
  /\ next' = [next EXCEPT ![b] = @ + 1]
  /\ UNCHANGED <<call, stage, heavy, block, table>>

\* flatten, when every bucket has its result.
Flatten ==
  /\ stage = "tables"
  /\ \A b \in DOMAIN block : IF b < Len(heavy) THEN result[b] # <<>> ELSE next[b] > Len(block[b]) + 1
  /\ result' = FlattenSeq([i \in 1..Cardinality(DOMAIN block) |-> result[i - 1]])
  /\ stage' = "done"
  /\ UNCHANGED <<call, heavy, block, next, table>>

Next == \/ Short \/ Distribute \/ Flatten
        \/ \E b \in DOMAIN block : ReduceHeavy(b) \/ HashOne(b) \/ Pack(b)

Spec == Init /\ [][Next]_vars
-----------------------------------------------------------------------------
(* remove_duplicates: the result has every key of the input, once, although no *)
(* two buckets look at each other and a bucket of a heavy hitter gives only    *)
(* its first element: nothing else is ever in it.                              *)
OnceEach ==
  /\ stage = "done" => /\ ToSet(result) = ToSet(call.keys)
                       /\ IsInjective(result)
  /\ stage = "tables" => \A b \in DOMAIN block : \A i \in 1..Len(block[b]) :
       b < Len(heavy) => block[b][i] = heavy[b + 1]
=============================================================================
