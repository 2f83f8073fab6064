---------------------------- MODULE MC_Parlaylib ----------------------------
(***************************************************************************)
(* Parts of ParlayLib and the engine's progress counters, each on its own. *)
(* Structures that workers share without a lock: the deque a worker and    *)
(* its thieves take jobs from, the stack of free lists, the block          *)
(* allocator on top of it, the phase-concurrent hash table (which no file  *)
(* of the engine includes) and the progress counters.  Primitives whose    *)
(* workers share an array: passes over blocks, the integer sort,           *)
(* remove_duplicates.  And the container everything is kept in.  They      *)
(* share nothing, so a behaviour is one of the nine, picked at the start;  *)
(* the others stay idle.                                                   *)
(***************************************************************************)
EXTENDS Naturals, FiniteSets, Sequences, TLC

CONSTANTS
    Worker, Thread, nullptr,
    q_size, MaxJobs,                \* WorkStealingDeque
    Address, Value, threshold,      \* HazptrStack
    max_blocks, list_length,        \* BlockAllocator
    table_m,                        \* HashTable
    Leaves, est_total_leaves,       \* Progress
    block_size_, SEQ_THRESHOLD, kPerBucket, kPerBlock,                  \* BlockedPasses
    radix, base_bits, PARLAY_INTEGER_SORT_BASE_CASE_SIZE, kParallelism, \* IntegerSort
    SparseLimit, bucket_bits, copy_cutoff,                              \* CollectReduce
    Element, short_capacity, header, pool_sizes,                        \* SequenceStorage
    MaxBlocks, MaxCells, MaxLength, MaxCalls

VARIABLES
    part,
    bot, age, deq, pushed, owner, thief, handed,
    head, node, announcements, retired, hazptr_call, held,
    next, local_lists, global_stack, allocated, used,
    TA, phase, todo, table_call, inserted, deleted,
    leaves_done_, next_milestone_, left, pc, done, expected, claimed,
    pass_call, pass, blocks, counts, offsets, cells, twice, moved,
    sort_call, mem, tasks, groups,
    dup_call, stage, heavy, buckets, dup_next, table, result,
    kind, w, want, calls

\* Four keys that collide around the end of the table.
Key == 1..4
Hash == [v \in Key |-> CASE v = 2 -> table_m - 2 [] OTHER -> table_m - 1]
Inserts == {f \in [Worker -> SUBSET Key] : \A x \in Worker : Cardinality(f[x]) \in {2, 3}}
Deletes == {f \in [Worker -> SUBSET Key] : \A x \in Worker : Cardinality(f[x]) = 2}

\* Sequences of keys up to top, of the given lengths.
Keyed(top, lengths) == UNION {[1..l -> 0..top] : l \in lengths}

\* Filters from no element to four blocks, groups of one, two and three
\* buckets, counting sorts of three that may leave their input as it is.
PassCall(op, keys, num_buckets, skip) ==
  [op |-> op, in |-> [i \in DOMAIN keys |-> 10 * i], keys |-> keys,
   num_buckets |-> num_buckets, skip_if_in_one |-> skip]
PassCalls ==
  {PassCall(op, f, 2, FALSE) : op \in {"filter", "block_filter"},
     f \in Keyed(1, {0, 1, 2, 3, 5}) \cup {g \in Keyed(1, {7}) : g[1] = g[4]}}
  \cup {PassCall("group_by_small_int", f, 2, FALSE) : f \in Keyed(1, {5, 6})}
  \cup {PassCall("group_by_small_int", f, 1, FALSE) : f \in Keyed(0, {2, 6})}
  \cup {PassCall("group_by_small_int", f, 3, FALSE) :
          f \in {g \in Keyed(2, {10}) : \A i \in 3..10 : g[i] = g[i - 2]}}
  \cup {PassCall("count_sort", f, 3, s) : s \in BOOLEAN, f \in Keyed(2, {0, 1, 3, 4, 5})}

\* Keys of up to three bits, in place and as the keys of groups.
SortCall(op, keys, num_buckets) == [op |-> op, keys |-> keys, num_buckets |-> num_buckets]
SortCalls ==
  {SortCall("integer_sort_inplace", f, 0) :
     f \in Keyed(7, {0, 1, 2, 3}) \cup Keyed(3, {4}) \cup [1..5 -> {0, 5, 6}]}
  \cup {SortCall("group_by_index", f, 3) : f \in Keyed(2, {0, 1, 2, 3, 4})}
  \cup {SortCall("group_by_index", f, 8) : f \in [1..4 -> {0, 1, 4, 6}]}
  \cup {SortCall("group_by_index", <<0>>, 1)}

\* Hashes that spread, that collide in the second table only, that all collide.
DupHashes == {<<5, 21, 16, 2>>, <<1, 2, 3, 4>>, <<1, 1, 1, 1>>}
DupCalls ==
  {[keys |-> f, hash |-> h] : h \in DupHashes, f \in UNION {[1..l -> 1..3] : l \in 0..3}}
  \cup {[keys |-> f, hash |-> h] : h \in DupHashes,
          f \in {<<1, 2, 1, 3>>, <<2, 2, 1, 1>>, <<3, 1, 3, 2>>, <<4, 3, 2, 1, 4>>,
                 <<2, 1, 2, 1, 4, 3>>}}

D == INSTANCE WorkStealingDeque WITH Thief <- Worker
S == INSTANCE HazptrStack WITH call <- hazptr_call
B == INSTANCE BlockAllocator
T == INSTANCE HashTable WITH m <- table_m, call <- table_call
P == INSTANCE Progress
F == INSTANCE BlockedPasses WITH Calls <- PassCalls, call <- pass_call
I == INSTANCE IntegerSort WITH call <- sort_call
R == INSTANCE CollectReduce WITH bits <- bucket_bits, call <- dup_call, block <- buckets, next <- dup_next
Q == INSTANCE SequenceStorage WITH sizes <- pool_sizes, Name <- Worker, tmp <- nullptr

ASSUME PartsAssumption ==
    /\ D!DequeAssumption /\ S!HazptrAssumption /\ B!BlockAssumption
    /\ T!HashTableAssumption /\ P!ProgressAssumption

dequeVars == <<bot, age, deq, pushed, owner, thief, handed>>
stackVars == <<head, node, announcements, retired, hazptr_call, held>>
blockVars == <<next, local_lists, global_stack, allocated, used>>
tableVars == <<TA, phase, todo, table_call, inserted, deleted>>
progressVars == <<leaves_done_, next_milestone_, left, pc, done, expected, claimed>>
passVars == <<pass_call, pass, blocks, counts, offsets, cells, twice, moved>>
sortVars == <<sort_call, mem, tasks, groups>>
dupVars == <<dup_call, stage, heavy, buckets, dup_next, table, result>>
sequenceVars == <<kind, w, want, calls>>

sharedVars == <<dequeVars, stackVars, blockVars, tableVars, progressVars>>
arrayVars == <<passVars, sortVars, dupVars, sequenceVars>>

Idle == "idle"

Init ==
    /\ part \in {"deque", "stack", "blocks", "table", "progress",
                 "passes", "sort", "duplicates", "sequence"}
    /\ D!Init
    /\ IF part = "stack" THEN S!Init
       ELSE /\ head = Idle /\ node = Idle /\ announcements = Idle
            /\ retired = Idle /\ hazptr_call = Idle /\ held = Idle
    /\ IF part = "blocks" THEN B!Init
       ELSE next = Idle /\ local_lists = Idle /\ global_stack = Idle /\ allocated = Idle /\ used = Idle
    /\ IF part = "table" THEN T!Init
       ELSE /\ TA = Idle /\ phase = Idle /\ todo = Idle /\ table_call = Idle
            /\ inserted = Idle /\ deleted = Idle
    /\ IF part = "progress" THEN P!Init
       ELSE /\ leaves_done_ = Idle /\ next_milestone_ = Idle /\ left = Idle /\ pc = Idle
            /\ done = Idle /\ expected = Idle /\ claimed = Idle
    /\ IF part = "passes" THEN F!Init
       ELSE /\ pass_call = Idle /\ pass = Idle /\ blocks = Idle /\ counts = Idle
            /\ offsets = Idle /\ cells = Idle /\ twice = Idle /\ moved = Idle
    /\ IF part = "sort" THEN I!Init
       ELSE sort_call = Idle /\ mem = Idle /\ tasks = Idle /\ groups = Idle
    /\ IF part = "duplicates" THEN R!Init
       ELSE /\ dup_call = Idle /\ stage = Idle /\ heavy = Idle /\ buckets = Idle
            /\ dup_next = Idle /\ table = Idle /\ result = Idle
    /\ IF part = "sequence" THEN Q!Init
       ELSE kind = Idle /\ w = Idle /\ want = Idle /\ calls = Idle

DequeStep == /\ part = "deque" /\ D!Next
             /\ UNCHANGED <<part, stackVars, blockVars, tableVars, progressVars, arrayVars>>
StackStep == /\ part = "stack" /\ S!Next
             /\ UNCHANGED <<part, dequeVars, blockVars, tableVars, progressVars, arrayVars>>
BlockStep == /\ part = "blocks" /\ B!Next
             /\ UNCHANGED <<part, dequeVars, stackVars, tableVars, progressVars, arrayVars>>
TableStep == /\ part = "table" /\ T!Next
             /\ UNCHANGED <<part, dequeVars, stackVars, blockVars, progressVars, arrayVars>>
ProgressStep == /\ part = "progress" /\ P!Next
                /\ UNCHANGED <<part, dequeVars, stackVars, blockVars, tableVars, arrayVars>>
PassStep == /\ part = "passes" /\ F!Next
            /\ UNCHANGED <<part, sharedVars, sortVars, dupVars, sequenceVars>>
SortStep == /\ part = "sort" /\ I!Next
            /\ UNCHANGED <<part, sharedVars, passVars, dupVars, sequenceVars>>
DupStep == /\ part = "duplicates" /\ R!Next
           /\ UNCHANGED <<part, sharedVars, passVars, sortVars, sequenceVars>>
SequenceStep == /\ part = "sequence" /\ Q!Next
                /\ UNCHANGED <<part, sharedVars, passVars, sortVars, dupVars>>

Next == \/ DequeStep \/ StackStep \/ BlockStep \/ TableStep \/ ProgressStep
        \/ PassStep \/ SortStep \/ DupStep \/ SequenceStep

Spec == Init /\ [][Next]_<<part, sharedVars, arrayVars>>

\* Thread and Address are the same three model values in the instance: the two
\* never meet, and one group of permutations serves both.  Worker also gives the
\* program's sequences their names.
Symmetry == Permutations(Worker) \cup Permutations(Address)
-----------------------------------------------------------------------------
(* push_bottom, pop_bottom and pop_top implement JobDeque: a job is handed    *)
(* out once and from an end, the race for the last one included.              *)
ImplementsJobDeque == D!ImplementsJobDeque

(* pop and scan_slots: no node of the stack is read after it was deleted.     *)
NoUseAfterDelete == part = "stack" => S!TypeOK /\ S!NoUseAfterDelete

(* push and pop: no value is lost or duplicated, and size() is right.         *)
Traded == part = "stack" => S!Traded

(* alloc and free: every block is with a caller or once in one free list.     *)
BlocksInOnePlace == part = "blocks" => B!TypeOK /\ B!BlocksInOnePlace

(* insert and deleteVal: after a phase the table holds the keys it should,    *)
(* each once, where find sees them and in the order that makes the layout     *)
(* independent of the schedule.                                               *)
HoldsTheKeys == part = "table" => T!TypeOK /\ T!HoldsTheKeys /\ T!Ordered

(* MaybeReportProgress: each line is printed once, with a count that has      *)
(* reached it, and at the end none is missing.                                *)
EachMilestoneOnce == part = "progress" => P!TypeOK /\ P!EachMilestoneOnce

(* filter, count_sort, group_by_small_int: the blocks' order does not matter, *)
(* no cell is written twice and the output is the stable one.                 *)
BlocksAgree == part = "passes" => F!BlocksAgree

(* integer_sort, group_by_index: sorted, stable, in the caller's array, and   *)
(* every element relocated once.                                              *)
SortsAndCleansUp == part = "sort" => I!SortsAndCleansUp

(* remove_duplicates: every key of the input once.                            *)
OnceEach == part = "duplicates" => R!OnceEach

(* sequence: it has the elements it should, and its memory is its own.        *)
SequencesKeepElements == part = "sequence" => Q!SequencesKeepElements
=============================================================================
