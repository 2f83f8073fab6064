# PiPNN in TLA+

A verification project for the all-kNN graph builder in this repository: TLA+
modules translated from the source (the engine under `engine/algorithms`, the
parts of ParlayLib it runs on, and `verify/compare_results.py`), TLC runs over
small instances of them, and TLAPS proofs about the table every part of the
build merges into, NN-descent, the portfolio run, the scheduler's loops, the
work-stealing deque, the lock-free stack, the block allocator and the progress
lines.

Run a configuration with `tlc -config <cfg> <MC module>.tla`; check the proofs
with `tlapm` on the eight modules named `...Proofs`. `PROJECT.json` lists runs,
the source lines of each definition, a mutant for each property, theorems,
findings and hazards.

## 1. The system

The program reads one dataset and a portfolio file. It quantizes the vectors
once (8-bit codes, and from them a 1-bit sign panel). For each portfolio line
it then builds a graph from these codes and writes a result file:

    main -> ANN: for each line -> build_topk
                                    encode, or take the cached codes
                                    multiple_clustertrees ---- merges --> table
                                    nn_descent_pass, 0..2 times - merges --> table
                                    finalize, copy, write the result file

| Component | State it keeps | Operations | Called by / talks to |
|---|---|---|---|
| Dataset input (`task_config.h`, `point_range.h`, `main`) | task fields; arena of padded rows, or a deferred file | parse the task, choose the file, read rows | main, quantizer |
| Quantizer (`rsq_encoder.cc`, `rotation.h`, `pipnn_rsq*`) | codes, scales, byte sums; thread-local decode and code buffers | flip, rotate, encode, derive the signs, dot products | kernels |
| Neighbour table (`graph.h`, `NghDistGraphHeap`) | one row per point: degree, cells, mutex | `allocate_graph`, `merge_neighbors`, `finalize`, `Neighbors` | leaves and NN-descent merge from many workers |
| Cluster trees (`pipnn.h`, `cluster`) | the recursion, buckets | `ClusterRecursively`, `SelectAndAssignLeaders`, `MergeSmallClusters`, `SplitClusterRandomly`, `multiple_clustertrees` | leader assignment; hands leaves to `LeafKNN` |
| Leader assignment (`pipnn_utils.h`) | thread-local queries and results, the list of pairs | `rsq_assign_leaders`, `rsq_assign_leaders_hamming_rescore` | cluster trees; leader kernels |
| Leader kernels (`assignleaders_rsq.cc`) | workspace of per-lane lists, result lists | `AssignToLeaders`, `AssignToLeadersTopK`, `...ConsecutiveTopK` | leader assignment |
| Leaf processing (`pipnn_utils.h`) | thread-local edge arena, counters, spill lists | `rsq_knn`, `rsq_knn_hamming_rescore` | leaf kernel; merges into the table |
| Leaf kernel (`processleaf_rsq.cc`) | panels, per-lane query lists, point lists | `ProcessLeafInit`, `ProcessLeafTopKFused` | leaf processing |
| NN-descent (`pipnn_utils.h`) | snapshot; thread-local candidates and its own table of 512 slots for seen ids | `nn_descent_pass` | reads the snapshot, merges into the table |
| Progress report (`pipnn.h`) | two relaxed atomics | `MaybeReportProgress`, `SetProgressTarget` | every finished leaf |
| Portfolio run (`neighbors.h`, `build_topk`, `neighborsTime.C`, `h5_result_writer.h`) | cached codes and panel, shared buildtime, result files | the portfolio loop | all of the above |
| Command line (`parse_command_line.h`) | an argument vector | canonical flags, options by first match | main, the portfolio loop, `build_topk` |
| Result table (`build_topk`, `h5_result_writer.h`, `compare_results.py`) | `knns`, `dists`, attributes | copy with padding, compare two runs | portfolio run; whoever compares |
| Runtime (`scheduler.h`, `work_stealing_deque.h`, `atomic_wait.h`) | deques, the wake-up counter, sleeping workers | fork, join, steal, sleep, wake, shut down | every parallel loop |
| Lock-free memory (`block_allocator.h`, `hazptr_stack.h`, `acquire_retire.h`) | local and global free lists, hazard pointers | alloc, free, push, pop | every sequence |
| Containers and primitives (`sequence.h`, `counting_sort.h`, `integer_sort.h`, `collect_reduce.h`, ...) | buffers | filter, sort, group, remove duplicates | cluster trees, leader assignment |
| ParlayLib's hash table (`hash_table.h`) | cells shared by workers | insert, delete and find in separate phases | shipped with ParlayLib; no file of the engine includes it |

What is hard about it:

- **Concurrency.** Leaves of overlapping clusters and NN-descent bodies merge
  into the same rows. The duplicate check, the degree test and the write of
  `merge_neighbors` are separate steps under a per-row mutex. Its early `break`
  is right only if each caller hands it an ascending list.
- **Lock-free code.** Owner and thieves race for the last job; a node is freed
  and comes back at the same address; a worker goes to sleep while another
  decides that nobody sleeps.
- **Thread-local buffers** survive from one leaf, block or point to the next,
  with other sizes.
- **Order.** NN-descent reads neighbour lists that other workers are rewriting;
  a snapshot is meant to make a pass independent of the schedule. Ties and the
  order of merges decide which of two equally near neighbours stays.
- **Triangular scoring and padding** in the kernels: which pair is scored where,
  what the lanes without a point do, and counters of a byte.
- **Ownership.** Sorts and containers move elements between arrays that must
  not hold one already, and destroy each exactly once.
- **Termination** of a recursion whose clusters may fail to shrink, of the
  bucket-merging loop, of a hash probe in a table of fixed size, and of a join.
- **Caching across queries.** What an earlier portfolio line made is there for
  later ones, and is or is not in the reported build time.
- **Crashes.** A result file is truncated first and written later.

What makes each component correct:

- input: the vectors are those of the dataset that the task names;
- quantizer: codes, scales and sums are those of their own point; the rotation
  keeps dot products; every micro-kernel computes the dot product of the codes;
- leader kernels and assignment: the lists are the nearest ones whatever the cut
  into blocks, panels and lanes, and each point gets its own;
- leaf kernel and its callers: no edge of a leaf is lost, none is of another;
- table: no id twice in a row; a row holds the nearest it was offered; rows only
  improve; a call looks atomic to its callers;
- cluster trees: no point is lost, leaves are small and free of duplicates, the
  recursion ends;
- NN-descent: a pass is determined by the table before it, and ends;
- portfolio: a file holds what its own line asked for and reports the whole
  encoding, whatever the order of the lines and whatever was interrupted;
- result table: a verdict on files is one on the graphs behind them;
- runtime: a loop runs each iteration once and joins when all have run; a deque
  hands out each job once; nothing is read after it was freed; blocks, keys and
  elements are where they should be, once.

## 2. The modules

`KnnHeap` is the centre; `KnnHeapAtomic` justifies that the other modules take
a merge as one step. The arrows read "uses"; `MC_Kernels`, `MC_Parlaylib` and
`MC_Build` compose the components that share no state into one run each (see
section 3).

    Nearest <- NearestTable            abstract table
       ^           ^ refined by
       |       KnnHeapAtomic -> KnnHeap <- TwoRuns (two instances)
       |             ^- KnnHeapProofs (of both)
       |- NnDescent <- NnDescentProofs
       |- LeafKnn -> LeafBatches <- ProcessLeaf -> TopKList <- LeaderTopK
             ^- LeafKnnProofs                        ^------- LeaderAssign
    RsqEncoder   RsqKernels   DatasetInput   ResultTable
    MC_Kernels         (extends LeafKnn, instances of ProcessLeaf, LeaderTopK,
                        LeaderAssign and the line above)

    Scheduler <- SchedulerProofs
    JobDeque, refined by WorkStealingDeque <- LockFreeProofs
    HazptrStack <- LockFreeProofs
    BlockAllocator <- LockFreeProofs
    HashTable  SequenceStorage  BlockedPasses  IntegerSort  CollectReduce
    Progress           (with deque, stack, allocator: MC_Parlaylib)
    MC_Parlaylib <- ParlaylibProofs (with those of deque, stack, allocator)

    ClusterTree <- ClusterTreeProofs
    MC_Build           (extends NnDescent and ClusterTree)

    Portfolio -> CommandLine
       ^- PortfolioProofs

Each `...Proofs` extends the module it is about; `LockFreeProofs` extends the
stack and has the deque and the allocator as instances.

### The table and what merges into it

**KnnHeap** (`graph.h` 96-197). `degree`, `cell` and `locks` are the table's
`tables` and `locks`. A call is `Begin`, `Lock`, then per pair `Break`, `Skip`
or `Decide` followed by `Append1` or `Replace`, then `Unlock`. `SortRow` is
`finalize`. A pair is checked and stored in different steps, so removing the
mutex shows. The binary heap is abstracted to "`neighbors[0]` is some farthest
cell": the code reads no other consequence of the heap order. `offered` is a
history variable. One pair of points may come with two distances, as happens
when float products are evaluated in two orders.

**Nearest, NearestTable, KnnHeapAtomic.** `KeptAfter` says which rows may
follow a merge; ties are left open. `NearestTable` merges whole sets at once.
`KnnHeapAtomic` adds the row as it was at `Lock` and maps `KnnHeap` to it.

**TwoRuns** puts two instances of `KnnHeap` side by side, with separate
schedules, and compares what they write.

**ClusterTree** (`pipnn.h` 42-265). `pending` holds the clusters of the
recursion that are not cut yet, `merging` the buckets inside
`MergeSmallClusters`, `leaves` the leaves of the round. Buckets are sequences,
so an id may be in one twice. The assignment to leaders is any that
LeaderAssign can return. `std::shuffle` is any permutation. Branches of the
recursion share only the table, so one at a time in any order is enough.

**LeafKnn** (`pipnn.h` 316-327, `pipnn_utils.h` 49-218). Each worker keeps
`edge_arena`, `edge_cnt` and `spill` from leaf to leaf. The variable
`HAMMING_LEAF` chooses between the two functions. A list is described by what it
is (the `leaf_k` least of the scores a row gets, in order, equal ones by index;
`ProcessLeaf` has the kernel that finds it); `std::sort` on rescored distances
may leave equal ones in any order (`SortedEdges`).

**NnDescent** (`pipnn_utils.h` 342-471, `pipnn.h` 764-793). `TakeSnapshot`,
`Collect`, `MergeForward`, `MergeReverse` and `JoinSweep`; bodies interleave at
every merge. The Hamming filter keeps the first `FilterC` candidates by Hamming
distance and id, as `nth_element` on such pairs does.

### The numbers

**RsqEncoder** (`rsq_encoder.cc`, `rotation.h`, `pipnn.h` 480-610). A point is
flipped, rotated by the stages of the fast transform (those above a vector's
width, those inside one, each under the condition the code has for it) and by
the small orthogonal matrix, and rounded. Workers encode the points of a chunk
in any order; `tl_decode` and `tl_code1` are their thread-local buffers.
Coordinates are integers and a scale is the square root of a fraction, so that
TLC can compare them exactly.

**RsqKernels** (`pipnn_rsq-inl.h`, `pipnn_rsq.cc`, `processleaf_rsq.cc`). Bytes,
words and lanes: the transposition of four points at a time, the bias of 128
and its correction, tails of a code, 1-bit codes with counts in bytes that are
widened in time. A load outside the memory it reads stops TLC.

**LeaderTopK, ProcessLeaf, TopKList, LeafBatches.** The kernels above the dot
products, on a table of scores. SIMD lanes, panels, batches and blocks keep
their loops, bounds and threshold tests; how many panels a turn of an unrolled
loop of the leaf kernel takes is left open. `LeaderTopK` has the four entry
points as the modes of a call, with the workspace that a thread keeps.

**LeaderAssign** (`pipnn_utils.h` 221-340, 472-570). Blocks on several workers,
their thread-local results, the surface list of the Hamming path, its rescoring
and margin, and the pairs that are emitted.

**DatasetInput** (`task_config.h`, `neighborsTime.C`, `point_range.h`,
`pipnn.h`). A description is a sequence of tokens in which a key is searched the
way `get_string` does; a dataset has a layout, and rows are padded in an arena
or read again in chunks.

**ResultTable** (`pipnn.h` 800-840, `h5_result_writer.h`, `compare_results.py`).
Rows of the table go into two files' `knns` and `dists`; the second half is the
comparison, config by config.

### The portfolio

**Portfolio, CommandLine.** `Tokens` writes a portfolio line the way its author
would, from a record of what is wanted; the rest of the module reads the tokens
the way the code does. The properties speak of the records. `InputAssumption`
says what a record may hold: the known spellings of a flag, and texts that are
not flags themselves, since the code would read such a text twice, as the value
of one flag and as another flag. The graph is
abstracted to the parameters that decide which graph is built (`recipe`), time
to the encoding work done. A negative number ends the program where it is read
(`badArgument`). A kill or an abort may be followed by a restart.

**Progress** (`pipnn.h` 267-314). Relaxed loads may return an old milestone, but
never one older than the worker has seen.

### The runtime

**Scheduler** (`scheduler.h`, `work_stealing_job.h`, `atomic_wait.h`). One
parallel loop forked over the workers, and the shutdown. `frames` is the call
stack of `pardo` on each worker, `deques` its jobs (a call of a deque is one
step: that is what `JobDeque` promises; `LosesRace` is a steal that comes too
late and still wakes a worker). Falling asleep and waking take one step
per shared access; a worker that waits in a join runs jobs it steals meanwhile.
The sleeping side has the waiters flag and the futex with its time-out.

**WorkStealingDeque, JobDeque.** Push, pop and steal step by step on `age` (tag
and top in one word), `bot` and the slots, refining "each job once, from an
end".

**HazptrStack, BlockAllocator.** Nodes whose addresses are reused; announcing,
checking again, retiring and scanning. The allocator's lists trade blocks over
the stack taken as atomic, which `Traded` justifies.

**HashTable.** Inserts and deletes that overlap in their own phases, one access
to the table per step. It comes with ParlayLib; the engine does not instantiate
it (NN-descent probes a table of its own, `pipnn_utils.h:388`, which is part of
`NnDescent`).

**BlockedPasses, IntegerSort, CollectReduce, SequenceStorage.** The two passes
of `filter`, `group_by_index` and the counting sort; the radix sort that swaps
arrays; `remove_duplicates`; the container with its buffers, moves, growth and
pools. IntegerSort and CollectReduce take the counting sort for what
BlockedPasses shows.

## 3. The runs

| Run | Asks | Bounds |
|---|---|---|
| `knn_heap` | no id twice, nearest kept, rows only improve, merges end, the locked merge refines `NearestTable` | 2 threads, 4 points, rows of 2 cells, lists of 3 with ties, 6 overlapping calls, any subset of them |
| `two_runs_tied` | **violated**: two schedules write the same lists | 2 calls with a tie |
| `build` | *trees*: no point lost, leaves, merging, recursion, termination; *passes*: no self loops, determinate, only improve, end | *trees*: 4 points, fanouts 2 and 1 or 1 only; 3 points, 2 rounds, fanouts 1 and 2 behind the margin gate; 4 leaders at the top, 3 below; *passes*: 6 points, 3 starting tables, 2 passes, filtered or with `-nnd_expand_m 1` |
| `nn_hash_full` | **violated**: passes end | a hash table smaller than the ids met |
| `kernels` | from the task to the verdict, eight parts, below | below |
| `leaders_padded` | **violated**: nearest leaders | 31 leaders in panels of 2, one near leader in each place |
| `portfolio` | files match their lines, buildtime, nothing missing | 3 lines out of 8, 7 command lines, 1 restart |
| `portfolio_leaf_k` | **violated**: outside its ranges the engine aborts | 1 line, among them one with `-mst_deg 0` |
| `portfolio_panel` | **violated**: a comment on when the panel is encoded | 2 lines, no `-build_rsq1_panel` |
| `scheduler` | each iteration once, joins wait, own job popped, the end is reached | 3 workers, a loop of 4 |
| `scheduler_wake_up` | **violated**: a comment on waking at least one | the same |
| `parlaylib` | deque, stack, allocator, hash table, progress, primitives, container: nine parts, below | below |

Components that never meet in the code, or meet only over a result that one
promises the other, share a run: a variable `part` says which component a
behaviour is about, the other components' variables stand still, and each
property speaks of its part. This costs no generality, as a part's steps read
nothing of the others, and keeps the number of runs small.

`kernels`: *input* (the five fields of a task in every order and with bad
values, seven layouts of a dataset, two files), *encoder* (dimensions from 3 to
48 for vectors of 16 floats, up to three subspaces, points of norm 0 and of
infinite norm, chunks of 3, two workers), *kernels* (codes shorter and longer
than a vector, 8 and 1 bit, up to 56 points, 1056 dimensions so that the byte
counters are widened), *leaders* (3, 21 and 33 leaders: one panel, two blocks,
the turn of eight; every or two low scores), *assign* (blocks of 2, fanouts 1
to 3, three margins, two workers), *leaf* (leaves of 2, 5 and 7, batches of 3,
panels of 2), *caller* (2 workers, 5 overlapping leaves, with and without
`HAMMING_LEAF`), *table* (rows of 0 to 3 neighbours against a table of 2
columns, runs that differ in a row, a width or an attribute).

`parlaylib`: *deque* (2 thieves, 3 slots, 3 jobs), *stack* (2 workers, 3
addresses, an eject at each retire), *blocks* (lists of 2, 6 blocks), *table* (9
cells, 4 keys that collide around its end, 2 workers), *progress* (3 workers, 13
leaves, step 3), *passes* (up to 10 elements, blocks of 2, 1 to 3 buckets),
*sort* (keys up to 3 bits, radix 1, base case 3), *duplicates* (up to 6 keys,
hashes that spread and collide), *sequence* (3 kinds of sequences, 4 calls,
calls on lengths up to 3).

A setting that is fixed for a build (`HAMMING_LEAF`, `scheme`, `setting`) is a
variable that `Init` picks and no action changes, so that one run covers all
of them.

The bounds are chosen so that each boundary of the code is met: rows that fill,
lists longer than a row, a leaf row that spills, a leaf after a larger one, a
last panel that is padded, a second block, a batch that ends inside a panel,
buckets that fit nowhere, a cluster that does not shrink, a repeated name, a
panel asked for late, the last job raced for, an address that comes back, a
table that wraps round. Constants of the code are scaled down together (capacity
`2 * leaf_k`, 20 progress parts to 4, 512 hash slots to 8, 1000 deque slots to
3, blocks of thousands to 2 or 3) so the comparisons between them come out both
ways.

What the runs taught about the code, beyond the findings:

- `ProcessLeafTopKFused` scores a pair twice when both points are in one batch
  or in the last panels of one; `ScalarInsertTopK` does not look for
  duplicates. A list can name a neighbour twice and then has fewer than `leaf_k`
  different ones, never fewer than half (`HalfOfListIsThere`). `merge_neighbors`
  drops the repetition.
- `ResultsMatchTheirLine` needs `-build_rsq1_panel` on the command line, as in
  the graded invocation. Without it an NN-descent pass of a line that asks for
  no Hamming stage is filtered if, and only if, an earlier line made the panel.
- With milestones fewer leaves apart than there are workers, progress lines
  can fall behind for good; with the distances of real builds they do not
  (`MilestonesAreClaimedOnce`, for any number of workers and leaves).
- The comment that `portfolio_panel` refutes is true of every run whose command
  line asks for the panel (`EncodesFirst`).
- A wake-up may be lost (finding 6), but never more than wake-ups: since idle
  workers only steal, the loop and its joins end (`Terminates`), if need be
  after the time-out.

### Findings

1. `leaders_padded`: when the last panel is padded and falls on the eighth place
   of a turn of eight panels, the NaN norms of its padding spoil the least score
   of their lanes; with all other lanes refused, nearer leaders of the seven
   other panels are passed over (`assignleaders_rsq.cc:1141`). README.md speaks
   of "the parameter ranges the submission used"; on machines with 16 lanes the
   first line of the shipped portfolio (`-top_level_leaders 500`) is among them.
2. `nn_hash_full`: the table of seen ids has 512 slots and the probe loop does
   not end when it is full. `1 + k_build + k_build^2` ids are possible, so
   `-k_build` above 22 can hang. The submission uses 20. README: outside its
   ranges the engine "aborts rather than silently falling back".
3. `two_runs_tied`: with ties for the last cell the graph depends on the
   schedule; `verify/compare_results.py` expects identical `knns`.
4. `portfolio_leaf_k`: `-mst_deg 0` without `-leaf_k` leaves the leaf functions
   before `check_leaf_k` (`pipnn_utils.h:53`) and ends with a finished file built
   from no leaf. README: `-leaf_k` "only 3-15", and outside its ranges the engine
   "aborts rather than silently falling back". `ResultsAreInRange` proves it of
   any portfolio without that value.
5. `portfolio_panel`: the 1-bit panel may be encoded on a later query and its
   time is then in no buildtime; a comment says the encode happens on the first
   query only.
6. `scheduler_wake_up`: a notifier clears the waiters flag of a worker that is
   still on its way to sleep; the next call of `wake_up_a_worker` then wakes
   nobody, though its comment says "at least one sleeping worker". The futex's
   time-out of two seconds makes up for it.

Seen while modelling, and held against no run:

- `~Graph(){}` (`graph.h:91`) leaves the mutexes that `allocate_graph` takes
  with `new` (`graph.h:78`), once per query, although the result graph is said
  to be "freed at end of iteration" (`neighbors.h:102`).
- Lines that share a `-cfg_name`, or have none, write one file; `H5Fcreate`
  truncates. `DoneMeansAllThere` says the last of them has the last word.
- If the `filename` of the task is in no word of the command line, `main` takes
  the first `-input` file without a word. `get_string` looks for a key's text
  anywhere, so a value or a field of a nested object with that text is taken for
  the key, although `task_config.h:11-12` says nested ones are ignored.
  `PointRange::operator[]` refuses `i > n`, not `i == n`.
- `compare_results.py` leaves out files that only one of the directories has; a
  NaN among the distances can hide from the check of the largest difference; two
  tables of different widths end it on formatting `None`.
- With `-ffast-math` the test for a finite norm (`rsq_encoder.cc:317`) may be
  removed; the model keeps it. The status of `UpdatePoint` is ignored where
  codes are derived or made in memory (`rsq_encoder.cc:363`,
  `pipnn.h:600`): such a point's code is then never set.
- `rsq_assign_leaders` reads past the lists when the fanout is above 10; the
  submission's fanouts are not.
- In ParlayLib `p_free` looks for a size in another way than `p_malloc`, which
  only the statistics notice, and `push_back` of a sequence's own element reads
  a buffer that was freed when it grows. The engine does neither.

None of these is met by the shipped portfolio and invocation, except finding 1
(see there), ties (finding 3: a matter of the data), lost wake-ups (delay only)
and the mutexes (memory only).

## 4. Fairness

Safety runs use none. `KnnHeap` and `NnDescent` assume that a worker that can
go on does (weak fairness; the scheduler never preempts a body for good), and
`KnnHeap` strong fairness of obtaining a mutex, since `absl::Mutex` queues its
waiters. `MC_Build` assumes only that something that can go on does (weak fairness
of its next step), which is no more than its two parts assume on their own.
`Scheduler` assumes weak fairness of each worker's next step and of the futex's
time-out, which the code passes to the system call: a sleeper whose wake-up was
lost looks again. No fairness is assumed of inputs, kills or restarts.

## 5. Proofs

Each theorem below holds for every value of the constants that satisfies the
assumption named; TLC evaluates these assumptions on the instances of section 3.
The theorems about ClusterTree and NnDescent are about each module's own
specification, whose steps are the steps of its part of `MC_Build`.
`Spec => []Inv` always goes through an inductive invariant, with one step per
action under the step lemma.

### The table (`KnnHeapProofs`)

For any points, distances, threads, row width and set of calls
(`KnnHeapAssumption`: integer distances, at least one cell, ascending candidate
lists):

- `TypeCorrect`: `Spec => []TypeOK`;
- `RowsKeepNearest`: `Spec => [](DistinctIds /\ KeepsNearest)`, and with it
  `NoIdTwice`;
- `RowsNeverGetWorse`: `Spec => RowsOnlyImprove`;
- `MergeIsAtomic`: `SpecA => ImplementsNearestTable`, the refinement of the
  abstract table by the pair-by-pair merge. Only this one uses
  `ConsistentCalls` too: a pair of points has one distance.

`KeepsNearest` is not inductive. The strengthening adds what the mutex gives:
a thread between `Lock` and `Unlock` holds its row's mutex, so no two threads
are inside one row; a thread at `append` knows its pair is absent and the row
not full; one at `replace` knows the row is full and its pair nearer than the
root. Each action then preserves each conjunct, `Break` uses that the list is
ascending: what follows the pair in hand is no nearer. `SortRow` permutes cells. For
`RowsNeverGetWorse` the slots within a distance are compared: `Append1` and
`Replace` only add to them, by the same facts about a decision, and the
permutation of `SortRow` maps the new ones onto the old.

For the refinement it is not enough that a row is right at the end, the row in
the middle of a call must be related to the one at `Lock`. `Partial(i, R, S, T)`
does that: R was there, S has been offered, T is there now. What was refused is
no nearer than anything in T, and what was given up is strictly farther than all
that came in; the strictness is what lets two replacements follow each other, and
ties between R and S are left open. The part of a list after `Break` is covered
by its ascending order. `Unlock` then is `NearestTable`'s merge, every other
step a stutter.

### NN-descent (`NnDescentProofs`)

For any finite set of points, integer distances, any Hamming filter and any
starting table without self loops and with rows of at most `k`
(`NnDescentAssumption`):

- `NoPointIsItsOwnNeighbour`: `Spec => []NoSelfLoops`, which includes the types;
- `PassesOnlyImproveRows`: `Spec => RowsOnlyImprove`;
- `PassesAreDeterminate`: `Spec => []PassIsDeterminate`.

The strengthening for the first two says that what is still to be merged for a
point does not hold the point, that rows fit, and that a running pass is one of
those asked for. A lemma about `KeptAfter` carries the second theorem: if a
merge drops a neighbour within a distance, the row is full and holds nothing
beyond that distance.

The third needs to know where a pass is. `RowsHoldOffered`: while bodies run,
each row is a nearest set of its copy and of what the bodies that have come to
it brought, whoever came first. `BodiesAgree`: what a body has yet to merge is
what it scored, and what it scores depends on the copy alone. At the end of the
sweep all bodies have offered all they scored, and two nearest sets of one set
have the same distances (`NearestCount`).

### The portfolio (`PortfolioProofs`)

For any portfolio, command lines, number of kills and restarts, and k
(`BoundsAssumption`, `InputAssumption`):

- `EndsComplete`: `Spec => []DoneMeansAllThere`;
- `ResultsAreTheirLines`: `Spec => []ResultsMatchTheirLine`,
  `BuildtimesAreTheEncoding`: `Spec => []BuildtimeIsTheEncoding` and
  `EncodesFirst`: `Spec => EncodeOnFirstQueryOnly`, if the command lines ask for
  the panel, as the command of README.md and `verify/run_corpus.sh` do. The run
  `portfolio_panel` shows that the last fails without this hypothesis, and
  section 3 says what becomes of the first;
- `ResultsAreInRange`: `Spec => []NoResultOutsideRange`, if nothing asks for
  `-mst_deg 0`. The run `portfolio_leaf_k` shows that it fails without this
  hypothesis.

The first third of the module is about reading tokens: what the first-match
search finds in a concatenation, what canonical flags do to it, and so that the
argument vector of a query gives, for each option, the line's text, else the
command line's, else the default. `InputAssumption` is used here. The invariants
of the run then speak of records only: where line and query are (`LineInv`,
`NameInv`), codes and panel were made together (`BuildInv`; this is where the
hypothesis about the panel enters), the recipe of the running query is that of
its line as far as the query has come (`RecipeInv`, `StageInv`), and a handled
line's file is there, finished, and its own or a later line's (`Kept`).

### The scheduler's loops (`SchedulerProofs`)

For any number of workers and iterations and any granularity
(`SchedulerAssumption`):

- `SchedulerInvariant`: `Spec => []Inv`;
- `LoopIsJoined`: `Spec => []LoopJoins`;
- `JobsHaveOwners`: `Spec => []OwnJobIsRightHalf`.

That the popped job is the own right half relates a deque to a call stack, while
thieves take from the other end. `DequeInv` says that the jobs of a deque are the
right halves of the topmost calls at "left", in order, and that calls that wait
for a thief are below them. So a worker whose deque is empty after its left half
knows its job was stolen. `PieceInv`: the ranges nobody runs yet (new calls and
jobs) are disjoint and have not run. `TokenInv`: a forked job exists once, in a
deque or on the stack of the thief that runs it, it is not done, and the call
that forked it has not returned. `StackInv` and `RunInv` say what has run from
where each call is; `WithinInv` that what a thief runs or has done does not cut
a piece in two. `Terminates` and sleeping stay with TLC.

### The cluster tree (`ClusterTreeProofs`)

For any number of points, sizes, fanouts, margin and depths, and whatever leaders
the kernels choose (`ClusterTreeAssumption`: the fanouts and the largest size are
positive, the rest are numbers; the constants of the shrinkage test are free):

- `NoPointIsLost`: `Spec => []EveryPointCovered`;
- `LeavesAreSound`: `Spec => []LeavesWellFormed`;
- `MergingIsComplete`: `Spec => []NothingLeftToMerge`;
- `RecursionIsBounded`: `Spec => []RecursionBounded`.

All follow from `IInv`. `Shape`: no bucket is empty or has an id twice.
Without that `LeavesWellFormed` does not survive a step: a cluster becomes a leaf
as it is, and a run of a shuffled cluster has an id twice if the cluster has.
`Order`: the buckets stay sorted by size through each merge, by `BubbleUpIs`
(the grown bucket is the only one out of order, and it stops behind the first
that is not smaller), and once the loop was left nothing fits the last bucket.
The last bucket is the smallest; so what it cannot be joined to, no other small
one can. `Covered`: every point is in a leaf, a pending cluster or a bucket.
`Depths`: a cluster below `MAX_DEPTH` is marked to be split and makes no other.

`CopiesBounded` counts leaves at the end, while a step changes clusters.
A cluster at depth d may still put a point of its own into as many leaves as
the product of the fanouts from d on: its weight. A sum of weights over a set
would need its own theory; `Share` says instead that the things which have a
point can be laid side by side, each as an interval of its weight's length,
within `MaxCopies`. A step then gives some of them a new place inside the
interval of the one they came from (`Refine`, `Replace`): the buckets of a
divided cluster get slots in its interval, one per leader (`Slots`), a merged
bucket takes over the interval of one of the two it was made of, a point is in
one run of a split cluster. Different leaves have different intervals and
each takes a place, so there are at most `MaxCopies` (`ShareCounts`).

Recursive functions over sequences (what the grouping keeps, the products of
the fanouts) are reasoned about by `UpTo`: a set of numbers that is not all
of 0..n misses a least one.

### The lock-free parts (`LockFreeProofs`)

`DequeImplementsJobDeque`: `Spec => ImplementsJobDeque`, for any array size,
number of jobs and set of thieves (`DequeAssumption`), under the mapping that
takes the slots from `top` to `Bottom`. The invariant says what the owner knows
of `age` at each step of `pop_bottom` (while it races, `top` is `local_bot` or
one more, and the tag has not changed), that no thief holds an age after the
present one, and that a thief whose age is still the present one has a job
between `top` and `Bottom` to take. Tags make the last part inductive: an age
that was replaced never comes back, so a compare-and-swap that succeeds means
nothing has moved. The lemmas about `Segment` say what the mapped sequence
becomes when either end moves.

`NodesAreSafe`: `Spec => []NoUseAfterDelete` and `ValuesAreTraded`:
`Spec => []Traded`, for any workers, values, addresses and threshold of deletion
(`HazptrAssumption`: null is no address). A node is with one worker (that pushes,
takes or has retired it) or in the stack (`OwnInv`), and the stack is linked by
the lengths its nodes carry, which count down to null (`LinkInv`).
`HazardInv` is the argument for hazard pointers: the node a worker has checked
again is still announced, and whoever retires it, at whatever slot its scan is,
either has that announcement already or has yet to look. Therefore an address
cannot leave the stack and come back while a worker compares it, so that
`CallInv` holds: what was read of the head still stands when the
compare-and-swap succeeds.

The block allocator is in the last part of this module, as the instance `BA`.
`BlocksAreInOnePlace`: `Spec => [](TypeOK /\ BlocksInOnePlace)`, for any finite
set of workers, any list length above 1 and any memory (`BlockAssumption`).
`BlocksInOnePlace` follows the links of each list from its head; nothing in it
says where the remembered middle of a list is, so it is not inductive. The
invariant names every list and numbers its blocks from its end to its head:
`F[s][k]` is the k-th of `len[s]` blocks of the list s. A push or a pop then
leaves every other number alone, and `mid` is simply `F[s][list_length + 1]`
whenever the list is long enough to have passed it (`Noted`), however often it
shrank and grew since. `Chained` says that the links follow the numbers and that
the numbers go once through all allocated blocks that are not in use; `Named`
that what the workers and the global stack have noted is true of the lists. Each
case of `Alloc`, `Free` and `Reserve` is one change of `F`, `len` and the names:
push, pop, take a list from the stack, start one of new blocks, cut one in two.
`Clear` is guarded by `num_used_blocks = 0`, which has to be shown to count
what is used (`NumUsed`): the recursive sum over the workers is the number of
their blocks, by the least set of workers for which it were not.

### The leaves (`LeafKnnProofs`)

For any finite set of points, integer distances on the codes of either width,
leaves (sequences of distinct points, of any length and any overlap), workers,
`leaf_k` and `k` (`LeafKnnAssumption`; the sizes of batches and panels are free):

- `BuffersAreOfThisLeaf`: `Spec => []OnlyThisLeaf`;
- `MergedListsAscend`: `Spec => []ListsAscending`;
- `NoLeafEdgeIsLost`: `Spec => []RowsHaveLeafEdges`;
- `LeavesReachTheTable`: `Spec => []TableHasLeafEdges`, the three together, as
  the run checks them.

The invariant has a part for each worker and one for the table. `Worker`: what a
worker has in its buffers are edges of the leaf it is at, in the row each belongs
to; `edge_arena` holds more than that, the cells of earlier leaves beyond
`edge_cnt`, and nothing is said of these. At "merge" the row in hand is sorted, at
"reverse" the rest of the list is. `HasMerged`: each row is a nearest set of some
set of its leaf edges, and the only leaf edges which that set may lack are
`Waiting`: those of leaves no worker has taken, of rows the worker's loop has not
reached, of the list it merges in reverse, of the cells and the spilled
edges it has not merged. The invariant does not say which sets these are, since
an edge may come from several leaves and be merged more than once. When all is
done nothing is waiting, and a nearest set has the distances
`RowsHaveLeafEdges` asks for (`NearestCount`).

The lemmas before it say what the operators compute. The list `TopOf` chooses
exists (`TopExists`): the scores of a row with the order of `Before`
are finite and linear, hence can be lined up (`LineUp`). The concatenation of the
rows' edges has exactly those edges (`FlattenGathers`), and `Pushed` keeps every
edge, in its row's cells or in the spill, in cells no other row has
(`PushesOne`, `PushedHolds`, `CellsApart`). Both are recursive functions over
sequences; that they have the stated value at every index is shown with `UpTo`, as
in ClusterTreeProofs. A sorted row has the elements of the row: each occurs
as often (`SortedFacts`).

### The composition and the progress lines (`ParlaylibProofs`)

The theorems about the deque, the stack and the allocator are repeated for
`MC_Parlaylib`, in which those components run (`DequeHandsJobsOutOnce`,
`StackNodesAreSafe`, `StackLosesNothing`, `BlocksStayInOnePlace`): its next-state
relation is theirs or leaves their variables alone. `MilestonesAreClaimedOnce`
(`Spec => []EachMilestoneOnce`) is about `Progress`, for any workers, leaves and
estimate. The claimed milestones are those before the next one (`Claims`, whatever old value a worker has read, since the
compare-and-swap compares with the present one). That none is missing in the end
needs `Ahead`: if milestones are at least as many leaves apart as there are
workers, the count is ahead of the next one by at most one leaf for each worker
that has yet to look at it.

### Only model-checked

- Liveness under fairness (`AllRowsSorted`, `DescentEnds`,
  `TreesEnd`, `Terminates`): TLAPS does not handle ENABLED.
- What recursion over data computes: the kernels, the encoder, leader
  assignment, the sorts, `remove_duplicates` and the container are folds and
  recursive functions, and the induction theorems of the library take an operator,
  which the provers cannot instantiate. Where a recursion only picks from a
  sequence it has been replaced by least numbers (ClusterTreeProofs,
  LeafKnnProofs); the others are compared with
  reference definitions on bounded inputs.
- `HashTable`: within reach, not done (section 7).

No module declares a RECURSIVE operator.

## 6. Not modelled

- Float rounding: distances and coordinates are integers, scales fractions.
  Distances are taken as symmetric except in `KnnHeap`. How the random signs,
  the small matrix and the leaders are drawn: any outcome, or a fixed one.
- The bodies of HDF5 and of Abseil, huge-page advice, prefetching, timers, log
  texts, the progress report's ETA (it can be nonsense when more leaves come
  than were estimated; nothing reads it).
- Failing HDF5 writes: the code ignores their results and no source says what
  should happen; the models let them succeed.
- The mutexes of result graphs, which are never freed: nothing reads them again.
- Weak memory beyond what is said above: on x86 the stores of one worker are
  seen in order, and the models interleave single accesses. The relaxed
  milestones of `Progress` may be old.
- ParlayLib that the engine does not call, except the hash table: comparison
  sorts, strings, streams, random permutations, delayed sequences other than the block-delayed filter,
  the thread start-up. Iterator and range adaptors keep no state.
- The shell scripts under `verify/` and the build files run outside the system.

## 7. Plan

Order of work, most important behaviour first.

1. Done: table, its abstraction and proofs; leaf processing; NN-descent; cluster
   trees; kernels; portfolio; progress.
2. Done: leader assignment, quantizer and micro-kernels, input, result table and
   comparison; scheduler, deque, lock-free memory, hash table, primitives and
   containers.
3. Proofs. Done: section 5. Next: `HoldsTheKeys` for the hash table;
   determinacy of the table without ties, from `KeepsNearest`.
4. A joint module: ClusterTree's leaves, LeafKnn and NnDescent over one table, shown to
   implement `NearestTable`.
