---------------------------- MODULE DatasetInput ----------------------------
(***************************************************************************)
(* From the command line to the vectors: parse_task_config                 *)
(* (utils/task_config.h), the choice of the input file in main             *)
(* (bench/neighborsTime.C), PointRange (utils/point_range.h) and the two   *)
(* ways in which build_topk reads a row (pipnn.h).  The task description   *)
(* is a sequence of tokens, a path a sequence of pieces of its name, an    *)
(* HDF5 file a function from group names to datasets.                      *)
(***************************************************************************)
EXTENDS Integers, Sequences, FiniteSets, FiniteSetsExt, SequencesExt, Functions

CONSTANTS
  Tasks,        \* [fields, input, argv, stream, store]: the fields of config.json,
                \* the value of -input, the words of the command line, whether
                \* -stream_quantize is one of them, and path -> group -> dataset
  ALIGNMENT     \* the arena is a multiple of this many bytes

VARIABLES
  task, stage,
  cfg,          \* TaskConfig
  sub_input,    \* the file that is read
  deferred_load, elem_bytes, offset, arena, aligned_bytes, n, dims

inputVars == <<task, stage, cfg, sub_input, deferred_load, elem_bytes, offset, arena,
               aligned_bytes, n, dims>>

-----------------------------------------------------------------------------
(* The task description. *)

Word(v) == [t |-> "string", v |-> v, i |-> 0]
Number(i) == [t |-> "int", v |-> "", i |-> i]
Mark(c) == [t |-> c, v |-> "", i |-> 0]

\* A field is <<key, tokens of the value>>.
Text(fields) == <<Mark("{")>> \o FlattenSeq([j \in DOMAIN fields |->
                  <<Word(fields[j][1]), Mark(":")>> \o fields[j][2] \o <<Mark(",")>>]) \o <<Mark("}")>>

Least(S) == IF S = {} THEN 0 ELSE Min(S)
FirstAfter(s, p, Is(_)) == Least({i \in (p + 1)..Len(s) : Is(s[i])})

\* The ':' after the first place where the key stands in quotes, or 0.
ColonOf(s, key) ==
  LET p == FirstAfter(s, 0, LAMBDA w : w = Word(key))
  IN  IF p = 0 THEN 0 ELSE FirstAfter(s, p, LAMBDA w : w.t = ":")

\* The next string, however far away it is.
get_string(s, key, old) ==
  LET c == ColonOf(s, key)
      q == IF c = 0 THEN 0 ELSE FirstAfter(s, c, LAMBDA w : w.t = "string")
  IN  IF q = 0 THEN old ELSE s[q].v
get_int(s, key, old) ==
  LET c == ColonOf(s, key)
  IN  IF c = 0 \/ c = Len(s) THEN old ELSE IF s[c + 1].t = "int" THEN s[c + 1].i ELSE old

parse_task_config(s) ==
  [task |-> get_string(s, "task", ""), data |-> get_string(s, "data", ""),
   k |-> get_int(s, "k", 0), dataset_name |-> get_string(s, "dataset_name", ""),
   filename |-> get_string(s, "filename", "")]

Init ==
  /\ task \in Tasks
  /\ stage = "start" /\ cfg = <<>> /\ sub_input = <<>>
  /\ deferred_load = FALSE /\ elem_bytes = 0 /\ offset = 0 /\ arena = <<>>
  /\ aligned_bytes = 0 /\ n = 0 /\ dims = 0

\* A field without which no result would be scored ends the program.
ParseTask ==
  /\ stage = "start"
  /\ cfg' = parse_task_config(Text(task.fields))
  /\ stage' = IF cfg'.dataset_name = "" \/ cfg'.data = "" \/ cfg'.k <= 0
              THEN "refused" ELSE "parsed"
  /\ UNCHANGED <<task, sub_input, deferred_load, elem_bytes, offset, arena, aligned_bytes, n, dims>>

\* -input, or the first word of the command line that ends with the file name
\* when that does not: of a glob's files all but the first are stray words.
ResolveInput ==
  /\ stage = "parsed"
  /\ LET fits == {i \in DOMAIN task.argv : IsSuffix(<<cfg.filename>>, task.argv[i])}
     IN  sub_input' = IF cfg.filename # "" /\ ~IsSuffix(<<cfg.filename>>, task.input) /\ fits # {}
                      THEN task.argv[Min(fits)] ELSE task.input
  /\ stage' = IF cfg.k > 1000 THEN "refused" ELSE "resolved"
  /\ UNCHANGED <<task, cfg, deferred_load, elem_bytes, offset, arena, aligned_bytes, n, dims>>

-----------------------------------------------------------------------------
(* The points. *)

Opens == sub_input \in DOMAIN task.store /\ cfg.data \in DOMAIN task.store[sub_input]
Dataset == task.store[sub_input][cfg.data]

\* A row of floats takes whole cache lines, or half of one.
AlignedBytes(num_bytes) ==
  IF num_bytes <= 32 THEN 32 ELSE 64 * (((num_bytes - 1) \div 64) + 1)

ReadMetadata ==
  /\ stage = "resolved"
  /\ IF Opens /\ Dataset.ndims = 2
     THEN /\ n' = Len(Dataset.rows) /\ dims' = Len(Dataset.rows[1])
          /\ aligned_bytes' = AlignedBytes(4 * dims')
          /\ elem_bytes' = Dataset.elem_bytes
          /\ stage' = IF Dataset.chunked THEN "chunked" ELSE "contiguous"
     ELSE stage' = "aborted" /\ UNCHANGED <<n, dims, aligned_bytes, elem_bytes>>
  /\ UNCHANGED <<task, cfg, sub_input, deferred_load, offset, arena>>

PackedRows(rows, d) ==
  [a \in {(i * aligned_bytes) + (4 * x) : i \in 0..(Len(rows) - 1), x \in 0..(d - 1)} |->
     rows[(a \div aligned_bytes) + 1][((a % aligned_bytes) \div 4) + 1]]

\* H5Dread unpacks the rows and makes floats of them; they are copied into the
\* arena one by one.
LoadChunked ==
  /\ stage = "chunked"
  /\ IF Dataset.is_float
     THEN /\ LET total_bytes == ALIGNMENT * (((n * aligned_bytes) + ALIGNMENT - 1) \div ALIGNMENT)
             IN  arena' = [a \in {4 * w : w \in 0..((total_bytes \div 4) - 1)} |->
                   IF a \in DOMAIN PackedRows(Dataset.rows, dims)
                   THEN PackedRows(Dataset.rows, dims)[a] ELSE 0]
          /\ stage' = "loaded"
     ELSE stage' = "aborted" /\ UNCHANGED arena
  /\ UNCHANGED <<task, cfg, sub_input, deferred_load, elem_bytes, offset, aligned_bytes, n, dims>>

\* Only where the data begins is kept; init_rsq_streaming maps the file later.
DeferLoad ==
  /\ stage = "contiguous"
  /\ IF task.stream
     THEN deferred_load' = TRUE /\ offset' = Dataset.offset /\ stage' = "loaded"
     ELSE stage' = "aborted" /\ UNCHANGED <<deferred_load, offset>>
  /\ UNCHANGED <<task, cfg, sub_input, elem_bytes, arena, aligned_bytes, n, dims>>

\* build_topk streams what was deferred, if it is floats of four or two bytes.
StartEncoding ==
  /\ stage = "loaded"
  /\ stage' = IF deferred_load /\ ~(Dataset.is_float /\ elem_bytes \in {2, 4})
              THEN "aborted" ELSE "ready"
  /\ UNCHANGED <<task, cfg, sub_input, deferred_load, elem_bytes, offset, arena, aligned_bytes, n, dims>>

Finished == stage \in {"ready", "refused", "aborted"} /\ UNCHANGED inputVars

Next == \/ ParseTask \/ ResolveInput \/ ReadMetadata \/ LoadChunked \/ DeferLoad
        \/ StartEncoding \/ Finished

Spec == Init /\ [][Next]_inputVars

\* operator[]: the arena from the start of row i on.  Its test lets i = n pass.
RowInArena(i) == [x \in 0..(dims - 1) |-> arena[(i * aligned_bytes) + (4 * x)]]

\* Streaming: element x of row i in a file whose bytes are these.
FileBytes(dataset) ==
  LET width == Len(dataset.rows[1])
      at(a) == (a - dataset.offset) \div dataset.elem_bytes
  IN  [a \in {dataset.offset + (dataset.elem_bytes * e) : e \in 0..((Len(dataset.rows) * width) - 1)} |->
         dataset.rows[(at(a) \div width) + 1][(at(a) % width) + 1]]
RowInFile(i) ==
  LET src_row_bytes == elem_bytes * dims
      bytes == FileBytes(Dataset)
  IN  [x \in 0..(dims - 1) |-> bytes[offset + (i * src_row_bytes) + (elem_bytes * x)]]
-----------------------------------------------------------------------------
Named(path) == Last(path) = cfg.filename
HasField(key, Is(_)) == \E j \in DOMAIN task.fields : task.fields[j][1] = key /\ Is(task.fields[j][2])
Supported(d) == /\ d.ndims = 2 /\ d.is_float
                /\ d.chunked \/ (task.stream /\ d.elem_bytes \in {2, 4})

\* What is encoded are the rows of the dataset that the task description names,
\* wherever its fields stand and however many files -input came to be, from
\* the arena and from the file alike; and the program gives up only where a
\* field is missing, the dataset is not there, or its layout is unsupported.
DatasetIsTheTasks ==
  /\ stage = "ready" =>
       /\ \A key \in {"data", "dataset_name"} :
            HasField(key, LAMBDA v : v = <<Word(IF key = "data" THEN cfg.data ELSE cfg.dataset_name)>>)
       /\ HasField("k", LAMBDA v : v = <<Number(cfg.k)>>)
       /\ (\E i \in DOMAIN task.argv : Named(task.argv[i])) => cfg.filename = "" \/ Named(sub_input)
       /\ \A i \in 0..(n - 1), x \in 0..(dims - 1) :
            Dataset.rows[i + 1][x + 1] = (IF deferred_load THEN RowInFile(i) ELSE RowInArena(i))[x]
  /\ stage = "refused" =>
       \/ \E key \in {"data", "dataset_name"} : ~HasField(key, LAMBDA v : v[1].v # "")
       \/ ~HasField("k", LAMBDA v : v[1].i \in 1..1000)
  /\ stage = "aborted" => ~Opens \/ ~Supported(Dataset)
=============================================================================
