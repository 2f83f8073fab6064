----------------------------- MODULE Portfolio -----------------------------
(***************************************************************************)
(* One run of the program (neighborsTime.C, neighbors.h, build_topk of     *)
(* pipnn.h, h5_result_writer.h): the vectors are quantized on the first    *)
(* query, every line of the -query_configs file is one query, each query   *)
(* writes one result file.  The codes live in the index object I, which    *)
(* all queries share.  The graph itself is abstracted to its "recipe": the *)
(* parameters that decide which graph is built.  Time is abstracted to the *)
(* encoding work done.  The process may be killed at any step and started  *)
(* again; the files of the killed run are still there then.                *)
(***************************************************************************)
EXTENDS CommandLine, FiniteSets

CONSTANTS
  Bases,         \* what the command line may ask for (records, see Tokens)
  Settings,      \* what a line of the portfolio may ask for
  MaxLines,      \* bound: lines of the portfolio
  MaxRestarts,   \* bound: times a killed run is started again

  K              \* neighbours asked for: config.json's k

ASSUME BoundsAssumption == MaxLines \in Nat \ {0} /\ MaxRestarts \in Nat /\ K \in Nat

\* A parameter a record leaves out has this value.
Absent == ""

\* The portfolio as its author writes it: one record per line or command line,
\* with the spelling of each flag and the text of each value.
ValueTokens(option, text) == IF text = Absent THEN <<>> ELSE <<option, text>>
FlagTokens(spelling) == IF spelling = Absent THEN <<>> ELSE <<spelling>>

Tokens(s) ==
  FlagTokens(s.panel) \o FlagTokens(s.hamming)
    \o ValueTokens("-mst_deg", s.mst_deg) \o ValueTokens("-leaf_k", s.leaf_k)
    \o ValueTokens("-k_build", s.k_build) \o ValueTokens("-nn_descent", s.nnd)
    \o ValueTokens("-cfg_name", s.name)

Rest(b) == FlagTokens(b.rsq) \o ValueTokens(b.bits_flag, b.bits)
             \o Tokens(b) \o ValueTokens("-output", b.output)

BaseArgv(b) == <<"neighbors">> \o Rest(b)

\* What the program reads as flags.  A text that is one of them would be read
\* twice, as the value of its flag and as a flag.
HammingStages == {"-hamming_leaf", "-hamming_assign"}
PanelFlags == {"-build_rsq1_panel", "-build_tq1_panel"}
ValueFlags == {"-mst_deg", "-leaf_k", "-k_build", "-nn_descent", "-cfg_name", "-output"}
Flags == HammingStages \cup PanelFlags \cup ValueFlags
           \cup {"-rsq", "-turboquant", "-rsq_bits", "-tq_bits"}

\* What may be written in a record: known spellings, and texts that are values.
InputAssumption ==
  /\ \A s \in Settings \cup Bases :
       /\ s.panel \in PanelFlags \cup {Absent}
       /\ s.hamming \in HammingStages \cup {Absent}
       /\ {s.mst_deg, s.leaf_k, s.k_build, s.nnd, s.name} \cap Flags = {}
  /\ \A b \in Bases :
       /\ b.rsq \in {"-rsq", "-turboquant", Absent}
       /\ b.bits_flag \in {"-rsq_bits", "-tq_bits"}
       /\ {b.bits, b.output} \cap Flags = {}
  /\ \A s \in Settings : s.comment \in BOOLEAN

ASSUME InputAssumption

Eight == 4   \* work of reading and encoding the vectors in 8 bits
One == 1     \* work of deriving or encoding the 1-bit panel

VARIABLES
  base, lines,        \* the inputs: fixed once chosen
  pc,
  argv,               \* main's argv, then the argv of the current query
  line_no,            \* lines read
  cfg_idx,
  codes, panel,       \* cached_rsqpr_, cached_rsqpr1_: there or not
  codes_cached_, did_encode,
  spent,              \* encoding work of the current query: encode_timer
  work,               \* encoding work of the run
  enc_s, shared_buildtime, have_buildtime,
  recipe,             \* what the current query builds
  passes,             \* NN-descent passes still to do
  files,              \* file name -> what is on disk
  restarts

process == <<argv, line_no, cfg_idx, codes, panel, codes_cached_, did_encode,
             spent, work, enc_s, shared_buildtime, have_buildtime, recipe,
             passes>>
vars == <<base, lines, pc, process, files, restarts>>

-----------------------------------------------------------------------------
(* The steps of the program.                                               *)

NoRecipe == [leaf_k |-> 0, k_build |-> 0, hamming |-> {}, passes |-> 0, filtered |-> FALSE]

Fresh ==
  /\ argv = canonicalize_flags(BaseArgv(base))
  /\ line_no = 0 /\ cfg_idx = 0
  /\ codes = FALSE /\ panel = FALSE /\ codes_cached_ = FALSE
  /\ did_encode = FALSE /\ spent = 0 /\ work = 0
  /\ enc_s = 0 /\ shared_buildtime = 0 /\ have_buildtime = FALSE
  /\ recipe = NoRecipe /\ passes = 0

Init ==
  /\ base \in Bases
  /\ \E n \in 1..MaxLines : lines \in [1..n -> Settings]
  /\ pc = "main" /\ Fresh
  /\ files = <<>> /\ restarts = 0

\* BP.rsq_bits comes from main's argv: a line cannot change it.
rsq_bits == getOptionIntValue(canonicalize_flags(BaseArgv(base)), "-rsq_bits", 8)

\* main: the quantizer is required and has eight or one bits.
Main ==
  /\ pc = "main"
  /\ pc' = IF getOption(argv, "-rsq") /\ rsq_bits \in {8, 1}
           THEN "read" ELSE "refused"
  /\ UNCHANGED <<base, lines, process, files, restarts>>

\* getline: blank lines and comments are passed over, for another line the
\* argv of the query is put together and its -mst_deg read.
ReadLine ==
  /\ pc = "read" /\ line_no < Len(lines)
  /\ line_no' = line_no + 1
  /\ LET s == lines[line_no + 1]
     IN  IF s.comment THEN UNCHANGED <<pc, argv>>
         ELSE /\ argv' = PerConfigArgv(canonicalize_flags(BaseArgv(base)), Tokens(s))
              /\ pc' = IF badArgument(argv', "-mst_deg") THEN "aborted" ELSE "encode"
  /\ UNCHANGED <<base, lines, cfg_idx, codes, panel, codes_cached_, did_encode,
                 spent, work, enc_s, shared_buildtime, have_buildtime, recipe,
                 passes, files, restarts>>

EndOfPortfolio ==
  /\ pc = "read" /\ line_no = Len(lines)
  /\ pc' = "done"
  /\ UNCHANGED <<base, lines, process, files, restarts>>

\* build_topk takes the cached codes or encodes.  Encoding can fail.
Encode ==
  /\ pc = "encode"
  /\ did_encode' = ~codes_cached_
  /\ \/ /\ codes
        /\ spent' = 0
        /\ pc' = "panel" /\ UNCHANGED <<codes, work>>
     \/ /\ ~codes
        /\ codes' = TRUE
        /\ spent' = Eight /\ work' = work + Eight
        /\ pc' = "panel"
     \/ /\ ~codes
        /\ pc' = "aborted" /\ UNCHANGED <<codes, spent, work>>
  /\ UNCHANGED <<base, lines, argv, line_no, cfg_idx, panel, codes_cached_,
                 enc_s, shared_buildtime, have_buildtime, recipe, passes, files, restarts>>

WantsPanel == \E f \in HammingStages \cup {"-build_rsq1_panel"} : getOption(argv, f)

\* The 1-bit panel is made once, by the first query that asks for it; then the
\* encode timer is read, but only if this query encoded the vectors.
EncodePanel ==
  /\ pc = "panel"
  /\ LET make == WantsPanel /\ ~panel
         took == IF make THEN One ELSE 0
     IN  /\ panel' = (panel \/ make)
         /\ spent' = spent + took /\ work' = work + took
         /\ enc_s' = IF did_encode THEN spent + took ELSE 0
  /\ codes_cached_' = TRUE
  /\ pc' = "params"
  /\ UNCHANGED <<base, lines, argv, line_no, cfg_idx, codes, did_encode,
                 shared_buildtime, have_buildtime, recipe, passes,
                 files, restarts>>

PanelFails ==
  /\ pc = "panel" /\ WantsPanel /\ ~panel
  /\ pc' = "aborted"
  /\ UNCHANGED <<base, lines, process, files, restarts>>

\* -mst_deg is the leaf's k unless -leaf_k is there, which may not be below 1.
LeafK == getOptionIntValue(argv, "-leaf_k", getOptionIntValue(argv, "-mst_deg", 2))
RefusesLeafK == /\ getOptionValue(argv, "-leaf_k", Absent) # Absent
                /\ getOptionIntValue(argv, "-leaf_k", 0) < 1

\* The table is never narrower than the result.
KBuild == LET opt == getOptionIntValue(argv, "-k_build", 0)
          IN  IF opt > K THEN opt ELSE K

Parameters ==
  /\ pc = "params"
  /\ recipe' = [leaf_k |-> LeafK, k_build |-> KBuild,
                hamming |-> {f \in HammingStages : panel /\ getOption(argv, f)},
                passes |-> 0, filtered |-> FALSE]
  /\ passes' = getOptionIntValue(argv, "-nn_descent", 0)
  /\ pc' = IF badArgument(argv, "-k_build") \/ RefusesLeafK
           THEN "aborted" ELSE "trees"
  /\ UNCHANGED <<base, lines, argv, line_no, cfg_idx, codes, panel, codes_cached_,
                 did_encode, spent, work, enc_s, shared_buildtime,
                 have_buildtime, files, restarts>>

\* The first leaf of the first tree meets check_leaf_k, unless its k is 0:
\* rsq_knn has returned by then.  After the trees -nn_descent is read.
check_leaf_k(leaf_k) == leaf_k = 0 \/ leaf_k \in 3..15

ClusterTrees ==
  /\ pc = "trees"
  /\ pc' = IF check_leaf_k(recipe.leaf_k) /\ ~badArgument(argv, "-nn_descent")
           THEN "descend" ELSE "aborted"
  /\ UNCHANGED <<base, lines, process, files, restarts>>

\* A pass is filtered by Hamming distance when there is a panel, whoever asked
\* for it.
Descend ==
  /\ pc = "descend" /\ passes > 0
  /\ passes' = passes - 1
  /\ recipe' = [recipe EXCEPT !.passes = @ + 1, !.filtered = panel]
  /\ UNCHANGED <<base, lines, pc, argv, line_no, cfg_idx, codes, panel,
                 codes_cached_, did_encode, spent, work, enc_s,
                 shared_buildtime, have_buildtime, files, restarts>>

\* The table is finalized and copied to the result graph Gc.
CopyToGraph ==
  /\ pc = "descend" /\ passes = 0
  /\ pc' = IF getOptionValue(argv, "-output", Absent) # Absent
           THEN "create" ELSE "next"
  /\ UNCHANGED <<base, lines, argv, line_no, cfg_idx, codes, panel, codes_cached_,
                 did_encode, spent, work, enc_s, shared_buildtime,
                 have_buildtime, recipe, passes, files, restarts>>

FileName_FromBase == getOptionValue(BaseArgv(base), "-cfg_name", "cfg")

FileName == getOptionValue(argv, "-cfg_name", "cfg")

\* H5Fcreate truncates a file of that name; it may be refused.
CreateFile ==
  /\ pc = "create"
  /\ \/ /\ files' = [f \in DOMAIN files \cup {FileName} |->
                      IF f = FileName
                      THEN [whole |-> FALSE, recipe |-> NoRecipe, buildtime |-> 0,
                            line |-> line_no]
                      ELSE files[f]]
        /\ pc' = "write"
     \/ pc' = "aborted" /\ UNCHANGED files
  /\ UNCHANGED <<base, lines, process, restarts>>

buildtime_OwnQuery == enc_s

\* The buildtime the file gets: this query's encoding, or the first query's.
buildtime == IF did_encode THEN enc_s ELSE shared_buildtime

\* The datasets and attributes are written and the file is closed.
WriteFile ==
  /\ pc = "write"
  /\ files' = [files EXCEPT ![FileName] =
                 [whole |-> TRUE, recipe |-> recipe, buildtime |-> buildtime,
                  line |-> line_no]]
  /\ pc' = "next"
  /\ UNCHANGED <<base, lines, process, restarts>>

\* Back in ANN: the first query's encoding is kept for the buildtime.
NextQuery ==
  /\ pc = "next"
  /\ shared_buildtime' = IF have_buildtime THEN shared_buildtime ELSE enc_s
  /\ have_buildtime' = TRUE
  /\ cfg_idx' = cfg_idx + 1
  /\ pc' = "read"
  /\ UNCHANGED <<base, lines, argv, line_no, codes, panel, codes_cached_,
                 did_encode, spent, work, enc_s, recipe, passes, files, restarts>>

-----------------------------------------------------------------------------
(* The world: the process is killed and started again.                     *)

Running == pc \notin {"done", "refused", "aborted", "killed"}

Kill ==
  /\ Running /\ restarts < MaxRestarts
  /\ pc' = "killed"
  /\ UNCHANGED <<base, lines, process, files, restarts>>

Restart ==
  /\ pc \in {"killed", "aborted"} /\ restarts < MaxRestarts
  /\ restarts' = restarts + 1
  /\ pc' = "main"
  /\ argv' = canonicalize_flags(BaseArgv(base))
  /\ line_no' = 0 /\ cfg_idx' = 0
  /\ codes' = FALSE /\ panel' = FALSE /\ codes_cached_' = FALSE
  /\ did_encode' = FALSE /\ spent' = 0 /\ work' = 0
  /\ enc_s' = 0 /\ shared_buildtime' = 0 /\ have_buildtime' = FALSE
  /\ recipe' = NoRecipe /\ passes' = 0
  /\ UNCHANGED <<base, lines, files>>

Stopped == ~Running /\ UNCHANGED vars

Step == \/ Main \/ ReadLine \/ EndOfPortfolio \/ Encode \/ EncodePanel
        \/ PanelFails \/ Parameters \/ ClusterTrees \/ Descend \/ CopyToGraph
        \/ CreateFile \/ WriteFile \/ NextQuery

Next == Step \/ Kill \/ Restart \/ Stopped

Spec == Init /\ [][Next]_vars

-----------------------------------------------------------------------------
(* What a run promises, said of the records the portfolio was written from  *)
(* and not of the tokens the code reads.                                    *)

\* The line's value, else the command line's, else the default.
Pick(s, field, default) ==
  IF s[field] # Absent THEN s[field]
  ELSE IF base[field] # Absent THEN base[field] ELSE default

\* The same of a number.
Number(s, field, default) ==
  IF Pick(s, field, Absent) = Absent THEN default ELSE atoi(Pick(s, field, Absent))

AsksForPanel(s) == {s.panel, s.hamming} # {Absent}

\* What ResultsAreInRange needs: a leaf k of 0 is not refused.
LeafKNotZero(s) == s.mst_deg = Absent \/ atoi(s.mst_deg) # 0

Wanted(s) ==
  LET n == Number(s, "nnd", 0)
      wide == Number(s, "k_build", 0)
  IN  [leaf_k |-> Number(s, "leaf_k", Number(s, "mst_deg", 2)),
       k_build |-> IF wide > K THEN wide ELSE K,
       hamming |-> {base.hamming, s.hamming} \ {Absent},
       passes |-> n,
       filtered |-> n > 0 /\ (AsksForPanel(base) \/ AsksForPanel(s))]

NameOf(s) == Pick(s, "name", "cfg")
Queries == {i \in DOMAIN lines : ~lines[i].comment}
WholeFiles == {f \in DOMAIN files : files[f].whole}

TypeOK ==
  /\ base \in Bases /\ lines \in UNION {[1..n -> Settings] : n \in 1..MaxLines}
  /\ pc \in {"main", "read", "encode", "panel", "params", "trees", "descend",
            "create", "write", "next", "done", "refused", "aborted", "killed"}
  /\ line_no \in 0..Len(lines) /\ cfg_idx \in 0..line_no
  /\ {codes, panel, codes_cached_, did_encode, have_buildtime} \subseteq BOOLEAN
  /\ spent \in 0..(Eight + One) /\ work \in spent..(Eight + One)
  /\ enc_s \in 0..(Eight + One) /\ shared_buildtime \in 0..(Eight + One)
  /\ passes \in 0..30 /\ recipe.leaf_k \in 0..30 /\ recipe.k_build \in 0..30 \cup {K}
  /\ restarts \in 0..MaxRestarts
  /\ \A f \in DOMAIN files : files[f].line \in Queries

\* A finished result file holds what its own line asks for on top of the
\* command line, whatever the queries before it left in the shared index
\* (ANN, build_topk).
ResultsMatchTheirLine ==
  \A f \in WholeFiles :
    LET s == lines[files[f].line]
    IN  f = NameOf(s) /\ files[f].recipe = Wanted(s)

\* Every result file reports the encoding of the whole run, the panel
\* included, as its buildtime: also the queries that did not encode, and also
\* after the run was killed and started again (build_topk, ANN).
BuildtimeIsTheEncoding ==
  LET panels == AsksForPanel(base) \/ \E i \in Queries : AsksForPanel(lines[i])
  IN  \A f \in WholeFiles :
        files[f].buildtime = Eight + (IF panels THEN One ELSE 0)

\* When the run ends on its own every query has its file, finished, and the
\* last line of each name has the last word; a file that a killed run left
\* half written is among those made again (ANN, write_sisap_result).
DoneMeansAllThere ==
  /\ TypeOK
  /\ pc = "done" /\ base.output # Absent =>
       \A i \in Queries :
         /\ NameOf(lines[i]) \in WholeFiles
         /\ files[NameOf(lines[i])].line >= i

-----------------------------------------------------------------------------
(* What the sources say of a run and the code does not do.                  *)

\* README.md of the repository: outside the parameter ranges of the submission
\* the program "aborts rather than silently falling back", and -leaf_k is "only
\* 3-15".  So no finished file has a leaf_k outside 3..15.  -mst_deg 0 without
\* -leaf_k is not refused: rsq_knn returns before check_leaf_k.
NoResultOutsideRange ==
  \A f \in WholeFiles : Wanted(lines[files[f].line]).leaf_k \in 3..15

\* neighbors.h: "The encode happens on the first query only (build_topk caches
\* + reuses the codes)".
EncodeOnFirstQueryOnly == [][work' > work => cfg_idx = 0]_vars
=============================================================================
