----------------------------- MODULE MC_Kernels -----------------------------
(***************************************************************************)
(* What happens to the vectors, one piece at a time: the input, the        *)
(* encoder, the dot-product kernels, the leader kernels and the assignment *)
(* around them, the leaf kernel and its callers, the table of results and  *)
(* its comparison.  Each takes what the ones before promise.  A behaviour  *)
(* is one of them, picked at the start; the variables of the others are    *)
(* None, those of the callers (LeafKnn, whose names and proofs this module *)
(* shares) as they are before the first leaf.                              *)
(***************************************************************************)
EXTENDS LeafKnn

CONSTANTS
    TopK, leader_kPoints, kMqK, panels_per_block,   \* LeaderTopK
    N,                                              \* RsqKernels
    fused_K,                                        \* ProcessLeaf
    NF, CHUNK_POINTS, Huge,                         \* RsqEncoder
    kBlockSize, kFew, kMany, kSurface,              \* LeaderAssign
    ALIGNMENT,                                      \* DatasetInput
    FLT_MAX, max_ddist                              \* ResultTable

VARIABLES
    part,
    call, decoded, lists, p_block, q_start, p, top, result, leader_pc,
    code, panels, kernel_decoded, kernel_p, dots, kernel_pc,
    score, leaf_q_start, leaf_p, minv, db, out, leaf_pc,
    src, base, uncoded, at, tl_decode, rotated, tl_code1, codes, scales, byte_sums, encoder_pc,
    job, blocks_left, block, results, flat, emitted,
    task, stage, task_cfg, sub_input, deferred_load, elem_bytes, offset, arena, aligned_bytes,
        vectors, vector_dims,
    given, run, cfg, dirs, names, report, status

-----------------------------------------------------------------------------
(* Calls of the leader kernels: a few leaders with every pattern of scores,   *)
(* ties included, and enough leaders for two blocks and for the turn of eight *)
(* panels on a list that is full, with the best ones in every place.          *)
Turned(f, n) == [pt \in 0..3 |-> [l \in 0..(n - 1) |-> f[(l + pt * 5) % n]]]
Norm == [pt \in 0..3 |-> 1 + (pt % 2)]
Gathered == [q \in 0..2 |-> <<3, 0, 2>>[q + 1]]
Consecutive == [q \in 0..2 |-> q + 1]
Ask(m, f, n) == [mode |-> m, queries |-> IF m = "consecutive" THEN Consecutive ELSE Gathered,
                 score |-> Turned(f, n), norm |-> Norm]
Modes == {"top1", "fits", "blocked", "consecutive"}
TwoLow(n, lows) == {[l \in 0..(n - 1) |-> IF l = a THEN -2 ELSE IF l = b THEN c ELSE l % 2] :
                      a \in 0..(n - 1), b \in 0..(n - 1), c \in lows}
Calls == {Ask(m, f, 3) : m \in Modes, f \in [0..2 -> {-1, 1, 2}]}
         \cup {Ask(m, f, 21) : m \in Modes, f \in TwoLow(21, {-1})}
         \cup {Ask("consecutive", f, 33) : f \in TwoLow(33, {-1})}

(* Codes for the dot-product kernels: dimensions around the width of a vector *)
(* and of a word, more bytes than the narrow counters can take in one go, and *)
(* something other than 0 in the memory behind every code.                    *)
Pattern(s, d) == CASE s = 0 -> 127 [] s = 1 -> 129
                   [] OTHER -> ((((37 * s + 11) * (d + 1)) % 255) + 129) % 256
Bits(s, d, left) == (CASE s = 0 -> 0 [] s = 1 -> 255 [] OTHER -> ((37 * s + 11) * (d + 1)) % 256)
                    % (IF left >= 8 THEN 256 ELSE 2^left)
Code(bits, dims, n, how) ==
    LET bytes == IF bits = 8 THEN dims ELSE (dims + 7) \div 8
        stride == ((bytes + 63) \div 64) * 64
        byte(s, d) == IF bits = 8 THEN Pattern(s, d) ELSE Bits(s, d, dims - 8 * d)
    IN  [bits |-> bits, dims |-> dims, stride |-> stride, how |-> how,
         raw |-> [a \in 0..(5 * stride - 1) |-> IF a % stride < bytes
                    THEN byte(a \div stride, a % stride) ELSE 77],
         points |-> [i \in 0..(n - 1) |-> (3 * i) % 5], queries |-> [q \in 0..1 |-> 1 - q]]
Codes == {Code(8, d, n, how) : d \in {3, 32, 37}, n \in {3, 13, 56}, how \in {"leaders", "leaf"}}
         \cup {Code(1, d, n, how) : d \in {5, 32, 44, 1056}, n \in {3, 13},
                                    how \in {"leaders", "leaf"}}

(* Leaves for the leaf kernel, scored by how far apart their points are on a  *)
(* line; batches of three are not aligned with panels of two.                 *)
Unroll == {1, 2, 4}
Gap(x, y) == IF x < y THEN y - x ELSE x - y
Line(at_, n) == [i \in 0..(n - 1) |-> [j \in 0..(n - 1) |-> Gap(at_[i], at_[j]) - 1]]
ScoredLeaves == {Line(f, 2) : f \in [0..1 -> 1..2]}
                \cup {Line(f, 5) : f \in [0..4 -> 1..4]}
                \cup {Line(f, 7) : f \in [0..6 -> {1, 2, 4}]}

(* Leaves that overlap.  Point 2 is near everything on the 1-bit codes, so    *)
(* that its row of the buffer overflows; the 8-bit distances disagree.        *)
FivePoints == 1..5
Place == <<0, 3, 4, 6, 9>>
Gaps == [u \in FivePoints |-> [w \in FivePoints |-> Gap(Place[u], Place[w])]]
NearTwo == [u \in FivePoints |->
              [w \in FivePoints |-> IF 2 \in {u, w} THEN 1 ELSE 10 - Gaps[u][w]]]
Overlapping == { <<1, 2, 3, 4>>, <<5, 4, 2>>, <<4, 1>>, <<5>>, <<4, 5, 2, 3>> }

(* Points to be encoded: one and three subspaces, as wide as a vector, wider  *)
(* and narrower down to one; a point of norm 0, one whose norm overflows.     *)
Orthogonal == << <<1, 2, 2>>, <<2, 1, -2>>, <<2, -2, 1>> >>
rotation_matrix == [o \in {1, 3} |-> IF o = 1 THEN [x \in {0} \X {0} |-> 1]
                                     ELSE [x \in (0..2) \X (0..2) |-> Orthogonal[x[1] + 1][x[2] + 1]]]
Value(d, i) == ((7 * d * d + 5 * i * d + 3 * i) % 11) - 5
Source(how, bits, dims, n) ==
    [how |-> how, rsq_bits |-> bits,
     signs |-> [d \in 1..dims |-> IF d % 3 = 0 THEN -1 ELSE 1],
     rows |-> SubSeq(<< [d \in 1..dims |-> Value(d, 1)],
                        [d \in 1..dims |-> IF d = 1 THEN 9 ELSE Value(d, 3)],
                        [d \in 1..dims |-> 0],
                        [d \in 1..dims |-> IF d = 2 THEN Huge ELSE Value(d, 4)] >>, 1, n)]
Sources == UNION {{Source("memory", b, d, 2) : d \in {3, 6, 24, 48}} : b \in {1, 8}}
           \cup UNION {{Source("f32", b, 6, 4), Source("f16", b, 12, 4), Source("f16", b, 32, 2)} :
                         b \in {1, 8}}

(* Points to be assigned: by ids that are row numbers, by others, and on the  *)
(* Hamming path with and without a margin.                                    *)
ScoreTable(Of(_)) == [x \in 0..8 |-> [y \in 0..8 |-> Of(((x + 2 * y) % 7) - 2)]]
Job(hamming, depth, fanout, tau, points, leaders) ==
    [hamming |-> hamming, depth |-> depth, fanout |-> fanout, tau |-> tau, ids |-> points,
     leaders |-> leaders, dot |-> ScoreTable(LAMBDA v : v), ham |-> ScoreTable(LAMBDA v : (v * v) % 7)]
Jobs == {Job(FALSE, 0, f, <<0, 1>>, <<0, 1, 2, 3, 4>>, <<4, 1, 0, 2>>) : f \in 1..3}
        \cup {Job(FALSE, 1, f, <<0, 1>>, <<5, 3, 8>>, <<8, 5, 3>>) : f \in 1..3}
        \cup {Job(TRUE, 1, f, tau, <<5, 3, 8>>, <<8, 4, 6, 5>>) :
                f \in 1..3, tau \in {<<0, 1>>, <<1, 4>>, <<1, 2>>}}

(* Task descriptions with their fields in every order, and without one or     *)
(* with another value; two files for -input; datasets in every layout.        *)
T == INSTANCE DatasetInput WITH Tasks <- {}, cfg <- task_cfg, n <- vectors, dims <- vector_dims
Fields == << <<"gt_I", <<T!Mark("["), T!Word("allknn"), T!Word("knns"), T!Mark("]")>> >>,
             <<"data", <<T!Word("train")>> >>, <<"k", <<T!Number(15)>> >>,
             <<"dataset_name", <<T!Word("gooaq")>> >>, <<"filename", <<T!Word("g.h5")>> >> >>
Orders == {[j \in 1..5 |-> Fields[q[j]]] : q \in {f \in [1..5 -> 1..5] : {f[j] : j \in 1..5} = 1..5}}
With(j, tokens) == [Fields EXCEPT ![j][2] = tokens]
Vectors(rows, d) == [i \in 1..rows |-> [x \in 1..d |-> (20 * i) + x]]
Chunks == [ndims |-> 2, chunked |-> TRUE, elem_bytes |-> 4, is_float |-> TRUE, offset |-> 0,
           rows |-> Vectors(3, 12)]
Layouts == {Chunks, [Chunks EXCEPT !.elem_bytes = 2, !.rows = Vectors(3, 5)],
            [Chunks EXCEPT !.is_float = FALSE], [Chunks EXCEPT !.ndims = 1],
            [Chunks EXCEPT !.chunked = FALSE, !.offset = 2048],
            [Chunks EXCEPT !.chunked = FALSE, !.offset = 6, !.elem_bytes = 2],
            [Chunks EXCEPT !.chunked = FALSE, !.elem_bytes = 8]}
Named == <<"in/", "g.h5">>
Stray == <<"in/", "a.h5">>
Task(fields, input, stream, dataset) ==
    [fields |-> fields, input |-> input, stream |-> stream,
     argv |-> << <<"-input">>, Stray, Named, <<"-rsq">> >>,
     store |-> [path \in {Named, Stray} |->
                  IF path = Named THEN [g \in {"train"} |-> dataset] ELSE [g \in {"train", "test"} |-> Chunks]]]
Tasks == {Task(f, Stray, TRUE, Chunks) : f \in Orders}
         \cup {Task(Fields, i, s, d) : i \in {Named, Stray}, s \in BOOLEAN, d \in Layouts}
         \cup {Task(With(3, <<T!Number(i)>>), Named, TRUE, Chunks) : i \in {-1, 0, 1000, 1001}}
         \cup {Task(With(2, <<T!Word(g)>>), Named, TRUE, Chunks) : g \in {"", "test", "other"}}
         \cup {Task(With(j, <<T!Word("")>>), Named, TRUE, Chunks) : j \in {4, 5}}

(* Two runs over four points: one row of every length up to more than the two *)
(* columns, with ties and with distances that differ by more than max_ddist,  *)
(* against five others; another width, another params attribute, another row. *)
Rows(i) == LET other == 0..3 \ {i}
               Pairs == other \X {1, 2, 4}
               Asc(r) == /\ \A x, y \in DOMAIN r : x < y => r[x][1] # r[y][1] /\ r[x][2] <= r[y][2]
           IN  {r \in {<<>>} \cup {<<u>> : u \in Pairs} \cup {<<u, v>> : u, v \in Pairs}
                       \cup {<<u, v, w>> : u, v, w \in Pairs} : Asc(r)}
RunConfig(name, params, r1, r3) ==
    [name |-> name, params |-> params,
     rows |-> [i \in 0..3 |-> CASE i = 0 -> << <<1, 1>> >> [] i = 1 -> r1 [] i = 2 -> <<>>
                                 [] OTHER -> << <<0, 2>>, <<r3, 4>> >>]]
TwoRuns(r1, other, r3, width, params) ==
    [gt |-> [i \in 0..3 |-> IF i = 0 THEN <<1, 2>> ELSE <<i + 1, 1>>],
     runs |-> << [k |-> 2, configs |-> <<RunConfig("x", "p", r1, 1), RunConfig("y", "p", <<>>, 1)>>],
                 [k |-> width, configs |-> <<RunConfig("y", "p", <<>>, r3),
                                             RunConfig("x", params, other, 1)>>] >>]
OtherRows == {<<>>, << <<0, 1>> >>, << <<0, 1>>, <<2, 2>> >>, << <<3, 4>>, <<0, 4>> >>,
              << <<2, 1>>, <<0, 1>>, <<3, 4>> >>}
Comparisons == {TwoRuns(r, o, 1, 2, "p") : r \in Rows(1), o \in OtherRows}
               \cup {TwoRuns(<< <<0, 1>> >>, << <<0, 1>> >>, r3, width, params) :
                        r3 \in 1..2, width \in 2..3, params \in {"p", "q"}}

-----------------------------------------------------------------------------
L == INSTANCE LeaderTopK WITH kPoints <- leader_kPoints, pc <- leader_pc
R == INSTANCE RsqKernels WITH decoded <- kernel_decoded, p <- kernel_p, pc <- kernel_pc
P == INSTANCE ProcessLeaf WITH Leaves <- ScoredLeaves, K <- fused_K,
                               q_start <- leaf_q_start, p <- leaf_p, pc <- leaf_pc
E == INSTANCE RsqEncoder WITH Encoder <- Thread, todo <- uncoded, pc <- encoder_pc
A == INSTANCE LeaderAssign WITH Assigner <- Thread, todo <- blocks_left
I == INSTANCE DatasetInput WITH cfg <- task_cfg, n <- vectors, dims <- vector_dims
V == INSTANCE ResultTable WITH rows <- report

ASSUME L!LeaderTopKAssumption /\ P!ProcessLeafAssumption /\ LeafBatchesAssumption

leaderVars == <<call, decoded, lists, p_block, q_start, p, top, result, leader_pc>>
kernelVars == <<code, panels, kernel_decoded, kernel_p, dots, kernel_pc>>
leafVars == <<score, leaf_q_start, leaf_p, minv, db, out, leaf_pc>>
encoderVars == <<src, base, uncoded, at, tl_decode, rotated, tl_code1, codes, scales, byte_sums,
                 encoder_pc>>
assignVars == <<job, blocks_left, block, results, flat, emitted>>
inputVars == <<task, stage, task_cfg, sub_input, deferred_load, elem_bytes, offset, arena,
               aligned_bytes, vectors, vector_dims>>
tableVars == <<given, run, cfg, dirs, names, report, status>>

None == "none"
NoLeaders == /\ call = None /\ decoded = None /\ lists = None /\ p_block = None /\ q_start = None
             /\ p = None /\ top = None /\ result = None /\ leader_pc = None
NoKernels == /\ code = None /\ panels = None /\ kernel_decoded = None /\ kernel_p = None
             /\ dots = None /\ kernel_pc = None
NoLeaf == /\ score = None /\ leaf_q_start = None /\ leaf_p = None /\ minv = None /\ db = None
          /\ out = None /\ leaf_pc = None
NoEncoder == /\ src = None /\ base = None /\ uncoded = None /\ at = None /\ tl_decode = None
             /\ rotated = None /\ tl_code1 = None /\ codes = None /\ scales = None
             /\ byte_sums = None /\ encoder_pc = None
NoAssign == /\ job = None /\ blocks_left = None /\ block = None /\ results = None
            /\ flat = None /\ emitted = None
NoInput == /\ task = None /\ stage = None /\ task_cfg = None /\ sub_input = None
           /\ deferred_load = None /\ elem_bytes = None /\ offset = None /\ arena = None
           /\ aligned_bytes = None /\ vectors = None /\ vector_dims = None
NoTable == /\ given = None /\ run = None /\ cfg = None /\ dirs = None /\ names = None
           /\ report = None /\ status = None

KernelsInit ==
    /\ part \in {"leaders", "kernels", "leaf", "caller", "encoder", "assign", "input", "table"}
    /\ IF part = "leaders" THEN L!Init ELSE NoLeaders
    /\ IF part = "kernels" THEN R!Init ELSE NoKernels
    /\ IF part = "leaf" THEN P!Init ELSE NoLeaf
    /\ Init /\ (HAMMING_LEAF => part = "caller")
    /\ IF part = "encoder" THEN E!Init ELSE NoEncoder
    /\ IF part = "assign" THEN A!Init ELSE NoAssign
    /\ IF part = "input" THEN I!Init ELSE NoInput
    /\ IF part = "table" THEN V!Init ELSE NoTable

LeaderStep == /\ part = "leaders" /\ L!Next
              /\ UNCHANGED <<part, kernelVars, leafVars, vars, encoderVars,
                             assignVars, inputVars, tableVars>>
KernelStep == /\ part = "kernels" /\ R!Next
              /\ UNCHANGED <<part, leaderVars, leafVars, vars, encoderVars,
                             assignVars, inputVars, tableVars>>
LeafStep == /\ part = "leaf" /\ P!Next
            /\ UNCHANGED <<part, leaderVars, kernelVars, vars, encoderVars,
                           assignVars, inputVars, tableVars>>
CallerStep == /\ part = "caller" /\ Next
              /\ UNCHANGED <<part, leaderVars, kernelVars, leafVars, encoderVars,
                             assignVars, inputVars, tableVars>>
EncoderStep == /\ part = "encoder" /\ E!Next
               /\ UNCHANGED <<part, leaderVars, kernelVars, leafVars, vars,
                              assignVars, inputVars, tableVars>>
AssignStep == /\ part = "assign" /\ A!Next
              /\ UNCHANGED <<part, leaderVars, kernelVars, leafVars, vars,
                             encoderVars, inputVars, tableVars>>
InputStep == /\ part = "input" /\ I!Next
             /\ UNCHANGED <<part, leaderVars, kernelVars, leafVars, vars,
                            encoderVars, assignVars, tableVars>>
TableStep == /\ part = "table" /\ V!Next
             /\ UNCHANGED <<part, leaderVars, kernelVars, leafVars, vars,
                            encoderVars, assignVars, inputVars>>

KernelsNext ==
    \/ LeaderStep \/ KernelStep \/ LeafStep \/ CallerStep \/ EncoderStep \/ AssignStep
    \/ InputStep \/ TableStep

KernelsSpec ==
    KernelsInit /\ [][KernelsNext]_<<part, leaderVars, kernelVars, leafVars, vars, encoderVars,
                                     assignVars, inputVars, tableVars>>
-----------------------------------------------------------------------------
(* assignleaders_rsq.cc: every way of looking for the K nearest leaders finds *)
(* them, whatever the panels, lanes, blocks, batches and the old workspace.   *)
NearestLeaders == part = "leaders" => L!NearestLeaders

(* pipnn_rsq-inl.h: transposed, biased, padded and counted in bytes, every    *)
(* kernel gives the dot product of the stored codes.                          *)
KernelDots == part = "kernels" => R!KernelDots

(* processleaf_rsq.cc: scoring half of the pairs loses none, and points that  *)
(* stand in a list twice never cost it the nearest half.                      *)
LeafListsNearest == part = "leaf" => P!ListsAreNearest /\ P!HalfOfListIsThere

(* rotation.h, FwhtInPlaceImpl: the rotation keeps dot products up to one     *)
(* factor.                                                                    *)
RotationKeepsDots == part = "encoder" => E!RotationKeepsDots

(* point_range.h, rsq_encoder.cc, derive_rsq1_from_rsq8: the rows read are    *)
(* those of the dataset that the task names; codes, scales and sums are those *)
(* of the row, whoever encoded it and whatever the buffers held.              *)
CodesStandForPoints ==
    /\ part = "input" => I!DatasetIsTheTasks
    /\ part = "encoder" => E!CodesStandForPoints

(* pipnn_utils.h: every point gets its `fanout' nearest leaders, or those     *)
(* within the margin on the Hamming path.                                     *)
LeadersAssigned == part = "assign" => A!LeadersAssigned

(* build_topk and compare_results.py: the verdict on two directories of files *)
(* is one on the graphs they were made of.                                    *)
VerdictIsRight == part = "table" => V!VerdictIsRight
=============================================================================
