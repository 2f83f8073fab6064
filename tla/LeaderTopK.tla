----------------------------- MODULE LeaderTopK -----------------------------
(***************************************************************************)
(* AssignToLeadersTop1, AssignToLeadersTopK and                            *)
(* AssignToLeadersConsecutiveTopK                                          *)
(* (engine/algorithms/PipNN/quantization/assignleaders_rsq.cc): the        *)
(* leaders nearest to each query.  Leaders lie in panels of kPoints lanes, *)
(* the last one padded; panels are taken several at a time, in blocks that *)
(* fit the L2 cache, and a block is gone through for every batch of        *)
(* queries before the next.  "top1" and "blocked" (TopK when the panels do *)
(* not fit) keep the best of each lane in the workspace between blocks,    *)
(* "fits" has one block and merges the lanes of a batch at once,           *)
(* "consecutive" inserts into the result as it goes.  The workspace is     *)
(* thread-local and holds what earlier calls left in it.                   *)
(***************************************************************************)
EXTENDS TopKList

CONSTANTS
  TopK,              \* K of AssignToLeadersTopK
  kPoints,           \* lanes of a vector
  kMqK,              \* queries of a batch
  panels_per_block,
  Calls              \* [mode, queries: 0..n-1 -> point, score: point -> leader -> Int,
                     \*  norm: point -> Nat]

LeaderTopKAssumption ==
  /\ TopK \in Nat \ {0} /\ kPoints \in Nat \ {0} /\ kMqK \in Nat \ {0}
  /\ panels_per_block \in Nat \ {0}
  /\ \A c \in Calls : c.mode \in {"top1", "fits", "blocked", "consecutive"}

VARIABLES
  call,     \* the call that runs
  decoded,  \* workspace->all_q_decoded: which point's code each place holds
  lists,    \* workspace->min_scores, min_indices: [query -> [lane -> list]]
  p_block,  \* first panel of the block
  q_start,  \* first query of the batch
  p,        \* next panel
  top,      \* the registers: the lists of each lane, for each query of a batch
  result,   \* topk_results
  pc

vars == <<call, decoded, lists, p_block, q_start, p, top, result, pc>>

Query == DOMAIN call.queries
num_queries == Cardinality(Query)
Lane == 0..(kPoints - 1)
num_points == Cardinality(DOMAIN call.score[0])
num_panels == (num_points + kPoints - 1) \div kPoints
K == IF call.mode = "top1" THEN 1 ELSE TopK
p_end == IF call.mode = "fits" \/ p_block + panels_per_block > num_panels
         THEN num_panels ELSE p_block + panels_per_block

\* The queries of the batch, by their place in it: 0..actual_mq - 1.
Batch == {r \in 0..(kMqK - 1) : q_start + r < num_queries}

\* The lanes of a panel that hold a leader; the padded ones are masked.
Valid(panel) == {x \in Lane : panel * kPoints + x < num_points}

\* What the kernels make of lane x of a panel and the r-th query of the batch.
\* The norm of a padded lane is NaN; the masks put FLT_MAX in its place, and
\* the code that lets it through is a mutant that takes it for 0.
Decoded(r) == decoded[IF call.mode \in {"top1", "fits"} THEN r ELSE q_start + r]
ScoreOf(r, panel, x) ==
  LET l == panel * kPoints + x
  IN  IF l < num_points THEN call.score[Decoded(r)][l] ELSE 0

InLane(r, x, panel) ==
  IF x \in Valid(panel) THEN << [s |-> ScoreOf(r, panel, x), i |-> panel * kPoints + x] >>
                        ELSE <<>>
Empty == [x \in Lane |-> <<>>]

\* InsertTopK of every entry of the lanes, place by place as they are stored.
Merged(f) ==
  InsertAll(<<>>,
            FlattenSeq([k \in 1..K |-> FlattenSeq([x \in 1..kPoints |->
              IF k <= Len(f[x - 1]) THEN << f[x - 1][k] >> ELSE <<>>])]), K)

\* `result.scores[k] *= qn'.
Scaled(list, q) ==
  [x \in DOMAIN list |-> [list[x] EXCEPT !.s = @ * call.norm[call.queries[q]]]]

-----------------------------------------------------------------------------
\* Any call may come, on a workspace that an earlier one has used.
Stale == [s |-> -9, i |-> 0]
Init ==
  /\ call \in Calls
  /\ decoded = [q \in 0..0 |-> 0]
  /\ lists = [q \in Query |-> [x \in Lane |-> <<Stale>>]]
  /\ result = <<>> /\ top = <<>>
  /\ p_block = 0 /\ q_start = 0 /\ p = 0
  /\ pc = "call"

Enter(m) ==
  /\ pc = "call" /\ call.mode = m
  /\ result' = [q \in Query |-> <<>>]
  /\ pc' = "batch"
  /\ UNCHANGED <<call, p_block, q_start, p, top>>
EmptyLists == lists' = [q \in Query |-> Empty]

Top1Begin == Enter("top1") /\ EmptyLists /\ UNCHANGED decoded
FitsBegin == Enter("fits") /\ UNCHANGED <<decoded, lists>>
BlockedBegin == Enter("blocked") /\ EmptyLists /\ decoded' = call.queries
ConsecutiveBegin ==
  /\ Enter("consecutive")
  /\ decoded' = [q \in Query |-> call.queries[0] + q]
  /\ UNCHANGED lists

\* A batch: its queries decoded, if that was not done for all at the start, and
\* its lists loaded.
StartBatch(m) ==
  /\ pc = "batch" /\ call.mode = m
  /\ p' = p_block
  /\ pc' = "panels"
  /\ UNCHANGED <<call, lists, p_block, q_start, result>>
DecodeBatch == decoded' = [r \in Batch |-> call.queries[q_start + r]]
LoadLists == top' = [r \in Batch |-> lists[q_start + r]]

Top1Batch == StartBatch("top1") /\ DecodeBatch /\ LoadLists
FitsBatch == StartBatch("fits") /\ DecodeBatch /\ top' = [r \in Batch |-> Empty]
BlockedBatch == StartBatch("blocked") /\ LoadLists /\ UNCHANGED decoded
ConsecutiveBatch == StartBatch("consecutive") /\ UNCHANGED <<decoded, top>>

\* A turn of the loop that takes w panels, when no wider one can be taken.
Turn(m, w) ==
  /\ pc = "panels" /\ call.mode = m
  /\ p + w <= p_end
  /\ w = 8 \/ (w = 4 /\ m # "consecutive") \/ p + 2 * w > p_end
  /\ p' = p + w
  /\ UNCHANGED <<call, decoded, lists, p_block, q_start, pc>>

\* update_top1, update_topk: each lane of each panel against its own list.
InLanes(m, w) ==
  /\ Turn(m, w)
  /\ top' = [r \in Batch |-> [x \in Lane |->
              InsertAll(top[r][x], FlattenSeq([j \in 1..w |-> InLane(r, x, p + j - 1)]), K)]]
  /\ UNCHANGED result

Top1Panels4 == InLanes("top1", 4)
Top1Panels2 == InLanes("top1", 2)
Top1Panels1 == InLanes("top1", 1)
FitsPanels4 == InLanes("fits", 4)
FitsPanels2 == InLanes("fits", 2)
FitsPanels1 == InLanes("fits", 1)
BlockedPanels4 == InLanes("blocked", 4)
BlockedPanels2 == InLanes("blocked", 2)
BlockedPanels1 == InLanes("blocked", 1)

\* score_epilogue: what beats the K-th best so far goes into the result, lane
\* after lane.
InResult(list, r, panel) ==
  InsertAll(list, FlattenSeq([x \in 1..kPoints |-> InLane(r, x - 1, panel)]), K)
Epilogues(r, w) ==
  FoldLeft(LAMBDA l, j : InResult(l, r, p + j - 1), result[q_start + r],
           [j \in 1..w |-> j])

\* The test before the eight epilogues: is the least score of any lane below
\* the threshold?  It is taken before the padding is masked.  The least of some
\* numbers and a NaN is either, as the compiler orders the operands: lanes whose
\* last panel is padded may be lost.
Prefilter(r, lost) ==
  LET list == result[q_start + r]
  IN  \E x \in Lane \ lost, j \in 0..7 :
         /\ x \in Valid(p + j)
         /\ Len(list) < K \/ ScoreOf(r, p + j, x) < list[K].s

IntoResult(m, w, Passes(_)) ==
  /\ Turn(m, w)
  /\ result' = [q \in Query |->
       IF q - q_start \in Batch /\ Passes(q - q_start) THEN Epilogues(q - q_start, w)
                                                       ELSE result[q]]
  /\ UNCHANGED top
All(r) == TRUE

ConsecutivePanels8 ==
  \E lost \in SUBSET (Lane \ Valid(p + 7)) :
    IntoResult("consecutive", 8, LAMBDA r : Prefilter(r, lost))
ConsecutivePanels4 == IntoResult("consecutive", 4, All)
ConsecutivePanels2 == IntoResult("consecutive", 2, All)
ConsecutivePanels1 == IntoResult("consecutive", 1, All)

\* The loops over the batches of a block, and over the blocks.
LastBatch == q_start + kMqK >= num_queries
\* Mutant: the next block starts at the last batch.
NextBlock_LastBatch == q_start' = q_start /\ p_block' = p_end

NextBlock == q_start' = 0 /\ p_block' = p_end
Advance(m, last) ==
  /\ pc = "panels" /\ call.mode = m /\ p = p_end
  /\ \/ /\ ~LastBatch
        /\ q_start' = q_start + kMqK
        /\ pc' = "batch"
        /\ UNCHANGED p_block
     \/ /\ LastBatch /\ p_end < num_panels
        /\ NextBlock
        /\ pc' = "batch"
     \/ /\ LastBatch /\ p_end = num_panels
        /\ pc' = last
        /\ UNCHANGED <<q_start, p_block>>
  /\ UNCHANGED <<call, decoded, p, top>>

StoreLists ==
  lists' = [q \in Query |-> IF q - q_start \in Batch THEN top[q - q_start] ELSE lists[q]]

Top1Store == Advance("top1", "finish") /\ StoreLists /\ UNCHANGED result
BlockedStore == Advance("blocked", "finish") /\ StoreLists /\ UNCHANGED result
FitsMerge ==
  /\ Advance("fits", "done")
  /\ result' = [q \in Query |-> IF q - q_start \in Batch
                                THEN Scaled(Merged(top[q - q_start]), q) ELSE result[q]]
  /\ UNCHANGED lists
ConsecutiveNext == Advance("consecutive", "finish") /\ UNCHANGED <<lists, result>>

Finish(m) ==
  /\ pc = "finish" /\ call.mode = m
  /\ pc' = "done"
  /\ UNCHANGED <<call, decoded, lists, p_block, q_start, p, top>>

\* The first lane that holds the least score gives the leader.
Best(f) ==
  LET least(x) == f[x] # <<>> /\ \A y \in Lane : f[y] # <<>> => f[x][1].s <= f[y][1].s
  IN  IF \A x \in Lane : f[x] = <<>> THEN <<>>
      ELSE f[CHOOSE x \in Lane : least(x) /\ \A y \in Lane : least(y) => x <= y]

Top1Reduce == Finish("top1") /\ result' = [q \in Query |-> Scaled(Best(lists[q]), q)]
BlockedMerge == Finish("blocked") /\ result' = [q \in Query |-> Scaled(Merged(lists[q]), q)]
ConsecutiveScale == Finish("consecutive") /\ result' = [q \in Query |-> Scaled(result[q], q)]

Finished == pc = "done" /\ UNCHANGED vars

Top1 == \/ Top1Begin \/ Top1Batch \/ Top1Panels4 \/ Top1Panels2 \/ Top1Panels1
        \/ Top1Store \/ Top1Reduce
Fits == \/ FitsBegin \/ FitsBatch \/ FitsPanels4 \/ FitsPanels2 \/ FitsPanels1
        \/ FitsMerge
Blocked == \/ BlockedBegin \/ BlockedBatch \/ BlockedPanels4 \/ BlockedPanels2
           \/ BlockedPanels1 \/ BlockedStore \/ BlockedMerge
Consecutive == \/ ConsecutiveBegin \/ ConsecutiveBatch \/ ConsecutivePanels8
               \/ ConsecutivePanels4 \/ ConsecutivePanels2 \/ ConsecutivePanels1
               \/ ConsecutiveNext \/ ConsecutiveScale

Next == Top1 \/ Fits \/ Blocked \/ Consecutive \/ Finished

Spec == Init /\ [][Next]_vars
-----------------------------------------------------------------------------
\* Whichever way a query's leaders are looked for, however they are cut into
\* panels, lanes, blocks and batches and whatever the workspace held before, it
\* gets the K nearest (or all there are, if fewer), none twice, none from the
\* padding, scaled by its own norm.  extract_block relies on it: it takes the
\* first `fanout' leaders without asking how many there are.
NearestLeaders ==
  pc = "done" =>
    \A q \in Query :
      LET pt == call.queries[q]
      IN  IsTopList(result[q], K, [l \in 0..(num_points - 1) |-> 1],
                    [l \in 0..(num_points - 1) |-> call.score[pt][l] * call.norm[pt]])
=============================================================================
