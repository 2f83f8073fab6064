---------------------------- MODULE LeaderAssign ----------------------------
(***************************************************************************)
(* rsq_assign_leaders and rsq_assign_leaders_hamming_rescore               *)
(* (engine/algorithms/PipNN/pipnn_utils.h): the pairs (leader, point) that *)
(* SelectAndAssignLeaders groups into clusters.  The points are cut into   *)
(* blocks that the workers of a blocked_for take in any order; a worker    *)
(* keeps its queries and results from block to block.  The kernels of      *)
(* LeaderTopK do the scoring: they return the nearest leaders, in any      *)
(* order that their scores allow.  The Hamming path asks them for kSurface *)
(* leaders on the 1-bit codes, scores those again on the 8-bit codes and   *)
(* keeps the ones within a margin of the best.                             *)
(***************************************************************************)
EXTENDS TopKList, FiniteSets, FiniteSetsExt

CONSTANTS
  Assigner,    \* the workers
  kBlockSize,
  kFew, kMany, \* the lengths of list there are kernels for, 3 and 10
  kSurface,    \* leaders that are scored again
  Jobs         \* [hamming, depth, fanout, tau: <<numerator, denominator>> or <<0, 1>>,
               \*  ids: seq of points, leaders: seq of points,
               \*  dot, ham: point -> point -> Int, more is nearer]

VARIABLES
  job,
  todo,     \* blocks nobody has taken
  block,    \* the block each worker is at, or NoBlock
  results,  \* thread_local: the kernels' lists, of leaders by their place from 0
  flat,     \* [slot -> <<leader, point>>]
  emitted   \* how many pairs are real, as counted

vars == <<job, todo, block, results, flat, emitted>>

NoBlock == -1
kInvalidLeader == -1
Slot == 0..(Len(job.ids) * job.fanout - 1)
Leader == 0..(Len(job.leaders) - 1)
AbsOf(x) == IF x < 0 THEN -x ELSE x
Pairs(i) == [c \in 1..job.fanout |-> flat[i * job.fanout + c - 1]]

\* What each entry of a block is looked up by: the kernel for consecutive points
\* is told where the block starts and ends, the others get the ids.
Consecutive == ~job.hamming /\ job.depth = 0 /\ job.fanout > 1
QueryOf(i) == IF Consecutive THEN i ELSE job.ids[i + 1]

K == IF job.hamming THEN kSurface
     ELSE IF job.fanout <= 1 /\ ~Consecutive THEN 1
     ELSE IF job.fanout <= kFew THEN kFew ELSE kMany

\* Any list the kernels may return for a point: the scores are compared on the
\* code they are given.
KernelLists(pt) ==
  LET near(l) == (IF job.hamming THEN job.ham ELSE job.dot)[pt][job.leaders[l + 1]]
      len == IF Len(job.leaders) < K THEN Len(job.leaders) ELSE K
  IN  {s \in [1..len -> Leader] :
         /\ \A x, y \in 1..len : x < y => s[x] # s[y] /\ near(s[x]) >= near(s[y])
         /\ \A l \in Leader \ {s[x] : x \in 1..len} : near(l) <= near(s[len])}

\* Rsq8CorrectedDotFast.
Score(pt, l) == job.dot[pt][job.leaders[l + 1]]

-----------------------------------------------------------------------------
Init ==
  /\ job \in Jobs
  /\ todo = {b \in Slot : b * kBlockSize < Len(job.ids)}
  /\ block = [t \in Assigner |-> NoBlock]
  /\ results = [t \in Assigner |-> <<>>]
  /\ flat = [s \in Slot |-> <<0, 0>>]
  /\ emitted = 0

First(t) == block[t] * kBlockSize
BlockLen(b) ==
  IF (b + 1) * kBlockSize < Len(job.ids) THEN kBlockSize ELSE Len(job.ids) - b * kBlockSize

\* A worker takes a block and calls the kernel on it.
AssignToLeaders(t) ==
  /\ block[t] = NoBlock
  /\ \E b \in todo :
       /\ todo' = todo \ {b}
       /\ block' = [block EXCEPT ![t] = b]
       /\ \E lists \in [1..BlockLen(b) -> UNION {KernelLists(pt) : pt \in ToSet(job.ids)}] :
            /\ \A j \in 1..BlockLen(b) :
                 lists[j] \in KernelLists(QueryOf(b * kBlockSize + j - 1))
            /\ results' = [results EXCEPT ![t] = lists]
  /\ UNCHANGED <<job, flat, emitted>>

\* The part of flat that a block writes, the rest as it was.
Write(t, pairs) ==
  flat' = [s \in Slot |->
             LET j == s \div job.fanout - First(t)
             IN  IF j \in 0..(Len(results[t]) - 1) THEN pairs[j + 1][(s % job.fanout) + 1]
                                                  ELSE flat[s]]

\* extract_block: the first `fanout' leaders; a slot without one keeps (0, 0).
ExtractBlock(t) ==
  /\ block[t] # NoBlock /\ ~job.hamming
  /\ Write(t, [j \in 1..Len(results[t]) |-> [fn \in 1..job.fanout |->
       IF fn <= Len(results[t][j]) THEN <<results[t][j][fn], job.ids[First(t) + j]>>
                                   ELSE <<0, 0>>]])
  /\ block' = [block EXCEPT ![t] = NoBlock]
  /\ UNCHANGED <<job, todo, results, emitted>>

\* The insertion sort of the `fanout' best of a list by their new scores.
BestOf(pt, list) ==
  InsertAll(<<>>, [c \in DOMAIN list |-> [s |-> -Score(pt, list[c]), i |-> list[c]]],
            job.fanout)

\* Mutant: each is compared with the one before it, not with the best.
Kept_Chain(pt, best) ==
  LET score(r) == Score(pt, best[r].i)
      Within(r) == (score(r - 1) - score(r)) * job.tau[2] <= job.tau[1] * AbsOf(score(1))
  IN  IF job.tau[1] = 0 THEN best
      ELSE SubSeq(best, 1, Max({r \in 1..Len(best) : \A x \in 2..r : Within(x)}))

\* The best, and those behind it up to the first that is further than the margin.
Kept(pt, best) ==
  LET score(r) == Score(pt, best[r].i)
      Within(r) == (score(1) - score(r)) * job.tau[2] <= job.tau[1] * AbsOf(score(1))
  IN  IF job.tau[1] = 0 THEN best
      ELSE SubSeq(best, 1, Max({r \in 1..Len(best) : \A x \in 2..r : Within(x)}))

\* Rsq8RescoreExtractLeaders.
RescoreExtractLeaders(t) ==
  /\ block[t] # NoBlock /\ job.hamming
  /\ LET kept == [j \in 1..Len(results[t]) |->
                    LET pt == job.ids[First(t) + j] IN Kept(pt, BestOf(pt, results[t][j]))]
     IN  /\ Write(t, [j \in 1..Len(results[t]) |-> [fn \in 1..job.fanout |->
              IF fn <= Len(kept[j]) THEN <<kept[j][fn].i, job.ids[First(t) + j]>>
                                    ELSE <<kInvalidLeader, 0>>]])
         /\ emitted' = emitted + FoldLeft(LAMBDA n, list : n + Len(list), 0, kept)
  /\ block' = [block EXCEPT ![t] = NoBlock]
  /\ UNCHANGED <<job, todo, results>>

Done == todo = {} /\ \A t \in Assigner : block[t] = NoBlock
Finished == Done /\ UNCHANGED vars

Next == \/ Finished
        \/ \E t \in Assigner : AssignToLeaders(t) \/ ExtractBlock(t) \/ RescoreExtractLeaders(t)

Spec == Init /\ [][Next]_vars
-----------------------------------------------------------------------------
\* The leaders in C nearest to a point on the given codes, n of them.
AreNearest(near, n, S, C) ==
  /\ S \subseteq C /\ Cardinality(S) = (IF Cardinality(C) < n THEN Cardinality(C) ELSE n)
  /\ \A x \in S, y \in C \ S : near[job.leaders[x + 1]] >= near[job.leaders[y + 1]]

\* Every point, whichever worker had its block, is given to `fanout' different
\* leaders, the nearest, or on the Hamming path to those that the 8-bit codes put
\* within the margin of the best of the kSurface that the 1-bit codes chose.
\* There is always one; places left over are marked, and the count of the others
\* is what the adaptive report says.
LeadersAssigned ==
  Done =>
    /\ \A i \in 0..(Len(job.ids) - 1) :
         LET pt == job.ids[i + 1]
             real == {c \in 1..job.fanout : Pairs(i)[c] # <<kInvalidLeader, 0>>}
             given == {Pairs(i)[c][1] : c \in real}
             best == Max({Score(pt, l) : l \in given})
         IN  /\ real = 1..Cardinality(given) /\ given # {}
             /\ \A c \in real : Pairs(i)[c][2] = pt
             /\ \E S, C \in SUBSET Leader :
                  /\ IF job.hamming THEN AreNearest(job.ham[pt], kSurface, C, Leader) ELSE C = Leader
                  /\ AreNearest(job.dot[pt], job.fanout, S, C)
                  /\ given = {l \in S : job.tau[1] = 0 \/
                       (best - Score(pt, l)) * job.tau[2] <= job.tau[1] * AbsOf(best)}
    /\ job.hamming => emitted = Cardinality({s \in Slot : flat[s] # <<kInvalidLeader, 0>>})
=============================================================================
