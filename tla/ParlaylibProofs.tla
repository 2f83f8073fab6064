-------------------------- MODULE ParlaylibProofs --------------------------
(***************************************************************************)
(* What MC_Parlaylib checks on one instance, for every value of the        *)
(* constants: the stack of free lists, the block allocator and the job     *)
(* deque of ParlayLib, from the proofs of their own modules, and the       *)
(* progress lines of the engine.                                           *)
(***************************************************************************)
EXTENDS MC_Parlaylib, FiniteSetTheorems, TLAPS

-----------------------------------------------------------------------------
(* The progress lines. *)

step == P!progress_step_

\* The workers that are still after a milestone and have a count for the next.
Pending == {t \in Thread : pc[t] # "idle" /\ done[t] >= next_milestone_}

(***************************************************************************)
(* The inductive invariant.  What is claimed are the milestones before the *)
(* next; and if milestones are as far apart as there are workers, the      *)
(* count is ahead of them by no more than one leaf for each worker that is *)
(* still to look (Ahead): a worker that claims one may leave others behind *)
(* it, but no more than the step it has just taken.                        *)
(***************************************************************************)
Counted ==
    /\ leaves_done_ \in Nat /\ left \in Nat /\ leaves_done_ + left <= Leaves
    /\ step # 0 => leaves_done_ + left = Leaves
    /\ pc \in [Thread -> {"idle", "load", "claim"}]
    /\ done \in [Thread -> 0..Leaves] /\ expected \in [Thread -> Nat]
    /\ \A t \in Thread : pc[t] # "idle" => step # 0

NextIs == \E k \in 1..(Leaves + 1) : next_milestone_ = k * step

Claims ==
    /\ \A c \in claimed :
         c.milestone \in Nat /\ c.milestone < next_milestone_ /\ c.done >= c.milestone
    /\ \A c, d \in claimed : c.milestone = d.milestone => c = d
    /\ \A m \in P!Milestones : m < next_milestone_ => \E c \in claimed : c.milestone = m
    /\ \A t \in Thread : pc[t] = "claim" => expected[t] <= done[t]

Ahead == step >= Cardinality(Thread) => leaves_done_ - next_milestone_ + 1 <= Cardinality(Pending)

ProgressInv == Counted /\ NextIs /\ Claims /\ Ahead

\* The instance's own cardinalities.
LEMMA SameSizes ==
  \A X : /\ P!IsFiniteSet(X) <=> IsFiniteSet(X)
         /\ P!Cardinality(X) = Cardinality(X)
<1>1. \A X : P!IsFiniteSet(X) <=> IsFiniteSet(X)
  BY DEF P!IsFiniteSet, IsFiniteSet
<1>2. \A X : P!Cardinality(X) = Cardinality(X)
  BY DEF P!Cardinality, Cardinality
<1> QED BY <1>1, <1>2

LEMMA WorkersAreFinite ==
  ASSUME P!ProgressAssumption
  PROVE  IsFiniteSet(Thread) /\ Cardinality(Thread) \in Nat /\ Cardinality(Thread) # 0
<1>1. IsFiniteSet(Thread) /\ Thread # {}
  BY SameSizes DEF P!ProgressAssumption
<1> QED BY <1>1, FS_EmptySet, FS_CardinalityType

LEMMA StepIsNat == ASSUME P!ProgressAssumption PROVE step \in Nat
BY DEF P!ProgressAssumption, step, P!progress_step_, P!Parts

LEMMA Multiples ==
  ASSUME NEW j \in Nat, NEW k \in Nat, NEW s \in Nat, j * s < (k + 1) * s
  PROVE  j <= k
<1>1. SUFFICES ASSUME j >= k + 1 PROVE FALSE
  OBVIOUS
<1>2. PICK r \in Nat : j = k + 1 + r
  BY <1>1
<1>3. j * s = (k + 1) * s + r * s
  BY <1>2
<1>4. r * s \in Nat /\ (k + 1) * s \in Nat
  OBVIOUS
<1> QED BY <1>3, <1>4

LEMMA PendingIsFinite ==
  ASSUME P!ProgressAssumption
  PROVE  /\ IsFiniteSet(Pending) /\ Cardinality(Pending) \in Nat
         /\ Cardinality(Thread) \in Nat /\ Cardinality(Pending) <= Cardinality(Thread)
<1>1. IsFiniteSet(Thread) /\ Pending \in SUBSET Thread
  BY WorkersAreFinite DEF Pending
<1>2. IsFiniteSet(Pending) /\ Cardinality(Pending) <= Cardinality(Thread)
  BY <1>1, FS_Subset
<1> QED BY <1>1, <1>2, FS_CardinalityType

LEMMA NextIsNat ==
  ASSUME P!ProgressAssumption, NextIs
  PROVE  next_milestone_ \in Nat /\ P!Milestones \subseteq Nat
<1>1. step \in Nat /\ Leaves \in Nat
  BY StepIsNat DEF P!ProgressAssumption
<1>2. \A k \in Nat : k * step \in Nat
  BY <1>1
<1>3. 1..(Leaves + 1) \subseteq Nat
  BY <1>1
<1>4. next_milestone_ \in Nat
  BY <1>2, <1>3 DEF NextIs
<1>5. P!Milestones \subseteq Nat
  BY <1>2, <1>3 DEF P!Milestones, step
<1> QED BY <1>4, <1>5

LEMMA ProgressInit ==
  ASSUME P!ProgressAssumption, P!Init
  PROVE  ProgressInv
<1>1. step \in Nat /\ Leaves \in Nat
  BY StepIsNat DEF P!ProgressAssumption
<1>2. Counted
  BY <1>1 DEF P!Init, Counted
<1>3. next_milestone_ = step /\ next_milestone_ = 1 * step
  BY <1>1 DEF P!Init, step
<1>4. NextIs
  BY <1>1, <1>3 DEF NextIs
<1>5. \A m \in P!Milestones : ~ (m < next_milestone_)
  <2> SUFFICES ASSUME NEW k \in 1..(Leaves + 1), k * step < (0 + 1) * step PROVE FALSE
    BY <1>1, <1>3 DEF P!Milestones, step
  <2>1. k \in Nat /\ k # 0 /\ 0 \in Nat
    BY <1>1
  <2> QED BY <1>1, <2>1, Multiples
<1>6. Claims
  BY <1>5 DEF P!Init, Claims
<1>7. Ahead
  <2>1. Cardinality(Pending) \in Nat /\ Cardinality(Thread) \in Nat
    BY PendingIsFinite
  <2>2. Cardinality(Thread) # 0
    BY WorkersAreFinite
  <2>3. leaves_done_ = 0
    BY DEF P!Init
  <2>4. step >= Cardinality(Thread) => 0 - step + 1 <= Cardinality(Pending)
    BY <1>1, <2>1, <2>2
  <2> QED BY <1>3, <2>3, <2>4 DEF Ahead
<1> QED BY <1>2, <1>4, <1>6, <1>7 DEF ProgressInv

LEMMA FinishLeafStep ==
  ASSUME P!ProgressAssumption, ProgressInv, NEW t \in Thread, P!FinishLeaf(t)
  PROVE  ProgressInv'
<1>1. step \in Nat /\ Leaves \in Nat /\ next_milestone_ \in Nat
  BY StepIsNat, NextIsNat DEF P!ProgressAssumption, ProgressInv
<1>2. /\ pc[t] = "idle" /\ left > 0 /\ left' = left - 1
      /\ UNCHANGED <<next_milestone_, expected, claimed>>
  BY DEF P!FinishLeaf
<1>3. NextIs'
  BY <1>2 DEF ProgressInv, NextIs, step, P!progress_step_
<1>4. CASE step = 0
  <2>1. UNCHANGED <<pc, done, leaves_done_>>
    BY <1>4 DEF P!FinishLeaf, step
  <2>2. Counted'
    BY <1>1, <1>2, <1>4, <2>1 DEF ProgressInv, Counted, step, P!progress_step_
  <2>3. Claims'
    BY <1>2, <2>1 DEF ProgressInv, Claims, P!Milestones, P!progress_step_
  <2>4. Ahead'
    BY <1>2, <2>1 DEF ProgressInv, Ahead, Pending, step, P!progress_step_
  <2> QED BY <1>3, <2>2, <2>3, <2>4 DEF ProgressInv
<1>5. CASE step # 0
  <2>1. /\ leaves_done_' = leaves_done_ + 1
        /\ done' = [done EXCEPT ![t] = leaves_done_ + 1]
        /\ pc' = [pc EXCEPT ![t] = "load"]
    BY <1>5 DEF P!FinishLeaf, step
  <2>2. Counted'
    BY <1>1, <1>2, <1>5, <2>1 DEF ProgressInv, Counted, step, P!progress_step_
  <2>3. Claims'
    BY <1>2, <2>1 DEF ProgressInv, Counted, Claims, P!Milestones, P!progress_step_
  <2>4. t \notin Pending /\ IsFiniteSet(Pending) /\ Cardinality(Pending) \in Nat
    BY <1>2, PendingIsFinite DEF Pending
  <2>5. Pending' = IF leaves_done_ + 1 >= next_milestone_ THEN Pending \cup {t} ELSE Pending
    BY <1>2, <2>1 DEF ProgressInv, Counted, Pending
  <2>6. Cardinality(Pending \cup {t}) = Cardinality(Pending) + 1
    BY <2>4, FS_AddElement
  <2>7. leaves_done_ \in Nat
    BY DEF ProgressInv, Counted
  <2>8. ASSUME step >= Cardinality(Thread)
        PROVE  leaves_done_' - next_milestone_' + 1 <= Cardinality(Pending')
    <3>1. leaves_done_ - next_milestone_ + 1 <= Cardinality(Pending)
      BY <2>8 DEF ProgressInv, Ahead
    <3>2. CASE leaves_done_ + 1 >= next_milestone_
      BY <1>1, <1>2, <2>1, <2>4, <2>5, <2>6, <2>7, <3>1, <3>2
    <3>3. CASE ~ (leaves_done_ + 1 >= next_milestone_)
      BY <1>1, <1>2, <2>1, <2>4, <2>5, <2>7, <3>3
    <3> QED BY <3>2, <3>3
  <2>9. Ahead'
    BY <2>8 DEF Ahead, step, P!progress_step_
  <2> QED BY <1>3, <2>2, <2>3, <2>9 DEF ProgressInv
<1> QED BY <1>4, <1>5

\* A worker that goes on looking, or stops because the next milestone is beyond
\* its count.
LEMMA LookStep ==
  ASSUME P!ProgressAssumption, ProgressInv, NEW t \in Thread, pc[t] # "idle",
         NEW m \in Nat, m <= next_milestone_,
         expected' = [expected EXCEPT ![t] = m],
         pc' = [pc EXCEPT ![t] = IF done[t] < m THEN "idle" ELSE "claim"],
         UNCHANGED <<leaves_done_, next_milestone_, left, done, claimed>>
  PROVE  ProgressInv'
<1>1. step \in Nat /\ Leaves \in Nat /\ next_milestone_ \in Nat /\ done[t] \in Nat
  BY StepIsNat, NextIsNat DEF P!ProgressAssumption, ProgressInv, Counted
<1>2. Counted'
  BY DEF ProgressInv, Counted, step, P!progress_step_
<1>3. NextIs'
  BY DEF ProgressInv, NextIs, step, P!progress_step_
<1>4. \A u \in Thread : pc'[u] = "claim" => expected'[u] <= done'[u]
  BY <1>1 DEF ProgressInv, Counted, Claims
<1>5. Claims'
  BY <1>4 DEF ProgressInv, Claims, P!Milestones, P!progress_step_
<1>6. \A u \in Thread : u \in Pending' <=> u \in Pending
  <2> TAKE u \in Thread
  <2>1. CASE u = t
    BY <1>1, <2>1 DEF ProgressInv, Counted, Pending
  <2>2. CASE u # t
    BY <2>2 DEF ProgressInv, Counted, Pending
  <2> QED BY <2>1, <2>2
<1>7. Pending' = Pending
  BY <1>6 DEF Pending
<1>8. Ahead'
  BY <1>7 DEF ProgressInv, Ahead, step, P!progress_step_
<1> QED BY <1>2, <1>3, <1>5, <1>8 DEF ProgressInv

\* The milestone that was next is claimed, and no other.
LEMMA ClaimStep ==
  ASSUME P!ProgressAssumption, ProgressInv, NEW t \in Thread, P!Claim(t)
  PROVE  ProgressInv'
<1>1. step \in Nat /\ Leaves \in Nat /\ next_milestone_ \in Nat /\ done[t] \in 0..Leaves
  BY StepIsNat, NextIsNat DEF P!ProgressAssumption, ProgressInv, Counted
<1>2. PICK n : n = next_milestone_ /\ n \in Nat
  BY <1>1
<1>3. PICK c : c = [milestone |-> n, done |-> done[t]]
  OBVIOUS
<1>4. /\ pc[t] = "claim" /\ expected[t] = n
      /\ next_milestone_' = n + step
      /\ claimed' = claimed \cup {c}
      /\ pc' = [pc EXCEPT ![t] = "idle"]
      /\ UNCHANGED <<leaves_done_, left, done, expected>>
  BY <1>2, <1>3 DEF P!Claim, step
<1>5. step # 0 /\ n <= done[t] /\ n <= Leaves
  BY <1>1, <1>2, <1>4 DEF ProgressInv, Counted, Claims
<1>6. Counted'
  BY <1>4 DEF ProgressInv, Counted, step, P!progress_step_
<1>7. PICK k \in 1..(Leaves + 1) : n = k * step
  BY <1>2 DEF ProgressInv, NextIs
<1>8. k \in Nat /\ k + 1 \in 1..(Leaves + 1)
  <2>1. k \in Nat
    BY <1>1
  <2>2. k * step >= k
    BY <1>1, <1>5, <2>1
  <2> QED BY <1>1, <1>5, <1>7, <2>1, <2>2
<1>9. n + step = (k + 1) * step
  BY <1>1, <1>7, <1>8
<1>10. NextIs'
  BY <1>4, <1>8, <1>9 DEF NextIs, step, P!progress_step_
<1>11. Claims'
  <2>1. ASSUME NEW d \in claimed'
        PROVE  d.milestone \in Nat /\ d.milestone < n + step /\ d.done >= d.milestone
    <3>1. CASE d = c
      BY <1>1, <1>2, <1>3, <1>5, <3>1
    <3>2. CASE d \in claimed
      BY <1>1, <1>2, <3>2 DEF ProgressInv, Claims
    <3> QED BY <1>4, <2>1, <3>1, <3>2
  <2>2. \A d \in claimed : d.milestone # n
    BY <1>2 DEF ProgressInv, Claims
  <2>3. \A d, e \in claimed' : d.milestone = e.milestone => d = e
    BY <1>3, <1>4, <2>2 DEF ProgressInv, Claims
  <2>4. ASSUME NEW m \in P!Milestones, m < n + step
        PROVE  \E d \in claimed' : d.milestone = m
    <3>1. CASE m < n
      <4>1. \E d \in claimed : d.milestone = m
        BY <1>2, <3>1 DEF ProgressInv, Claims
      <4> QED BY <1>4, <4>1
    <3>2. CASE m >= n
      <4>1. PICK j \in 1..(Leaves + 1) : m = j * step
        BY DEF P!Milestones, step
      <4>2. j \in Nat /\ j <= k
        BY <1>1, <1>8, <1>9, <2>4, <4>1, Multiples
      <4>3. j * step <= k * step
        <5>1. PICK r \in Nat : k = j + r
          BY <1>8, <4>2
        <5>2. k * step = j * step + r * step /\ r * step \in Nat /\ j * step \in Nat
          BY <1>1, <4>2, <5>1
        <5> QED BY <5>2
      <4>4. m = n
        BY <1>1, <1>2, <1>7, <1>8, <3>2, <4>1, <4>2, <4>3
      <4> QED BY <1>3, <1>4, <4>4
    <3> QED
      <4>1. m \in Nat
        BY NextIsNat DEF ProgressInv
      <4> QED BY <1>2, <3>1, <3>2, <4>1
  <2>5. P!Milestones' = P!Milestones
    BY DEF P!Milestones, P!progress_step_
  <2>6. \A u \in Thread : pc'[u] = "claim" => expected'[u] <= done'[u]
    BY <1>4 DEF ProgressInv, Claims, Counted
  <2> QED BY <1>4, <2>1, <2>3, <2>4, <2>5, <2>6 DEF Claims
<1>12. Ahead'
  <2>1. /\ Cardinality(Pending) \in Nat /\ Cardinality(Pending') \in Nat
        /\ Cardinality(Thread) \in Nat /\ Cardinality(Pending) <= Cardinality(Thread)
    <3>1. Pending' \in SUBSET Thread /\ IsFiniteSet(Thread)
      BY WorkersAreFinite DEF Pending
    <3>2. IsFiniteSet(Pending')
      BY <3>1, FS_Subset
    <3> QED BY <3>2, PendingIsFinite, FS_CardinalityType
  <2>2. leaves_done_ \in Nat
    BY DEF ProgressInv, Counted
  <2>3. step >= Cardinality(Thread) => leaves_done_ - n + 1 <= Cardinality(Pending)
    BY <1>2 DEF ProgressInv, Ahead
  <2>4. step >= Cardinality(Thread) => leaves_done_ - (n + step) + 1 <= Cardinality(Pending')
    BY <1>1, <1>2, <2>1, <2>2, <2>3
  <2> QED BY <1>4, <2>4 DEF Ahead, step, P!progress_step_
<1> QED BY <1>6, <1>10, <1>11, <1>12 DEF ProgressInv

LEMMA ProgressSteps ==
  ASSUME P!ProgressAssumption, ProgressInv, [P!Next]_P!vars
  PROVE  ProgressInv'
<1>1. ASSUME NEW t \in Thread, P!FinishLeaf(t) PROVE ProgressInv'
  BY <1>1, FinishLeafStep
<1>2. ASSUME NEW t \in Thread, P!Load(t) PROVE ProgressInv'
  <2>1. PICK m \in P!Visible(t) :
          /\ expected' = [expected EXCEPT ![t] = m]
          /\ pc' = [pc EXCEPT ![t] = IF done[t] < m THEN "idle" ELSE "claim"]
    BY <1>2 DEF P!Load
  <2>2. m \in Nat /\ m <= next_milestone_
    BY NextIsNat DEF ProgressInv, P!Visible
  <2>3. pc[t] # "idle" /\ UNCHANGED <<leaves_done_, next_milestone_, left, done, claimed>>
    BY <1>2 DEF P!Load
  <2> QED BY <2>1, <2>2, <2>3, LookStep
<1>3. ASSUME NEW t \in Thread, P!Claim(t) PROVE ProgressInv'
  BY <1>3, ClaimStep
<1>4. ASSUME NEW t \in Thread, P!ClaimFails(t) PROVE ProgressInv'
  <2>1. PICK m : m = next_milestone_ /\ m \in Nat /\ m <= next_milestone_
    BY NextIsNat DEF ProgressInv
  <2>2. /\ pc[t] # "idle" /\ expected' = [expected EXCEPT ![t] = m]
        /\ pc' = [pc EXCEPT ![t] = IF done[t] < m THEN "idle" ELSE "claim"]
        /\ UNCHANGED <<leaves_done_, next_milestone_, left, done, claimed>>
    BY <1>4, <2>1 DEF P!ClaimFails
  <2> QED BY <2>1, <2>2, LookStep
<1>5. ASSUME UNCHANGED P!vars PROVE ProgressInv'
  BY <1>5 DEF P!vars, ProgressInv, Counted, NextIs, Claims, Ahead, Pending, step,
     P!progress_step_, P!Milestones
<1> QED BY <1>1, <1>2, <1>3, <1>4, <1>5 DEF P!Next, P!Finished

LEMMA ProgressIsRight ==
  ASSUME P!ProgressAssumption, ProgressInv
  PROVE  P!TypeOK /\ P!EachMilestoneOnce
<1>1. step \in Nat /\ Leaves \in Nat /\ next_milestone_ \in Nat /\ P!Milestones \subseteq Nat
  BY StepIsNat, NextIsNat DEF P!ProgressAssumption, ProgressInv
<1>2. P!TypeOK
  <2>1. next_milestone_ \in P!Milestones
    BY DEF ProgressInv, NextIs, P!Milestones, step
  <2> QED BY <1>1, <2>1 DEF ProgressInv, Counted, P!TypeOK
<1>3. P!LinesKeepUp
  <2> SUFFICES ASSUME P!AllDone, step >= Cardinality(Thread), NEW m \in P!Milestones, m <= Leaves
               PROVE  \E c \in claimed : c.milestone = m
    BY SameSizes DEF P!LinesKeepUp, step
  <2>1. Pending = {}
    BY DEF Pending, P!AllDone
  <2>2. leaves_done_ - next_milestone_ + 1 <= 0
    BY <2>1, FS_EmptySet DEF ProgressInv, Ahead
  <2>3. Cardinality(Thread) \in Nat /\ Cardinality(Thread) # 0
    BY WorkersAreFinite
  <2>4. leaves_done_ = Leaves
    BY <1>1, <2>3 DEF ProgressInv, Counted, P!AllDone
  <2>5. m < next_milestone_
    BY <1>1, <2>2, <2>4
  <2> QED BY <2>5 DEF ProgressInv, Claims
<1> QED BY <1>2, <1>3 DEF ProgressInv, Claims, P!EachMilestoneOnce

(***************************************************************************)
(* EachMilestoneOnce (MaybeReportProgress of pipnn.h): each line of the    *)
(* progress report is printed once, with a count that has reached it; and  *)
(* if milestones are at least as many leaves apart as there are workers,   *)
(* none is missing in the end, although a worker claims but one for each   *)
(* leaf and may read an old milestone.                                     *)
(***************************************************************************)
THEOREM MilestonesAreClaimedOnce == Spec => []EachMilestoneOnce
<1> DEFINE IInv == part = "progress" => ProgressInv
<1>1. Init => IInv
  BY ProgressInit, PartsAssumption DEF Init
<1>2. IInv /\ [Next]_<<part, sharedVars, arrayVars>> => IInv'
  <2> SUFFICES ASSUME IInv, [Next]_<<part, sharedVars, arrayVars>>, part' = "progress"
               PROVE  ProgressInv'
    OBVIOUS
  <2>1. part' = part /\ (P!Next \/ UNCHANGED progressVars)
    BY DEF Next, DequeStep, StackStep, BlockStep, TableStep, ProgressStep, PassStep, SortStep,
       DupStep, SequenceStep, sharedVars
  <2>2. [P!Next]_P!vars
    BY <2>1 DEF progressVars, P!vars
  <2> QED BY <2>1, <2>2, ProgressSteps, PartsAssumption
<1>3. IInv => EachMilestoneOnce
  BY ProgressIsRight, PartsAssumption DEF EachMilestoneOnce
<1> QED BY <1>1, <1>2, <1>3, PTL DEF Spec

-----------------------------------------------------------------------------
(* The stack of free lists: LockFreeProofs, under the names of this           *)
(* composition.                                                               *)

LP == INSTANCE LockFreeProofs WITH call <- hazptr_call

LEMMA SameStack ==
  /\ S!HazptrAssumption => LP!HazptrAssumption
  /\ S!Init => LP!Init
  /\ S!Next => LP!Next
  /\ LP!TypeOK => S!TypeOK
  /\ LP!NoUseAfterDelete => S!NoUseAfterDelete
<1>1. S!HazptrAssumption => LP!HazptrAssumption
  BY DEF S!HazptrAssumption, LP!HazptrAssumption
<1>2. S!Init => LP!Init
  BY DEF S!Init, LP!Init, S!Idle, LP!Idle, S!NoValue, LP!NoValue
<1>3. ASSUME NEW x \in Worker
      PROVE  /\ S!StartPush(x) => LP!StartPush(x)
             /\ S!StartPop(x) => LP!StartPop(x)
             /\ S!Load(x) => LP!Load(x)
             /\ S!Announce(x) => LP!Announce(x)
             /\ S!CheckAgain(x) => LP!CheckAgain(x)
             /\ S!ReadNode(x) => LP!ReadNode(x)
             /\ S!CompareExchange(x) => LP!CompareExchange(x)
             /\ S!TakeValue(x) => LP!TakeValue(x)
             /\ S!ScanSlot(x) => LP!ScanSlot(x)
             /\ S!Eject(x) => LP!Eject(x)
             /\ S!Release(x) => LP!Release(x)
  <2>1. S!StartPush(x) => LP!StartPush(x)
    BY DEF S!StartPush, LP!StartPush, S!Idle, LP!Idle
  <2>2. S!StartPop(x) => LP!StartPop(x)
    BY DEF S!StartPop, LP!StartPop, S!Goto, LP!Goto
  <2>3. S!Load(x) => LP!Load(x)
    BY DEF S!Load, LP!Load
  <2>4. S!Announce(x) => LP!Announce(x)
    BY DEF S!Announce, LP!Announce, S!Goto, LP!Goto
  <2>5. S!CheckAgain(x) => LP!CheckAgain(x)
    BY DEF S!CheckAgain, LP!CheckAgain, S!Idle, LP!Idle
  <2>6. S!ReadNode(x) => LP!ReadNode(x)
    BY DEF S!ReadNode, LP!ReadNode, S!Goto, LP!Goto
  <2>7. S!CompareExchange(x) => LP!CompareExchange(x)
    BY DEF S!CompareExchange, LP!CompareExchange, S!Goto, LP!Goto
  <2>8. S!TakeValue(x) => LP!TakeValue(x)
    BY DEF S!TakeValue, LP!TakeValue, S!SlotsToScan, LP!SlotsToScan
  <2>9. S!ScanSlot(x) => LP!ScanSlot(x)
    BY DEF S!ScanSlot, LP!ScanSlot
  <2>10. S!Eject(x) => LP!Eject(x)
    BY DEF S!Eject, LP!Eject, S!Goto, LP!Goto
  <2>11. S!Release(x) => LP!Release(x)
    BY DEF S!Release, LP!Release, S!Idle, LP!Idle
  <2> QED BY <2>1, <2>2, <2>3, <2>4, <2>5, <2>6, <2>7, <2>8, <2>9, <2>10, <2>11
<1>4. S!Next => LP!Next
  BY <1>3 DEF S!Next, LP!Next
<1>5. LP!TypeOK => S!TypeOK
  BY DEF S!TypeOK, LP!TypeOK, S!Pointer, LP!Pointer, S!Node, LP!Node, S!Call, LP!Call
<1>6. LP!NoUseAfterDelete => S!NoUseAfterDelete
  BY DEF S!NoUseAfterDelete, LP!NoUseAfterDelete
<1> QED BY <1>1, <1>2, <1>4, <1>5, <1>6

StackInv == part = "stack" => LP!Inv

LEMMA StackInvariance == Spec => []StackInv
<1>1. Init => StackInv
  BY SameStack, LP!InitInv, PartsAssumption DEF Init, StackInv
<1>2. StackInv /\ [Next]_<<part, sharedVars, arrayVars>> => StackInv'
  <2> SUFFICES ASSUME StackInv, [Next]_<<part, sharedVars, arrayVars>>, part' = "stack"
               PROVE  LP!Inv'
    BY DEF StackInv
  <2>1. part' = part /\ (S!Next \/ UNCHANGED stackVars)
    BY DEF Next, DequeStep, StackStep, BlockStep, TableStep, ProgressStep, PassStep, SortStep,
       DupStep, SequenceStep, sharedVars
  <2>2. [LP!Next]_LP!vars
    BY <2>1, SameStack DEF stackVars, LP!vars
  <2>3. LP!Inv
    BY <2>1 DEF StackInv
  <2> QED BY <2>2, <2>3, SameStack, LP!StepInv, PartsAssumption
<1> QED BY <1>1, <1>2, PTL DEF Spec

(***************************************************************************)
(* NoUseAfterDelete (hazptr_stack.h, acquire_retire.h): no node of the     *)
(* stack is read after it was deleted, whatever the number of workers and  *)
(* addresses and however rarely they scan the announcements.               *)
(***************************************************************************)
THEOREM StackNodesAreSafe == Spec => []NoUseAfterDelete
<1>1. StackInv => NoUseAfterDelete
  BY SameStack, LP!InvIsSafe DEF StackInv, NoUseAfterDelete, LP!Inv
<1> QED BY <1>1, StackInvariance, PTL

(***************************************************************************)
(* Traded (push and pop of hazptr_stack.h): no value is lost or handed out *)
(* twice, although nodes are deleted and their addresses used again, and   *)
(* size() is the length of the stack.                                      *)
(***************************************************************************)
THEOREM StackLosesNothing == Spec => []Traded
<1>1. LP!Traded => S!Traded
  BY DEF S!Traded, LP!Traded, S!Stack, LP!Stack, S!Cardinality, LP!Cardinality
<1>2. StackInv => Traded
  BY <1>1, SameStack, LP!InvIsTraded, PartsAssumption DEF StackInv, Traded
<1> QED BY <1>2, StackInvariance, PTL

-----------------------------------------------------------------------------
(* The block allocator: LockFreeProofs, under the names of this composition.  *)

LEMMA SameAllocator ==
  /\ B!BlockAssumption => LP!BA!BlockAssumption
  /\ B!Init => LP!BA!Init
  /\ B!Next => LP!BA!Next
  /\ LP!BA!TypeOK => B!TypeOK
  /\ LP!BA!BlocksInOnePlace => B!BlocksInOnePlace
<1>1. B!BlockAssumption => LP!BA!BlockAssumption
  BY DEF B!BlockAssumption, LP!BA!BlockAssumption, B!IsFiniteSet, LP!BA!IsFiniteSet
<1>2. B!Init => LP!BA!Init
  BY DEF B!Init, LP!BA!Init, B!Block, LP!BA!Block
<1>3. \A q : B!ToSet(q) = LP!BA!ToSet(q)
  BY DEF B!ToSet, LP!BA!ToSet
<1>4. \A n : B!Buffer(n) = LP!BA!Buffer(n)
  BY DEF B!Buffer, LP!BA!Buffer, B!Cardinality, LP!BA!Cardinality
<1>5. \A old, q : B!Linked(old, q) = LP!BA!Linked(old, q)
  BY <1>3 DEF B!Linked, LP!BA!Linked, B!Link, LP!BA!Link, B!Block, LP!BA!Block
<1>6. B!Clear => LP!BA!Clear
  BY DEF B!Clear, LP!BA!Clear, B!num_used_blocks, LP!BA!num_used_blocks, B!Cardinality,
     LP!BA!Cardinality
<1>7. B!Reserve => LP!BA!Reserve
  BY <1>3, <1>4, <1>5 DEF B!Reserve, LP!BA!Reserve, B!Cardinality, LP!BA!Cardinality, B!Block,
     LP!BA!Block
<1>8. ASSUME NEW x \in Worker PROVE B!Alloc(x) => LP!BA!Alloc(x)
  <2>1. \A from, links : B!Hand(x, from, links) => LP!BA!Hand(x, from, links)
    BY DEF B!Hand, LP!BA!Hand
  <2>2. \A list : B!Refilled(x, list) = LP!BA!Refilled(x, list)
    BY DEF B!Refilled, LP!BA!Refilled
  <2>3. B!Block = LP!BA!Block
    BY DEF B!Block, LP!BA!Block
  <2> QED BY <1>3, <1>4, <1>5, <2>1, <2>2, <2>3 DEF B!Alloc, LP!BA!Alloc
<1>9. ASSUME NEW x \in Worker, NEW p \in B!Block PROVE B!Free(x, p) => LP!BA!Free(x, p)
  BY DEF B!Free, LP!BA!Free, B!MarkMid, LP!BA!MarkMid
<1>10. B!Next => LP!BA!Next
  BY <1>6, <1>7, <1>8, <1>9 DEF B!Next, LP!BA!Next, B!Block, LP!BA!Block
<1>11. LP!BA!TypeOK => B!TypeOK
  BY DEF B!TypeOK, LP!BA!TypeOK, B!Pointer, LP!BA!Pointer, B!Block, LP!BA!Block
<1>12. LP!BA!BlocksInOnePlace => B!BlocksInOnePlace
  BY DEF B!BlocksInOnePlace, LP!BA!BlocksInOnePlace, B!Lists, LP!BA!Lists, B!Chain, LP!BA!Chain,
     B!Cardinality, LP!BA!Cardinality
<1> QED BY <1>1, <1>2, <1>10, <1>11, <1>12

(***************************************************************************)
(* BlocksInOnePlace (alloc and free of block_allocator.h): every block is  *)
(* with one caller or once in one free list, for any number of workers,    *)
(* list length and memory, and clear() finds nothing in use.               *)
(***************************************************************************)
THEOREM BlocksStayInOnePlace == Spec => []BlocksInOnePlace
<1> DEFINE BlockInv == part = "blocks" => LP!AllocInv
<1>1. Init => BlockInv
  BY SameAllocator, LP!AllocInitInv, PartsAssumption DEF Init
<1>2. BlockInv /\ [Next]_<<part, sharedVars, arrayVars>> => BlockInv'
  <2> SUFFICES ASSUME BlockInv, [Next]_<<part, sharedVars, arrayVars>>, part' = "blocks"
               PROVE  LP!AllocInv'
    OBVIOUS
  <2>1. part' = part /\ (B!Next \/ UNCHANGED blockVars)
    BY DEF Next, DequeStep, StackStep, BlockStep, TableStep, ProgressStep, PassStep, SortStep,
       DupStep, SequenceStep, sharedVars
  <2>2. [LP!BA!Next]_LP!BA!vars
    BY <2>1, SameAllocator DEF blockVars, LP!BA!vars
  <2>3. LP!AllocInv
    BY <2>1
  <2> QED BY <2>2, <2>3, SameAllocator, LP!AllocStepInv, PartsAssumption
<1>3. BlockInv => BlocksInOnePlace
  BY SameAllocator, LP!InvType, LP!InvOnePlace, PartsAssumption DEF BlocksInOnePlace
<1> QED BY <1>1, <1>2, <1>3, PTL DEF Spec

-----------------------------------------------------------------------------
(* The job deque: LockFreeProofs, with this composition's workers as its      *)
(* thieves.                                                                   *)

LEMMA SameDeque ==
  /\ D!DequeAssumption => LP!D!DequeAssumption
  /\ D!Init => LP!D!Init
  /\ D!Next => LP!D!Next
  /\ LP!D!Inside = D!Inside
  /\ LP!D!Abstract!Init => D!Abstract!Init
  /\ LP!D!Abstract!Next => D!Abstract!Next
<1>1. D!DequeAssumption => LP!D!DequeAssumption
  BY DEF D!DequeAssumption, LP!D!DequeAssumption
<1>2. D!Init => LP!D!Init
  BY DEF D!Init, LP!D!Init, D!NoJob, LP!D!NoJob
<1>3. D!Owner => LP!D!Owner
  BY DEF D!Owner, LP!D!Owner, D!StoreJob, LP!D!StoreJob, D!PublishJob, LP!D!PublishJob,
     D!LowerBot, LP!D!LowerBot, D!LoadAge, LP!D!LoadAge, D!ResetBot, LP!D!ResetBot,
     D!RaceForLast, LP!D!RaceForLast, D!StoreAge, LP!D!StoreAge, D!NewAge, LP!D!NewAge
<1>4. ASSUME NEW t \in Worker, D!ReadAge(t) \/ D!ReadBot(t) \/ D!ReadJob(t) \/ D!Steal(t)
      PROVE  LP!D!ReadAge(t) \/ LP!D!ReadBot(t) \/ LP!D!ReadJob(t) \/ LP!D!Steal(t)
  BY <1>4 DEF D!ReadAge, LP!D!ReadAge, D!ReadBot, LP!D!ReadBot, D!ReadJob, LP!D!ReadJob,
     D!Steal, LP!D!Steal
<1>5. D!Next => LP!D!Next
  BY <1>3, <1>4 DEF D!Next, LP!D!Next
<1>6. LP!D!Inside = D!Inside
  BY DEF LP!D!Inside, D!Inside, LP!D!Bottom, D!Bottom
<1>7. LP!D!Abstract!Init => D!Abstract!Init
  BY <1>6 DEF LP!D!Abstract!Init, D!Abstract!Init
<1>8. LP!D!Abstract!Next => D!Abstract!Next
  BY DEF LP!D!Abstract!Next, D!Abstract!Next, LP!D!Abstract!Push, D!Abstract!Push,
     LP!D!Abstract!Take, D!Abstract!Take, LP!D!Abstract!ToSet, D!Abstract!ToSet,
     LP!D!Abstract!Front, D!Abstract!Front, LP!D!Abstract!Last, D!Abstract!Last,
     LP!D!Job, D!Job, LP!D!Inside, D!Inside, LP!D!Bottom, D!Bottom
<1> QED BY <1>1, <1>2, <1>5, <1>6, <1>7, <1>8

(***************************************************************************)
(* ImplementsJobDeque (push_bottom, pop_bottom, pop_top): whatever the     *)
(* owner and the thieves interleave, a job is handed out once and from an  *)
(* end, the race for the last one included.                                *)
(***************************************************************************)
THEOREM DequeHandsJobsOutOnce == Spec => ImplementsJobDeque
<1>1. Init => LP!DequeInv /\ D!Abstract!Init
  BY SameDeque, LP!DequeInitImplements, PartsAssumption DEF Init
<1>2. LP!DequeInv /\ [Next]_<<part, sharedVars, arrayVars>> =>
        LP!DequeInv' /\ [D!Abstract!Next]_<<D!Inside, handed>>
  <2> SUFFICES ASSUME LP!DequeInv, [Next]_<<part, sharedVars, arrayVars>>
               PROVE  LP!DequeInv' /\ [D!Abstract!Next]_<<D!Inside, handed>>
    OBVIOUS
  <2>1. D!Next \/ UNCHANGED dequeVars
    BY DEF Next, DequeStep, StackStep, BlockStep, TableStep, ProgressStep, PassStep, SortStep,
       DupStep, SequenceStep, sharedVars
  <2>2. [LP!D!Next]_LP!D!vars
    BY <2>1, SameDeque DEF dequeVars, LP!D!vars
  <2>3. LP!DequeInv' /\ [LP!D!Abstract!Next]_<<LP!D!Inside, handed>>
    BY <2>2, SameDeque, LP!DequeStepImplements, PartsAssumption
  <2>4. LP!D!Inside' = D!Inside'
    BY DEF LP!D!Inside, D!Inside, LP!D!Bottom, D!Bottom
  <2> QED BY <2>3, <2>4, SameDeque
<1> QED BY <1>1, <1>2, PTL DEF Spec, ImplementsJobDeque, D!ImplementsJobDeque, D!Abstract!Spec
=============================================================================
