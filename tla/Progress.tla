------------------------------ MODULE Progress ------------------------------
(***************************************************************************)
(* The progress lines of the build (MaybeReportProgress of pipnn.h): every *)
(* worker that has finished a leaf counts it, and the one whose count      *)
(* reaches the next milestone claims that milestone with a compare-and-    *)
(* exchange and prints a line.  The atomics are relaxed: a load may return *)
(* a value that another worker has already replaced, but never one older   *)
(* than the same worker has seen.                                          *)
(***************************************************************************)
EXTENDS Integers, FiniteSets

CONSTANTS
  Thread,
  Leaves,             \* leaves that will be built
  est_total_leaves    \* how many were expected

ProgressAssumption ==
  /\ Leaves \in Nat /\ est_total_leaves \in Nat
  /\ Thread # {} /\ IsFiniteSet(Thread)

Parts == 4   \* 20 in the code: a milestone is a Parts-th of the estimate

\* SetProgressTarget: too few leaves are not worth a progress line.
progress_step_ ==
  IF est_total_leaves >= Parts THEN est_total_leaves \div Parts ELSE 0

VARIABLES
  leaves_done_, next_milestone_,
  left,      \* leaves not taken up yet
  pc,
  done,      \* done[t]: what fetch_add gave the worker, plus one
  expected,  \* expected[t]: the milestone it last saw
  claimed    \* history: [milestone, done] of the lines printed

vars == <<leaves_done_, next_milestone_, left, pc, done, expected, claimed>>

Init ==
  /\ leaves_done_ = 0 /\ next_milestone_ = progress_step_
  /\ left = Leaves
  /\ pc = [t \in Thread |-> "idle"]
  /\ done = [t \in Thread |-> 0]
  /\ expected = [t \in Thread |-> 0]
  /\ claimed = {}

FinishLeaf(t) ==
  /\ pc[t] = "idle" /\ left > 0
  /\ left' = left - 1
  /\ IF progress_step_ = 0 THEN UNCHANGED <<pc, done, leaves_done_>>
     ELSE /\ leaves_done_' = leaves_done_ + 1
          /\ done' = [done EXCEPT ![t] = leaves_done_ + 1]
          /\ pc' = [pc EXCEPT ![t] = "load"]
  /\ UNCHANGED <<next_milestone_, expected, claimed>>

Milestones == {m * progress_step_ : m \in 1..(Leaves + 1)}

\* The values a relaxed load of next_milestone_ may return.
Visible(t) == {m \in Milestones : expected[t] =< m /\ m =< next_milestone_}

Load(t) ==
  /\ pc[t] = "load"
  /\ \E m \in Visible(t) :
       /\ expected' = [expected EXCEPT ![t] = m]
       /\ pc' = [pc EXCEPT ![t] = IF done[t] < m THEN "idle" ELSE "claim"]
  /\ UNCHANGED <<leaves_done_, next_milestone_, left, done, claimed>>

\* Mutant: whoever comes last sets the milestone.
Claim_NoCompare(t) ==
  /\ pc[t] = "claim"
  /\ next_milestone_' = expected[t] + progress_step_
  /\ claimed' = claimed \cup {[milestone |-> expected[t], done |-> done[t]]}
  /\ pc' = [pc EXCEPT ![t] = "idle"]
  /\ UNCHANGED <<leaves_done_, left, done, expected>>

\* compare_exchange_weak succeeds: the milestone is this worker's.
Claim(t) ==
  /\ pc[t] = "claim" /\ expected[t] = next_milestone_
  /\ next_milestone_' = expected[t] + progress_step_
  /\ claimed' = claimed \cup {[milestone |-> expected[t], done |-> done[t]]}
  /\ pc' = [pc EXCEPT ![t] = "idle"]
  /\ UNCHANGED <<leaves_done_, left, done, expected>>

\* It fails because another worker was faster: expected is brought up to date
\* and the loop condition looked at again.  (A spurious failure of the weak
\* exchange changes nothing.)
ClaimFails(t) ==
  /\ pc[t] = "claim" /\ expected[t] # next_milestone_
  /\ expected' = [expected EXCEPT ![t] = next_milestone_]
  /\ pc' = [pc EXCEPT ![t] = IF done[t] < next_milestone_ THEN "idle" ELSE "claim"]
  /\ UNCHANGED <<leaves_done_, next_milestone_, left, done, claimed>>

AllDone == left = 0 /\ \A t \in Thread : pc[t] = "idle"
Finished == AllDone /\ UNCHANGED vars

Next == \/ \E t \in Thread : FinishLeaf(t) \/ Load(t) \/ Claim(t) \/ ClaimFails(t)
        \/ Finished

Spec == Init /\ [][Next]_vars
-----------------------------------------------------------------------------
TypeOK ==
  /\ leaves_done_ \in 0..Leaves /\ left \in 0..Leaves
  /\ next_milestone_ \in Milestones \cup {progress_step_}
  /\ pc \in [Thread -> {"idle", "load", "claim"}]
  /\ done \in [Thread -> 0..Leaves]

\* A worker claims only one milestone for a leaf, whatever its count has passed,
\* and one that saw an old milestone may leave the newer ones to the others.  When
\* milestones are at least as many leaves apart as there are workers no line is
\* left out all the same.
LinesKeepUp ==
  AllDone /\ progress_step_ >= Cardinality(Thread) =>
    \A m \in Milestones : m =< Leaves => \E c \in claimed : c.milestone = m

\* A milestone is printed once, with a count that has reached it, whichever
\* workers were after it, and in the end none is missing (MaybeReportProgress).
EachMilestoneOnce ==
  /\ \A c, d \in claimed : c.milestone = d.milestone => c = d
  /\ \A c \in claimed : c.done >= c.milestone
  /\ LinesKeepUp
=============================================================================
