------------------------------ MODULE JobDeque ------------------------------
(* What the owner of a deque and the thieves may rely on: a job that was     *)
(* pushed is handed out once, to the owner from the end it pushes at or to a *)
(* thief from the other end.                                                 *)
EXTENDS Naturals, SequencesExt

CONSTANT Job

VARIABLES
    jobs,      \* the jobs in the deque, oldest first
    handed     \* the jobs handed out so far, in that order

Init == jobs = << >> /\ handed = << >>

Push == \E j \in Job : /\ j \notin ToSet(jobs) \cup ToSet(handed)
                       /\ jobs' = Append(jobs, j)
                       /\ UNCHANGED handed

Take == /\ jobs # << >>
        /\ \/ jobs' = Front(jobs) /\ handed' = Append(handed, Last(jobs))
           \/ jobs' = Tail(jobs) /\ handed' = Append(handed, Head(jobs))

Next == Push \/ Take

Spec == Init /\ [][Next]_<<jobs, handed>>
=============================================================================
