------------------------------ MODULE Scheduler ------------------------------
(* scheduler.h, internal/work_stealing_job.h and internal/atomic_wait.h: one  *)
(* parallel loop forked over the workers, and the shutdown after it. A call   *)
(* of a deque is one step (WorkStealingDeque implements JobDeque); sleeping   *)
(* and waking is one step per shared access. Of the wake-up counter and the   *)
(* futex version only "changed since the waiter read it" matters.             *)
EXTENDS Naturals, SequencesExt

CONSTANTS
    num_threads,    \* workers; 0 is the main thread
    end,            \* the loop runs over 0..end - 1
    BlocksPerThread \* 128 in the code

ASSUME SchedulerAssumption ==
    num_threads \in Nat \ {0} /\ end \in Nat \ {0} /\ BlocksPerThread \in Nat \ {0}

Worker == 0..num_threads - 1

VARIABLES
    granularity,
    deques,         \* per worker: its jobs, oldest first, and age.top
    frames,         \* per worker: its calls of parfor_, innermost last
    done,           \* jobs whose done flag is set
    ran,            \* how often each iteration has run
    loop,           \* per worker: where it is in worker(), wait_for_work, shutdown
    waking,         \* per worker: where it is in wake_up_a_worker
    awake,          \* num_awake_workers
    finished,       \* finished_flag and num_finished_workers
    waiters,        \* contended_t::waiters
    val_old, version_old    \* waiters whose copy of the counter, the version is old

vars == <<granularity, deques, frames, done, ran, loop, waking, awake, finished,
          waiters, val_old, version_old>>
work == <<granularity, deques, frames, done, ran>>
sleep == <<awake, waiters, val_old, version_old>>

(* A job is the right half of a range. In a frame, at is "split" (new),      *)
(* "left", "right" or "join"; stolen says that a job object runs it.         *)
Span == {r \in (0..end) \X (0..end) : r[1] < r[2]}
Frame == [range : Span, at : {"split", "left", "right", "join"}, stolen : BOOLEAN]

TypeOK ==
    /\ granularity \in 0..end
    /\ deques \in [Worker -> [jobs : Seq(Span), top : Nat]]
    /\ frames \in [Worker -> Seq(Frame)]
    /\ done \subseteq Span
    /\ ran \in [0..end - 1 -> 0..1]
    /\ loop \in [Worker -> {"main", "down", "seek", "tired", "load", "spin", "flag",
                            "version", "recheck", "futex", "asleep", "woken", "exit"}]
    /\ waking \in [Worker -> {"no", "check", "add", "version", "exchange", "wake"}]
    /\ awake \in 0..num_threads
    /\ finished \in [flag : BOOLEAN, workers : 0..num_threads - 1]
    /\ waiters \in BOOLEAN /\ val_old \subseteq Worker /\ version_old \subseteq Worker

Init ==
    /\ granularity = 0
    /\ deques = [w \in Worker |-> [jobs |-> << >>, top |-> 0]]
    /\ frames = [w \in Worker |-> << >>]
    /\ done = {} /\ ran = [i \in 0..end - 1 |-> 0]
    /\ loop = [w \in Worker |-> IF w = 0 THEN "main" ELSE "tired"]
    /\ waking = [w \in Worker |-> "no"]
    /\ awake = num_threads
    /\ finished = [flag |-> FALSE, workers |-> 0]
    /\ waiters = FALSE /\ val_old = {} /\ version_old = {}

Free(w) == waking[w] = "no"
Top(w) == Last(frames[w])
InFrame(w, at) == Free(w) /\ frames[w] # << >> /\ Top(w).at = at
NewFrame(range, stolen) == [range |-> range, at |-> "split", stolen |-> stolen]
Count(range) == [i \in 0..end - 1 |-> ran[i] + IF range[1] <= i /\ i < range[2] THEN 1 ELSE 0]

(* parfor and get_granularity: a prefix of 1, 3, 7... iterations is timed,   *)
(* and nothing smaller than it is split.                                     *)
StartLoop ==
    /\ loop[0] = "main" /\ granularity = 0
    /\ \E sized \in {n \in 1..end : n = end \/ \E k \in 1..n : n + 1 = 2^k} :
         LET each == end \div (BlocksPerThread * num_threads) IN
         /\ granularity' = IF each > sized THEN each ELSE sized
         /\ ran' = Count(<<0, sized>>)
         /\ frames' = IF sized = end THEN frames
                      ELSE [frames EXCEPT ![0] = <<NewFrame(<<sized, end>>, FALSE)>>]
    /\ UNCHANGED <<deques, done, loop, waking, finished>> /\ UNCHANGED sleep

Mid(range) == range[1] + (9 * (range[2] - range[1] + 1)) \div 16
RightJob(f) == <<Mid(f.range), f.range[2]>>

(* The innermost call of w returns; if a job ran it, the job is done.        *)
Return(w, stack) ==
    /\ frames' = [frames EXCEPT ![w] = Front(stack)]
    /\ done' = IF Last(stack).stolen THEN done \cup {Last(stack).range} ELSE done

RunRange(w) ==
    /\ InFrame(w, "split") /\ Top(w).range[2] - Top(w).range[1] <= granularity
    /\ ran' = Count(Top(w).range)
    /\ Return(w, frames[w])
    /\ UNCHANGED <<granularity, deques, loop, waking, finished>> /\ UNCHANGED sleep

(* pardo: spawn the right half, and run the left one. push_bottom reports     *)
(* that bot was 0, and only then a sleeper may be woken.                      *)
Fork(w) ==
    /\ InFrame(w, "split") /\ Top(w).range[2] - Top(w).range[1] > granularity
    /\ LET d == deques[w]  left == <<Top(w).range[1], Mid(Top(w).range)>> IN
         /\ deques' = [deques EXCEPT ![w].jobs = Append(@, RightJob(Top(w)))]
         /\ waking' = [waking EXCEPT ![w] = IF d.jobs = << >> /\ d.top = 0 THEN "check" ELSE "no"]
         /\ frames' = [frames EXCEPT ![w] = Append(Front(@) \o <<[Top(w) EXCEPT !.at = "left"]>>,
                                                   NewFrame(left, FALSE))]
    /\ UNCHANGED <<granularity, done, ran, loop, finished>> /\ UNCHANGED sleep

\* Mutant: the owner takes its oldest job.
PopOldest(d) == [jobs |-> Tail(d.jobs), top |-> IF Len(d.jobs) > 1 THEN d.top ELSE 0]

PopBottom(d) == [jobs |-> Front(d.jobs), top |-> IF Len(d.jobs) > 1 THEN d.top ELSE 0]

(* The left half is done (its frame is gone). The own job, if it is still     *)
(* there, is the right half; pop_bottom of an empty deque resets it.          *)
AfterLeft(w) ==
    /\ InFrame(w, "left")
    /\ LET d == deques[w]
           took == d.jobs # << >>
           waits == [Top(w) EXCEPT !.at = IF took THEN "right" ELSE "join"] IN
         /\ deques' = [deques EXCEPT ![w] = IF took THEN PopBottom(d) ELSE [d EXCEPT !.top = 0]]
         /\ frames' = [frames EXCEPT ![w] = Front(@) \o <<waits>> \o
                         IF took THEN <<NewFrame(RightJob(Top(w)), FALSE)>> ELSE << >>]
    /\ UNCHANGED <<granularity, done, ran, loop, waking, finished>> /\ UNCHANGED sleep

AfterRight(w) ==
    /\ InFrame(w, "right")
    /\ Return(w, frames[w])
    /\ UNCHANGED <<granularity, deques, ran, loop, waking, finished>> /\ UNCHANGED sleep

\* Mutant: the join goes on when there is nothing left to steal.
JoinTooEarly(w) ==
    /\ InFrame(w, "join")
    /\ \A v \in Worker : deques[v].jobs = << >>
    /\ Return(w, frames[w])
    /\ UNCHANGED <<granularity, deques, ran, loop, waking, finished>> /\ UNCHANGED sleep

(* wait_until, do_work_until: return when the stolen half is done ...         *)
Join(w) ==
    /\ InFrame(w, "join") /\ RightJob(Top(w)) \in done
    /\ Return(w, frames[w])
    /\ UNCHANGED <<granularity, deques, ran, loop, waking, finished>> /\ UNCHANGED sleep

Seeking(w) ==
    \/ InFrame(w, "join") /\ RightJob(Top(w)) \notin done
    \/ loop[w] = "seek" /\ frames[w] = << >> /\ Free(w) /\ ~ finished.flag

(* ... and until then, like a worker without work, steal. Its own deque, which *)
(* get_job tries first, is empty by then. The hashed target is any worker.    *)
(* try_steal wakes another worker if it leaves jobs behind.                   *)
TrySteal(w, v) ==
    /\ Seeking(w) /\ deques[v].jobs # << >>
    /\ deques' = [deques EXCEPT ![v] = [jobs |-> Tail(@.jobs), top |-> @.top + 1]]
    /\ waking' = [waking EXCEPT ![w] = IF Len(deques[v].jobs) > 1 THEN "check" ELSE "no"]
    /\ frames' = [frames EXCEPT ![w] = Append(@, NewFrame(Head(deques[v].jobs), TRUE))]
    /\ UNCHANGED <<granularity, done, ran, loop, finished>> /\ UNCHANGED sleep

(* Another one got the job between pop_top's loads and its compare-exchange,  *)
(* which has then renewed the top that `empty' is computed from: a deque that *)
(* had a job or more may count as not empty.                                  *)
LosesRace(w, v) ==
    /\ Seeking(w) /\ deques[v].jobs # << >>
    /\ waking' = [waking EXCEPT ![w] = "check"]
    /\ UNCHANGED <<loop, finished>> /\ UNCHANGED work /\ UNCHANGED sleep

(* STEAL_TIMEOUT is over and the worker goes to wait_for_work.                *)
GiveUp(w) ==
    /\ loop[w] = "seek" /\ frames[w] = << >> /\ Free(w) /\ ~ finished.flag
    /\ loop' = [loop EXCEPT ![w] = "tired"]
    /\ UNCHANGED <<waking, finished>> /\ UNCHANGED work /\ UNCHANGED sleep

Leave(w) ==
    /\ loop[w] = "seek" /\ frames[w] = << >> /\ Free(w) /\ finished.flag
    /\ loop' = [loop EXCEPT ![w] = "exit"]
    /\ finished' = [finished EXCEPT !.workers = @ + 1]
    /\ UNCHANGED waking /\ UNCHANGED work /\ UNCHANGED sleep

(* wait_for_work, wait and try_wait_slow, one shared access after the other.  *)
Step(w, from, to) == loop[w] = from /\ loop' = [loop EXCEPT ![w] = to]

WaitForWork(w) ==
    \/ /\ Step(w, "tired", "load")
       /\ awake' = awake - 1 /\ UNCHANGED <<waiters, val_old, version_old>>
    \/ /\ Step(w, "load", "spin")
       /\ val_old' = val_old \ {w} /\ UNCHANGED <<awake, waiters, version_old>>
    \/ /\ Step(w, "woken", "seek")
       /\ awake' = awake + 1 /\ UNCHANGED <<waiters, val_old, version_old>>

AtomicWait(w) == Step(w, "spin", IF w \in val_old THEN "woken" ELSE "flag") /\ UNCHANGED sleep

TryWaitSlow(w) ==
    \/ /\ Step(w, "flag", "version")
       /\ waiters' = TRUE /\ UNCHANGED <<awake, val_old, version_old>>
    \/ /\ Step(w, "version", "recheck")
       /\ version_old' = version_old \ {w} /\ UNCHANGED <<awake, waiters, val_old>>
    \/ Step(w, "recheck", IF w \in val_old THEN "spin" ELSE "futex") /\ UNCHANGED sleep
    \/ Step(w, "futex", IF w \in version_old THEN "spin" ELSE "asleep") /\ UNCHANGED sleep

WaitStep(w) ==
    /\ WaitForWork(w) \/ AtomicWait(w) \/ TryWaitSlow(w)
    /\ UNCHANGED <<waking, finished>> /\ UNCHANGED work

\* Mutant: the futex waits without its two seconds' time-out.
NoTimeout(w) == FALSE /\ UNCHANGED vars

(* The futex wait is a timed one. *)
Timeout(w) ==
    /\ Step(w, "asleep", "spin")
    /\ UNCHANGED <<waking, finished>> /\ UNCHANGED work /\ UNCHANGED sleep

(* wake_up_a_worker, and atomic_notify_one, which is notify_all here.         *)
WakeUpAWorker(w) ==
    \/ /\ waking[w] = "check"
       /\ waking' = [waking EXCEPT ![w] = IF awake < num_threads THEN "add" ELSE "no"]
       /\ UNCHANGED <<loop, waiters, val_old, version_old>>
    \/ /\ waking[w] = "add" /\ waking' = [waking EXCEPT ![w] = "version"]
       /\ val_old' = Worker /\ UNCHANGED <<loop, waiters, version_old>>

NotifyAll(w) ==
    \/ /\ waking[w] = "version" /\ waking' = [waking EXCEPT ![w] = "exchange"]
       /\ version_old' = Worker /\ UNCHANGED <<loop, waiters, val_old>>
    \/ /\ waking[w] = "exchange" /\ waiters' = FALSE
       /\ waking' = [waking EXCEPT ![w] = IF waiters THEN "wake" ELSE "no"]
       /\ UNCHANGED <<loop, val_old, version_old>>
    \/ /\ waking[w] = "wake" /\ waking' = [waking EXCEPT ![w] = "no"]
       /\ loop' = [v \in Worker |-> IF loop[v] = "asleep" THEN "spin" ELSE loop[v]]
       /\ UNCHANGED <<waiters, val_old, version_old>>

WakeStep(w) ==
    /\ WakeUpAWorker(w) \/ NotifyAll(w)
    /\ UNCHANGED <<awake, finished>> /\ UNCHANGED work

(* shutdown: set the flag, and wake all workers until all of them have left.  *)
LoopOver == granularity # 0 /\ frames[0] = << >>

Shutdown ==
    /\ loop[0] = "main" /\ LoopOver /\ Free(0)
    /\ finished' = [finished EXCEPT !.flag = TRUE]
    /\ IF finished.workers = num_threads - 1
         THEN loop' = [loop EXCEPT ![0] = "down"] /\ UNCHANGED waking
         ELSE waking' = [waking EXCEPT ![0] = "check"] /\ UNCHANGED loop
    /\ UNCHANGED work /\ UNCHANGED sleep

Down == loop[0] = "down" /\ UNCHANGED vars

WorkerStep(w) ==
    \/ RunRange(w) \/ Fork(w) \/ AfterLeft(w) \/ AfterRight(w) \/ Join(w)
    \/ \E v \in Worker : TrySteal(w, v) \/ LosesRace(w, v)
    \/ GiveUp(w) \/ Leave(w) \/ WaitStep(w) \/ WakeStep(w)

Next == StartLoop \/ Shutdown \/ Down \/ \E w \in Worker : WorkerStep(w) \/ Timeout(w)

Spec == Init /\ [][Next]_vars

(* The operating system runs every thread, and a futex wait with a time-out   *)
(* returns.                                                                   *)
FairSpec ==
    /\ Spec
    /\ WF_vars(StartLoop) /\ WF_vars(Shutdown)
    /\ \A w \in Worker : WF_vars(WorkerStep(w)) /\ WF_vars(Timeout(w))
-----------------------------------------------------------------------------
Iterations(range) == range[1]..range[2] - 1

(* A parallel loop runs each iteration once, and a join goes on only when all *)
(* the iterations below it have run: a job that is done, and the whole loop   *)
(* when it is over, have nothing left to run.                                 *)
LoopJoins ==
    /\ \A i \in 0..end - 1 : ran[i] <= 1
    /\ \A r \in done : \A i \in Iterations(r) : ran[i] = 1
    /\ LoopOver => \A i \in 0..end - 1 : ran[i] = 1

(* scheduler.h asserts that the job pardo pops after its left half is its own *)
(* right half, and that a join returns after its job finished. The first      *)
(* needs every job forked deeper, and every job stolen while waiting, to be   *)
(* gone from the deque by then; and whoever looks for work elsewhere has none *)
(* of its own.                                                                *)
PopsOwnJob ==
    \A w \in Worker :
      /\ InFrame(w, "left") /\ deques[w].jobs # << >> =>
           Last(deques[w].jobs) = RightJob(Top(w))
      /\ Seeking(w) => deques[w].jobs = << >>

\* The jobs of the calls of pardo that have not returned.
Owned == {RightJob(f) : f \in {g \in UNION {ToSet(frames[w]) : w \in Worker} :
                                 g.at \in {"left", "join"}}}

(* A job object is a local variable of pardo. While it is in a deque or a     *)
(* thief runs it, the call that owns it has not returned; and it is only the  *)
(* owner of the right half that pops it (PopsOwnJob).                         *)
OwnJobIsRightHalf ==
    /\ PopsOwnJob
    /\ \A w \in Worker :
         /\ ToSet(deques[w].jobs) \subseteq Owned
         /\ \A f \in ToSet(frames[w]) : f.stolen => f.range \in Owned

(* The loop and the shutdown end: no worker sleeps through the end of it and  *)
(* no join waits for a job that nobody runs.                                  *)
Terminates == <>(loop[0] = "down")

(* scheduler.h 244: "Wakes up at least one sleeping worker". A notifier that  *)
(* decides nobody waits leaves nobody asleep on the value it replaced.        *)
WakesASleeper ==
    [][\A w \in Worker : waking[w] = "exchange" /\ waking'[w] = "no" =>
         ~ \E v \in Worker : loop[v] = "asleep" /\ v \in val_old]_vars
=============================================================================
