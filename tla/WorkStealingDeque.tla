------------------------- MODULE WorkStealingDeque -------------------------
(* internal/work_stealing_deque.h: the deque of Arora, Blumofe and Plaxton.  *)
(* One step per access to shared memory. Only the owner writes bot and deq,  *)
(* so its own loads of them are part of the step that follows. bot.store and *)
(* the fence after it are one step: on x86 nothing the owner loads can pass  *)
(* them.                                                                     *)
EXTENDS Naturals, SequencesExt

CONSTANTS
    q_size,      \* slots of the array, 1000 in the code
    Thief,       \* workers that call pop_top
    MaxJobs      \* bound on the jobs the owner pushes

DequeAssumption == q_size \in Nat \ {0} /\ MaxJobs \in Nat

VARIABLES
    bot, age, deq,
    pushed,         \* jobs pushed so far: job i is the i-th one
    owner,          \* what the owner is doing: its step, local_bot, old_age
    thief,          \* what each thief is doing: its step, old_age, job
    handed          \* history: jobs handed out so far, in that order

vars == <<bot, age, deq, pushed, owner, thief, handed>>

Job == 1..MaxJobs
NoJob == 0
Age == [tag : 0..MaxJobs, top : 0..q_size]

TypeOK ==
    /\ bot \in 0..q_size
    /\ age \in Age
    /\ deq \in [0..q_size - 1 -> Job \cup {NoJob}]
    /\ pushed \in 0..MaxJobs
    /\ owner \in [at : {"idle", "publish", "age", "reset", "cas", "store", "aborted"},
                  local_bot : 0..q_size, old_age : Age]
    /\ thief \in [Thief -> [at : {"idle", "bot", "job", "cas"},
                            old_age : Age, job : Job \cup {NoJob}]]
    /\ handed \in Seq(Job)

Init ==
    /\ bot = 0
    /\ age = [tag |-> 0, top |-> 0]
    /\ deq = [i \in 0..q_size - 1 |-> NoJob]
    /\ pushed = 0
    /\ owner = [at |-> "idle", local_bot |-> 0, old_age |-> age]
    /\ thief = [t \in Thief |-> [at |-> "idle", old_age |-> age, job |-> NoJob]]
    /\ handed = << >>

(* push_bottom: the job goes into its slot, then bot makes it visible. *)
StoreJob ==
    /\ owner.at = "idle" /\ pushed < MaxJobs
    /\ pushed' = pushed + 1
    /\ deq' = [deq EXCEPT ![bot] = pushed']
    /\ owner' = [owner EXCEPT !.at = "publish"]
    /\ UNCHANGED <<bot, age, thief, handed>>

PublishJob ==
    /\ owner.at = "publish"
    /\ IF bot + 1 = q_size
         THEN owner' = [owner EXCEPT !.at = "aborted"] /\ bot' = bot
         ELSE owner' = [owner EXCEPT !.at = "idle"] /\ bot' = bot + 1
    /\ UNCHANGED <<age, deq, pushed, thief, handed>>

(* pop_bottom. An empty deque (bot = 0) gives nullptr and changes nothing. *)
LowerBot ==
    /\ owner.at = "idle" /\ bot # 0
    /\ bot' = bot - 1
    /\ owner' = [owner EXCEPT !.at = "age", !.local_bot = bot - 1]
    /\ UNCHANGED <<age, deq, pushed, thief, handed>>

\* Mutant: the job at the top counts as the owner's without a race for it.
LoadAgeNoRace ==
    /\ owner.at = "age"
    /\ IF owner.local_bot >= age.top
         THEN /\ handed' = Append(handed, deq[owner.local_bot])
              /\ owner' = [owner EXCEPT !.at = "idle"]
         ELSE /\ owner' = [owner EXCEPT !.at = "reset", !.old_age = age]
              /\ UNCHANGED handed
    /\ UNCHANGED <<bot, age, deq, pushed, thief>>

LoadAge ==
    /\ owner.at = "age"
    /\ IF owner.local_bot > age.top
         THEN /\ handed' = Append(handed, deq[owner.local_bot])
              /\ owner' = [owner EXCEPT !.at = "idle"]
         ELSE /\ owner' = [owner EXCEPT !.at = "reset", !.old_age = age]
              /\ UNCHANGED handed
    /\ UNCHANGED <<bot, age, deq, pushed, thief>>

ResetBot ==
    /\ owner.at = "reset"
    /\ bot' = 0
    /\ owner' = [owner EXCEPT !.at = IF owner.local_bot = owner.old_age.top
                                       THEN "cas" ELSE "store"]
    /\ UNCHANGED <<age, deq, pushed, thief, handed>>

NewAge == [tag |-> owner.old_age.tag + 1, top |-> 0]

(* The compare-and-swap for the last job; when it fails, a thief was first. *)
RaceForLast ==
    /\ owner.at = "cas"
    /\ IF age = owner.old_age
         THEN /\ age' = NewAge
              /\ handed' = Append(handed, deq[owner.local_bot])
              /\ owner' = [owner EXCEPT !.at = "idle"]
         ELSE owner' = [owner EXCEPT !.at = "store"] /\ UNCHANGED <<age, handed>>
    /\ UNCHANGED <<bot, deq, pushed, thief>>

StoreAge ==
    /\ owner.at = "store"
    /\ age' = NewAge
    /\ owner' = [owner EXCEPT !.at = "idle"]
    /\ UNCHANGED <<bot, deq, pushed, thief, handed>>

(* pop_top *)
ReadAge(t) ==
    /\ thief[t].at = "idle" /\ owner.at # "aborted"
    /\ thief' = [thief EXCEPT ![t].at = "bot", ![t].old_age = age]
    /\ UNCHANGED <<bot, age, deq, pushed, owner, handed>>

ReadBot(t) ==
    /\ thief[t].at = "bot"
    /\ thief' = [thief EXCEPT ![t].at =
                     IF bot > thief[t].old_age.top THEN "job" ELSE "idle"]
    /\ UNCHANGED <<bot, age, deq, pushed, owner, handed>>

ReadJob(t) ==
    /\ thief[t].at = "job"
    /\ thief' = [thief EXCEPT ![t].at = "cas", ![t].job = deq[thief[t].old_age.top]]
    /\ UNCHANGED <<bot, age, deq, pushed, owner, handed>>

Steal(t) ==
    /\ thief[t].at = "cas"
    /\ IF age = thief[t].old_age
         THEN /\ age' = [age EXCEPT !.top = @ + 1]
              /\ handed' = Append(handed, thief[t].job)
         ELSE UNCHANGED <<age, handed>>
    /\ thief' = [thief EXCEPT ![t].at = "idle"]
    /\ UNCHANGED <<bot, deq, pushed, owner>>

Owner == StoreJob \/ PublishJob \/ LowerBot \/ LoadAge \/ ResetBot \/ RaceForLast \/ StoreAge

Next == Owner \/ \E t \in Thief : ReadAge(t) \/ ReadBot(t) \/ ReadJob(t) \/ Steal(t)

Spec == Init /\ [][Next]_vars
-----------------------------------------------------------------------------
(* The slots that hold jobs. While the owner is inside pop_bottom and has    *)
(* not lost the race, the slot it took bot below is still one of them.       *)
Bottom ==
    IF owner.at \in {"age", "reset", "cas"} THEN owner.local_bot + 1
    ELSE IF owner.at = "store" THEN 0 ELSE bot

Inside == SubSeq([i \in 1..q_size |-> deq[i - 1]], age.top + 1, Bottom)

Abstract == INSTANCE JobDeque WITH jobs <- Inside, handed <- handed

(* Whatever the owner and the thieves interleave, the deque is one that hands *)
(* each job out once and from its ends: push_bottom, pop_bottom and pop_top   *)
(* implement JobDeque, the race for the last job included.                    *)
ImplementsJobDeque == Abstract!Spec

(* No job is handed out twice, and while the owner is between two calls each  *)
(* job pushed is either handed out or still between top and bot.              *)
JobsOnceAndNoneLost ==
    /\ IsInjective(handed)
    /\ owner.at = "idle" =>
         ToSet(handed) \cup {deq[i] : i \in age.top..bot - 1} = 1..pushed
=============================================================================
