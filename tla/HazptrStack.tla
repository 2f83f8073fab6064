----------------------------- MODULE HazptrStack -----------------------------
(* internal/concurrency/hazptr_stack.h and acquire_retire.h: the lock-free    *)
(* stack of free lists with hazard pointers. One step per access to shared    *)
(* memory. Addresses are reused once they are deleted. The workers trade in   *)
(* values: each pushes one it holds or pops one, as the block allocator does. *)
EXTENDS Naturals, FiniteSets

CONSTANTS
    Worker,
    Address,        \* where nodes can be allocated
    Value,
    threshold,      \* retires before a worker tries to delete, 30 in the code
    nullptr

HazptrAssumption == nullptr \notin Address /\ threshold \in Nat \ {0}

VARIABLES
    head,
    node,           \* the live or retired nodes: a function on their addresses
    announcements,
    retired,        \* per worker: the set retired[id], and amortized_work[id]
    call,           \* per worker: its step and local variables
    held            \* per worker: the values it holds

vars == <<head, node, announcements, retired, call, held>>

Pointer == Address \cup {nullptr}
NoValue == nullptr
Idle == [at |-> "idle", op |-> "pop", p |-> nullptr, h |-> nullptr, next |-> nullptr,
         slots |-> {}, announced |-> {}]

Node == [t : Value, next : Pointer, length : Nat]

Call == [at : {"idle", "load", "announce", "check", "next", "cas", "take", "eject", "release"},
         op : {"push", "pop"}, p : Pointer, h : Pointer, next : Pointer,
         slots : SUBSET Worker, announced : SUBSET Pointer]

TypeOK ==
    /\ head \in Pointer
    /\ DOMAIN node \subseteq Address /\ \A a \in DOMAIN node : node[a] \in Node
    /\ announcements \in [Worker -> Pointer]
    /\ retired \in [Worker -> [list : SUBSET Address, work : 0..threshold]]
    /\ call \in [Worker -> Call]
    /\ held \in [Worker -> SUBSET Value]

Init ==
    /\ head = nullptr /\ node = [a \in {} |-> NoValue]
    /\ announcements = [w \in Worker |-> nullptr]
    /\ retired = [w \in Worker |-> [list |-> {}, work |-> 0]]
    /\ call = [w \in Worker |-> Idle]
    /\ held \in {f \in [Worker -> SUBSET Value] :
                   /\ UNION {f[w] : w \in Worker} = Value
                   /\ \A u, w \in Worker : u # w => f[u] \cap f[w] = {}}

Goto(w, at) == call' = [call EXCEPT ![w].at = at]

(* push: a new node for one of the values; then, like pop, acquire(head).     *)
StartPush(w) ==
    /\ call[w].at = "idle"
    /\ \E v \in held[w] : \E p \in Address \ DOMAIN node :
         /\ held' = [held EXCEPT ![w] = @ \ {v}]
         /\ node' = [a \in DOMAIN node \cup {p} |->
                       IF a = p THEN [t |-> v, next |-> nullptr, length |-> 1] ELSE node[a]]
         /\ call' = [call EXCEPT ![w] = [Idle EXCEPT !.at = "load", !.op = "push", !.p = p]]
    /\ UNCHANGED <<head, announcements, retired>>

StartPop(w) ==
    /\ call[w].at = "idle" /\ head # nullptr      \* an empty stack changes nothing
    /\ Goto(w, "load")
    /\ UNCHANGED <<head, node, announcements, retired, held>>

(* acquire: announce what was loaded until a second look finds it unchanged.  *)
Load(w) ==
    /\ call[w].at = "load"
    /\ call' = [call EXCEPT ![w].at = "announce", ![w].h = head]
    /\ UNCHANGED <<head, node, announcements, retired, held>>

Announce(w) ==
    /\ call[w].at = "announce"
    /\ announcements' = [announcements EXCEPT ![w] = call[w].h]
    /\ Goto(w, "check")
    /\ UNCHANGED <<head, node, retired, held>>

\* Mutant: acquire does not look again.
NoSecondLook(w) ==
    /\ call[w].at = "check"
    /\ call' = [call EXCEPT ![w] =
         IF @.h = nullptr /\ @.op = "pop" THEN Idle ELSE [@ EXCEPT !.at = "next"]]
    /\ UNCHANGED <<head, node, announcements, retired, held>>

CheckAgain(w) ==
    /\ call[w].at = "check"
    /\ call' = [call EXCEPT ![w] =
         IF head # @.h THEN [@ EXCEPT !.at = "load"]
         ELSE IF @.h = nullptr /\ @.op = "pop" THEN Idle
         ELSE [@ EXCEPT !.at = "next"]]
    /\ UNCHANGED <<head, node, announcements, retired, held>>

(* Link the new node before h, or read what follows h.                        *)
ReadNode(w) ==
    /\ call[w].at = "next"
    /\ LET s == call[w] IN
         IF s.op = "push"
           THEN /\ node' = [node EXCEPT ![s.p] = [@ EXCEPT !.next = s.h,
                              !.length = IF s.h = nullptr THEN 1 ELSE node[s.h].length + 1]]
                /\ Goto(w, "cas")
           ELSE /\ call' = [call EXCEPT ![w].at = "cas", ![w].next = node[s.h].next]
                /\ UNCHANGED node
    /\ UNCHANGED <<head, announcements, retired, held>>

\* Mutant: a failed exchange is retried with the head it brought back, without
\* acquiring that node and reading it.
RetryExchange(w) ==
    /\ call[w].at = "cas"
    /\ LET s == call[w] IN
         IF head = s.h
           THEN /\ head' = IF s.op = "push" THEN s.p ELSE s.next
                /\ Goto(w, IF s.op = "push" THEN "release" ELSE "take")
           ELSE call' = [call EXCEPT ![w].h = head] /\ UNCHANGED head
    /\ UNCHANGED <<node, announcements, retired, held>>

CompareExchange(w) ==
    /\ call[w].at = "cas"
    /\ LET s == call[w] IN
         IF head = s.h
           THEN /\ head' = IF s.op = "push" THEN s.p ELSE s.next
                /\ Goto(w, IF s.op = "push" THEN "release" ELSE "take")
           ELSE Goto(w, "load") /\ UNCHANGED head
    /\ UNCHANGED <<node, announcements, retired, held>>

SlotsToScan(w) == Worker

(* The value is moved out and the node retired.                               *)
TakeValue(w) ==
    /\ call[w].at = "take"
    /\ held' = [held EXCEPT ![w] = @ \cup {node[call[w].h].t}]
    /\ retired' = [retired EXCEPT ![w] = [list |-> @.list \cup {call[w].h}, work |-> @.work + 1]]
    /\ call' = [call EXCEPT ![w].at = IF retired'[w].work >= threshold THEN "eject" ELSE "release",
                            ![w].slots = SlotsToScan(w)]
    /\ UNCHANGED <<head, node, announcements>>

(* work_toward_ejects: collect the announcements one by one, then delete the  *)
(* retired nodes that are not among them.                                     *)
ScanSlot(w) ==
    /\ call[w].at = "eject"
    /\ \E v \in call[w].slots :
         call' = [call EXCEPT ![w].slots = @ \ {v}, ![w].announced = @ \cup {announcements[v]}]
    /\ UNCHANGED <<head, node, announcements, retired, held>>

Eject(w) ==
    /\ call[w].at = "eject" /\ call[w].slots = {}
    /\ LET keep == retired[w].list \cap call[w].announced IN
         /\ node' = [a \in DOMAIN node \ (retired[w].list \ keep) |-> node[a]]
         /\ retired' = [retired EXCEPT ![w] = [list |-> keep, work |-> 0]]
    /\ Goto(w, "release")
    /\ UNCHANGED <<head, announcements, held>>

Release(w) ==
    /\ call[w].at = "release"
    /\ announcements' = [announcements EXCEPT ![w] = nullptr]
    /\ call' = [call EXCEPT ![w] = Idle]
    /\ UNCHANGED <<head, node, retired, held>>

Next == \E w \in Worker :
    \/ StartPush(w) \/ StartPop(w) \/ Load(w) \/ Announce(w) \/ CheckAgain(w)
    \/ ReadNode(w) \/ CompareExchange(w) \/ TakeValue(w) \/ ScanSlot(w) \/ Eject(w) \/ Release(w)

Spec == Init /\ [][Next]_vars
-----------------------------------------------------------------------------
(* No worker touches a node after it was deleted: where it reads the node it  *)
(* acquired, and all along the stack, the node is there.                      *)
NoUseAfterDelete ==
    /\ \A w \in Worker : call[w].at \in {"next", "take"} /\ call[w].h # nullptr =>
         call[w].h \in DOMAIN node
    /\ head # nullptr => head \in DOMAIN node
    /\ \A w \in Worker : retired[w].list \subseteq DOMAIN node

(* The nodes that can be reached from head.                                   *)
Stack ==
    {a \in Address :
       \A S \in SUBSET Address :
         /\ head \in S \cup {nullptr}
         /\ \A b \in S \cap DOMAIN node : node[b].next \in S \cup {nullptr}
         => a \in S}

(* No value is lost or in two places: each is held by one worker, or in one   *)
(* node that is being pushed, is in the stack or is being taken. And size(),  *)
(* which reads the length of the top node, is the length of the stack.        *)
Traded ==
    LET InCall(w) == {a \in DOMAIN node :
             \/ call[w].op = "push" /\ call[w].p = a /\ call[w].at # "release"
             \/ call[w].at = "take" /\ call[w].h = a}
        places(v) == {<<w, "held">> : w \in {u \in Worker : v \in held[u]}}
            \cup {<<w, "call">> : w \in {u \in Worker : \E a \in InCall(u) : node[a].t = v}}
            \cup {<<a, "stack">> : a \in {b \in Stack : node[b].t = v}}
    IN /\ \A v \in Value : Cardinality(places(v)) = 1
       /\ head # nullptr => node[head].length = Cardinality(Stack)
=============================================================================
