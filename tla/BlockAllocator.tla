---------------------------- MODULE BlockAllocator ----------------------------
(* internal/block_allocator.h: blocks of one size. Each worker keeps a linked *)
(* list of free blocks, at most two list lengths of them, and trades whole    *)
(* lists with the others over the global stack (HazptrStack). A worker's own  *)
(* list is private to it, so a call is one step.                              *)
EXTENDS Naturals, FiniteSets, SequencesExt

CONSTANTS
    Worker,
    list_length,
    max_blocks,
    nullptr

BlockAssumption ==
    /\ IsFiniteSet(Worker)
    /\ list_length \in Nat \ {0, 1} /\ max_blocks \in Nat

Block == 1..max_blocks

VARIABLES
    next,           \* the next field of each free block
    local_lists,    \* per worker: sz, head, mid
    global_stack,   \* the heads of the lists in it, top first
    allocated,      \* the blocks that blocks_allocated counts
    used            \* the blocks the callers hold

vars == <<next, local_lists, global_stack, allocated, used>>

Pointer == Block \cup {nullptr}

TypeOK ==
    /\ next \in [Block -> Pointer]
    /\ local_lists \in [Worker -> [sz : 0..2 * list_length, head : Pointer, mid : Pointer]]
    /\ global_stack \in Seq(Block)
    /\ allocated \subseteq Block /\ used \subseteq allocated

(* allocate_blocks: the next n blocks of the memory; clear gives all back.    *)
Buffer(n) == [i \in 1..n |-> Cardinality(allocated) + i]

(* initialize_list, for each list_length blocks of a buffer: each is linked to *)
(* the next, and the last to none.                                            *)
Link(q, b) ==
    LET k == CHOOSE k \in DOMAIN q : q[k] = b IN
    IF \E i \in DOMAIN q : k = i * list_length THEN nullptr ELSE q[k + 1]

Linked(old, q) == [b \in Block |-> IF b \in ToSet(q) THEN Link(q, b) ELSE old[b]]

(* The constructor calls reserve(0): a list per worker in the global stack.   *)
Init ==
    /\ next = [b \in Block |-> nullptr]
    /\ local_lists = [w \in Worker |-> [sz |-> 0, head |-> nullptr, mid |-> nullptr]]
    /\ global_stack = << >>
    /\ allocated = {} /\ used = {}

Reserve ==
    /\ allocated = {} /\ global_stack = << >>
    /\ LET n == Cardinality(Worker)
           q == Buffer(n * list_length) IN
       /\ ToSet(q) \subseteq Block
       /\ next' = Linked(next, q)
       /\ global_stack' = [k \in 1..n |-> q[(k - 1) * list_length + 1]]
       /\ allocated' = ToSet(q)
    /\ UNCHANGED <<local_lists, used>>

(* alloc: take the head of the local list. An empty one is refilled from the  *)
(* global stack, or with a new list. (get_list runs no other task of this     *)
(* worker, as its loops are conservative: the list is still empty after it.)  *)
(* That is what happens after clear, when nothing is reserved.                *)
Hand(w, from, links) ==
    /\ used' = used \cup {from.head}
    /\ next' = [links EXCEPT ![from.head] = nullptr]    \* its memory is the caller's
    /\ local_lists' = [local_lists EXCEPT ![w] =
         [from EXCEPT !.head = links[from.head], !.sz = @ - 1,
                      !.mid = IF @ = from.head THEN nullptr ELSE @]]  \* no stale pointers

Refilled(w, list) == [local_lists[w] EXCEPT !.head = list, !.sz = list_length]

Alloc(w) ==
    \/ /\ local_lists[w].sz > 0
       /\ Hand(w, local_lists[w], next)
       /\ UNCHANGED <<global_stack, allocated>>
    \/ /\ local_lists[w].sz = 0 /\ global_stack # << >>
       /\ Hand(w, Refilled(w, Head(global_stack)), next)
       /\ global_stack' = Tail(global_stack) /\ UNCHANGED allocated
    \/ /\ local_lists[w].sz = 0 /\ global_stack = << >>
       /\ LET q == Buffer(list_length) IN
            /\ ToSet(q) \subseteq Block     \* the code asserts that there are enough
            /\ Hand(w, Refilled(w, q[1]), Linked(next, q))
            /\ allocated' = allocated \cup ToSet(q)
       /\ UNCHANGED global_stack

\* Mutant: the middle is marked one block too late.
MarkLate(l) == IF l.sz = list_length + 2 THEN [l EXCEPT !.mid = l.head] ELSE l

(* free: the middle of the list is remembered when it is passed, and when the *)
(* list is full, the half below it goes to the global stack.                  *)
MarkMid(l) == IF l.sz = list_length + 1 THEN [l EXCEPT !.mid = l.head] ELSE l

Free(w, p) ==
    /\ p \in used
    /\ LET l == MarkMid(local_lists[w])
           full == local_lists[w].sz = 2 * list_length
           kept == IF full THEN [l EXCEPT !.sz = list_length] ELSE l
           cut == IF full THEN [next EXCEPT ![l.mid] = nullptr] ELSE next IN
         /\ global_stack' = (IF full THEN <<next[l.mid]>> ELSE << >>) \o global_stack
         /\ next' = [cut EXCEPT ![p] = kept.head]
         /\ local_lists' = [local_lists EXCEPT ![w] = [kept EXCEPT !.head = p, !.sz = @ + 1]]
    /\ used' = used \ {p}
    /\ UNCHANGED allocated

num_used_blocks ==
    LET sizes[S \in SUBSET Worker] ==
            IF S = {} THEN 0
            ELSE LET w == CHOOSE w \in S : TRUE IN local_lists[w].sz + sizes[S \ {w}]
    IN Cardinality(allocated) - (Len(global_stack) * list_length + sizes[Worker])

(* clear: only sz is reset; the stale head and mid are as good as null.       *)
Clear ==
    /\ num_used_blocks = 0 /\ allocated # {}
    /\ local_lists' = [w \in Worker |-> [sz |-> 0, head |-> nullptr, mid |-> nullptr]]
    /\ global_stack' = << >>
    /\ allocated' = {}
    /\ UNCHANGED <<next, used>>

Next ==
    \/ Clear
    \/ Reserve
    \/ \E w \in Worker : Alloc(w) \/ \E p \in Block : Free(w, p)

Spec == Init /\ [][Next]_vars
-----------------------------------------------------------------------------
(* The first n blocks of a list. *)
Chain(first, n) ==
    LET at[i \in 1..n] == IF i = 1 THEN first ELSE next[at[i - 1]] IN {at[i] : i \in 1..n}

Lists == {<<local_lists[w].head, local_lists[w].sz, <<w, "local">>>> : w \in Worker}
         \cup {<<global_stack[i], list_length, <<i>>>> : i \in DOMAIN global_stack}

(* Every block is in one place: with a caller, or once in one free list. The  *)
(* sizes that are kept apart from the links agree with them, although the     *)
(* middle of a list is remembered while it shrinks and grows past it.         *)
BlocksInOnePlace ==
    /\ \A l \in Lists : Cardinality(Chain(l[1], l[2])) = l[2]
    /\ \A l, k \in Lists : l # k => Chain(l[1], l[2]) \cap Chain(k[1], k[2]) = {}
    /\ \A l \in Lists : Chain(l[1], l[2]) \cap used = {}
    /\ used \cup UNION {Chain(l[1], l[2]) : l \in Lists} = allocated
=============================================================================
