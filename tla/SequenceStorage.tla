-------------------------- MODULE SequenceStorage --------------------------
(***************************************************************************)
(* parlay::sequence (sequence.h, internal/sequence_base.h), the container  *)
(* of every cluster, table and buffer of the engine, and the memory it     *)
(* takes from the pools (alloc.h, internal/pool_allocator.h): one program  *)
(* works on a few sequences.  Cells of memory hold elements or nothing;    *)
(* an operation of the container is a sequence of constructions, moves and *)
(* destructions of cells and of allocations, and w is the world they act   *)
(* on.  The pools' own concurrency is BlockAllocator's and HazptrStack's.  *)
(*                                                                         *)
(* Three kinds of sequences differ in the code: of objects with a          *)
(* destructor, of plain values, and of plain values with the first few     *)
(* kept inside the sequence itself (EnableSSO).                            *)
(***************************************************************************)
EXTENDS Integers, Sequences, FiniteSets

CONSTANTS
  Name, tmp,      \* the program's sequences; a temporary of an operation
  Element,        \* positive numbers
  short_capacity, \* elements that fit inside a short sequence
  header,         \* bytes before the elements; an element has one byte
  sizes,          \* block sizes of the pools
  MaxBlocks, MaxCells, MaxLength, MaxCalls       \* bounds

VARIABLES
  kind,           \* "objects", "plain", "short"
  w,              \* memory and sequences, see Init
  want,           \* sequence -> the elements it should have
  calls           \* operations so far

vars == <<kind, w, want, calls>>

Raw == 0          \* a cell without an element
Moved == -1       \* an object after it was moved from

Block == 1..MaxBlocks
Handle == Name \cup {tmp}
NoCells == [i \in 1..MaxCells |-> Raw]

-----------------------------------------------------------------------------
(* Memory (alloc.h, pool_allocator.h, sequence_base.h).                    *)

max_size == CHOOSE x \in sizes : \A y \in sizes : y <= x

\* The pool of blocks for so many bytes; beyond max_size operator new serves.
Class(bytes) == IF bytes > max_size THEN bytes
                ELSE CHOOSE x \in sizes : x >= bytes /\ \A y \in sizes : y >= bytes => x <= y

\* allocate: the block it returns, ...
NewBlock(v, capacity) ==
  LET c == Class(header + capacity)
      from == IF c <= max_size /\ v.pool[c] # {} THEN v.pool[c] ELSE {b \in Block : v.class[b] = 0}
  IN  CHOOSE b \in from : \A x \in from : b <= x

\* ... and what is so afterwards, header::create included.
Allocate(v, capacity) ==
  LET b == NewBlock(v, capacity)
      c == Class(header + capacity)
  IN  [v EXCEPT !.capacity[b] = capacity, !.class[b] = c,
                !.pool = [x \in sizes |-> @[x] \ {b}]]

\* free_buffer, deallocate: the size is computed anew from the header.
Free(v, b) ==
  LET c == Class(header + v.capacity[b])
  IN  [v EXCEPT !.capacity[b] = 0, !.cells[b] = NoCells,
                !.class[b] = IF c > max_size THEN 0 ELSE @,
                !.pool = [x \in sizes |-> IF x = c THEN @[x] \cup {b} ELSE @[x]],
                !.misuse = \/ @ \/ c # v.class[b]
                           \/ \E x \in sizes : b \in v.pool[x]
                           \/ kind = "objects" /\ v.cells[b] # NoCells]

\* is_small, capacity(), data(): where the elements of s are.
Small(v, s) == kind = "short" /\ v.buffer[s] = 0
Capacity(v, s) == IF v.buffer[s] # 0 THEN v.capacity[v.buffer[s]]
                  ELSE IF kind = "short" THEN short_capacity ELSE 0
Home(v, s) == IF v.buffer[s] = 0 THEN s ELSE v.buffer[s]
Cells(v, s) == v.cells[Home(v, s)]
Items(v, s) == [i \in 1..v.size[s] |-> Cells(v, s)[i]]

\* initialize: construct elements in cells that have none.
Put(v, s, at, elements) ==
  LET I == (at + 1)..(at + Len(elements))
      h == Home(v, s)
  IN  [v EXCEPT !.cells[h] = [i \in 1..MaxCells |-> IF i \in I THEN elements[i - at] ELSE @[i]],
                !.misuse = \/ @ \/ at + Len(elements) > Capacity(v, s)
                           \/ \E i \in I : elements[i - at] \in {Raw, Moved}
                           \/ kind = "objects" /\ \E i \in I \cap 1..MaxCells : v.cells[h][i] # Raw]

\* What a move, a relocation and a destructor leave: nothing changes for plain
\* values.
Become(v, s, I, x) ==
  IF kind # "objects" THEN v
  ELSE [v EXCEPT !.cells[Home(v, s)] = [i \in 1..MaxCells |-> IF i \in I THEN x ELSE @[i]],
                 !.misuse = @ \/ \E i \in I : Cells(v, s)[i] = Raw]
Destroy(v, s, I) == Become(v, s, I, Raw)

SetSize(v, s, m) == [v EXCEPT !.size[s] = m, !.misuse = @ \/ m > Capacity(v, s)]

\* set_to_empty_representation
Empty(v, s) == [v EXCEPT !.buffer[s] = 0, !.size[s] = 0, !.cells[s] = NoCells]

\* clear_without_destruction, clear
Release(v, s) == Empty(IF v.buffer[s] = 0 THEN v ELSE Free(v, v.buffer[s]), s)
ClearS(v, s) == Release(IF Small(v, s) THEN v ELSE Destroy(v, s, 1..v.size[s]), s)

\* swap: the raw bytes, small elements among them.
Swapped(v, s, t) ==
  [v EXCEPT !.buffer[s] = v.buffer[t], !.buffer[t] = v.buffer[s],
            !.size[s] = v.size[t], !.size[t] = v.size[s],
            !.cells[s] = v.cells[t], !.cells[t] = v.cells[s]]

\* move_from: s is empty.
MoveFrom(v, s, t) ==
  Empty([v EXCEPT !.buffer[s] = v.buffer[t], !.size[s] = v.size[t],
                  !.cells[s] = v.cells[t]], t)

\* initialize_capacity: without small sequences, a block even for none.
InitializeCapacity(v, s, desired) ==
  IF kind = "short" /\ short_capacity >= desired THEN v
  ELSE [Allocate(v, desired) EXCEPT !.buffer[s] = NewBlock(v, desired)]

\* ensure_capacity: two and a half times the old one, or what is asked for.
EnsureCapacity(v, s, desired) ==
  LET current == Capacity(v, s)
      grown == (5 * current) \div 2
      new_capacity == IF grown > desired THEN grown ELSE desired
      b == NewBlock(v, new_capacity)
      n == v.size[s]
      relocated == [Become(Allocate(v, new_capacity), s, 1..n, Raw)
                      EXCEPT !.cells[b] = [i \in 1..MaxCells |-> IF i <= n THEN Cells(v, s)[i] ELSE @[i]]]
      freed == IF v.buffer[s] = 0 THEN relocated ELSE Free(relocated, v.buffer[s])
  IN  IF current >= desired THEN v
      ELSE [freed EXCEPT !.buffer[s] = b, !.cells[s] = NoCells]

-----------------------------------------------------------------------------
(* The container (sequence.h).                                             *)

\* initialize_fill, initialize_range: s is empty.
Initialize(v, s, elements) ==
  SetSize(Put(InitializeCapacity(v, s, Len(elements)), s, 0, elements), s, Len(elements))

\* append_range, append_n, emplace_back
Appended(v, s, elements) ==
  LET n == v.size[s]
  IN  SetSize(Put(EnsureCapacity(v, s, n + Len(elements)), s, n, elements), s, n + Len(elements))

\* append of a range whose elements are moved out; then the temporary dies.
MoveAppend(v, s, t) ==
  ClearS(Become(Appended(v, s, Items(v, t)), t, 1..v.size[t], Moved), t)

\* Copy constructor: a small sequence is copied as it is.
Copied(v, s, t) ==
  IF Small(v, t) THEN [v EXCEPT !.size[s] = v.size[t], !.cells[s] = v.cells[t]]
  ELSE Initialize(v, s, Items(v, t))

\* operator=: what was made in the temporary is swapped in, the rest dies.
AssignTmp(v, s) == ClearS(Swapped(v, s, tmp), tmp)

\* Mutant: the elements that were moved out are not destroyed.
PopTail_NoDestroy(v, s, p) ==
  IF p = v.size[s] THEN v
  ELSE LET I == (p + 1)..v.size[s]
           out == Initialize(v, tmp, SubSeq(Items(v, s), p + 1, v.size[s]))
       IN  SetSize(Become(out, s, I, Moved), s, p)

\* pop_tail: the elements behind position p go to the temporary.
PopTail(v, s, p) ==
  IF p = v.size[s] THEN v
  ELSE LET I == (p + 1)..v.size[s]
           out == Initialize(v, tmp, SubSeq(Items(v, s), p + 1, v.size[s]))
       IN  SetSize(Destroy(Become(out, s, I, Moved), s, I), s, p)

PopBackOf(v, s) == SetSize(Destroy(v, s, {v.size[s]}), s, v.size[s] - 1)

Resized(v, s, m, x) ==
  IF m < v.size[s] THEN SetSize(Destroy(v, s, (m + 1)..v.size[s]), s, m)
  ELSE Appended(v, s, [i \in 1..(m - v.size[s]) |-> x])

Copies(m, x) == [i \in 1..m |-> x]
Behind(q, p) == SubSeq(q, p + 1, Len(q))
Front(q, p) == SubSeq(q, 1, p)

Step(v, q) == /\ calls < MaxCalls
              /\ \A s \in Name : Len(q[s]) <= MaxLength
              /\ w' = v /\ want' = q
              /\ calls' = calls + 1
              /\ UNCHANGED kind

Init ==
  /\ kind \in {"objects", "plain", "short"}
  /\ w = [buffer   |-> [s \in Handle |-> 0],          \* null
          size     |-> [s \in Handle |-> 0],
          cells    |-> [h \in Handle \cup Block |-> NoCells],
          capacity |-> [b \in Block |-> 0],
          class    |-> [b \in Block |-> 0],           \* 0: never allocated
          pool     |-> [x \in sizes |-> {}],
          misuse   |-> FALSE]
  /\ want = [s \in Name |-> <<>>]
  /\ calls = 0

\* assign(n, v); n = 0 also leaves what sequence(0) is.
AssignFill(s, m, x) ==
  Step(Initialize(ClearS(w, s), s, Copies(m, x)), [want EXCEPT ![s] = Copies(m, x)])

CopyAssign(s, t) == Step(AssignTmp(Copied(w, tmp, t), s), [want EXCEPT ![s] = want[t]])

MoveAssign(s, t) ==
  Step(AssignTmp(MoveFrom(w, tmp, t), s), [want EXCEPT ![t] = <<>>, ![s] = want[t]])

PushBack(s, x) == Step(Appended(w, s, <<x>>), [want EXCEPT ![s] = Append(@, x)])

AppendCopy(s, t) ==
  s # t /\ Step(Appended(w, s, Items(w, t)), [want EXCEPT ![s] = @ \o want[t]])

\* append(sequence&&): taken over as it is if that saves memory.
AppendRvalue(s, t) ==
  /\ s # t
  /\ Step(IF w.size[s] = 0 /\ Capacity(w, s) <= w.size[t]
          THEN AssignTmp(MoveFrom(w, tmp, t), s) ELSE MoveAppend(w, s, t),
          [want EXCEPT ![s] = @ \o want[t], ![t] = <<>>])

\* t = s.pop_tail(p)
PopTailTo(s, p, t) ==
  /\ s # t
  /\ Step(AssignTmp(PopTail(w, s, p), t),
          [want EXCEPT ![s] = Front(@, p), ![t] = Behind(want[s], p)])

\* emplace, insert of one element: room is made before the tail is taken off.
Emplace(s, p, x) ==
  Step(IF p = w.size[s] THEN Appended(w, s, <<x>>)
       ELSE MoveAppend(Appended(PopTail(EnsureCapacity(w, s, w.size[s] + 1), s, p), s, <<x>>), s, tmp),
       [want EXCEPT ![s] = Front(@, p) \o <<x>> \o Behind(@, p)])

\* insert_range: the capacity may grow twice.
InsertRange(s, p, t) ==
  /\ s # t
  /\ Step(MoveAppend(Appended(PopTail(w, s, p), s, Items(w, t)), s, tmp),
          [want EXCEPT ![s] = Front(@, p) \o want[t] \o Behind(@, p)])

Erase(s, p) ==
  Step(IF p = w.size[s] - 1 THEN PopBackOf(w, s)
       ELSE MoveAppend(PopBackOf(PopTail(w, s, p + 1), s), s, tmp),
       [want EXCEPT ![s] = Front(@, p) \o Behind(@, p + 1)])

EraseRange(s, p, q) ==
  Step(MoveAppend(Resized(PopTail(w, s, q), s, p, Moved), s, tmp),
       [want EXCEPT ![s] = Front(@, p) \o Behind(@, q)])

PopBack(s) == w.size[s] > 0 /\ Step(PopBackOf(w, s), [want EXCEPT ![s] = Front(@, Len(@) - 1)])

Resize(s, m, x) ==
  Step(Resized(w, s, m, x),
       [want EXCEPT ![s] = IF m < Len(@) THEN Front(@, m) ELSE @ \o Copies(m - Len(@), x)])

Reserve(s, m) == Step(EnsureCapacity(w, s, m), want)

Clear(s) == Step(ClearS(w, s), [want EXCEPT ![s] = <<>>])

\* clear_relocated, after the elements were relocated elsewhere.
ClearRelocated(s) ==
  Step(Release(Become(w, s, 1..w.size[s], Raw), s), [want EXCEPT ![s] = <<>>])

Next ==
  \E s \in Name :
    \/ PopBack(s) \/ Clear(s) \/ ClearRelocated(s)
    \/ \E x \in Element : \/ PushBack(s, x)
                          \/ \E p \in 0..w.size[s] : Emplace(s, p, x)
                          \/ \E m \in {0, MaxLength} : AssignFill(s, m, x)
    \/ \E m \in 0..MaxLength : Resize(s, m, CHOOSE x \in Element : TRUE)
    \/ Reserve(s, MaxLength)
    \/ \E p \in 0..(w.size[s] - 1) : Erase(s, p) \/ \E q \in p..w.size[s] : EraseRange(s, p, q)
    \/ \E t \in Name : \/ CopyAssign(s, t) \/ MoveAssign(s, t)
                       \/ AppendCopy(s, t) \/ AppendRvalue(s, t)
                       \/ \E p \in 0..w.size[s] : PopTailTo(s, p, t) \/ InsertRange(s, p, t)

Spec == Init /\ [][Next]_vars
-----------------------------------------------------------------------------
Owners(b) == {s \in Name : w.buffer[s] = b}

(* sequence, storage_impl, pool_allocator: after any operations a sequence has *)
(* the elements it should; no cell is constructed twice, read without an       *)
(* element or freed with a live one in it; no two sequences share a block, and *)
(* every block is with one owner or back in the pool of its own size.          *)
SequencesKeepElements ==
  /\ ~w.misuse
  /\ \A s \in Name : /\ Items(w, s) = want[s]
                     /\ w.size[s] <= Capacity(w, s)
                     /\ kind = "objects" =>
                          \A i \in (w.size[s] + 1)..MaxCells : Cells(w, s)[i] = Raw
  /\ w.buffer[tmp] = 0 /\ w.size[tmp] = 0
  /\ \A b \in Block :
       IF w.class[b] = 0 THEN Owners(b) = {}
       ELSE \/ Cardinality(Owners(b)) = 1 /\ \A x \in sizes : b \notin w.pool[x]
            \/ Owners(b) = {} /\ \A x \in sizes : b \in w.pool[x] <=> x = w.class[b]
=============================================================================
