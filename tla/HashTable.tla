------------------------------ MODULE HashTable ------------------------------
(* hash_table.h: the phase-concurrent hash table. Workers insert at the same  *)
(* time, then delete at the same time, then search. A step is one access to   *)
(* the table TA with the local work around it.                                *)
EXTENDS Naturals, FiniteSets

CONSTANTS
    m,              \* cells of the table
    Key,            \* positive numbers; a greater key has the higher priority
    Hash,           \* hash value of each key, below m
    Worker,
    Inserts,        \* per worker, the sets of keys it may have to insert
    Deletes         \* per worker, the sets of keys it may have to delete

HashTableAssumption ==
    /\ m \in Nat \ {0} /\ Key \subseteq Nat \ {0}
    /\ Hash \in [Key -> 0..m - 1]
    /\ Inserts \in SUBSET [Worker -> SUBSET Key]
    /\ Deletes \in SUBSET [Worker -> SUBSET Key]

empty == 0
Index == 0..m - 1

VARIABLES
    TA,
    phase,          \* "insert", "delete" or "search": the phases never overlap
    todo,           \* per worker, what is left of its calls in this phase
    call,           \* per worker, the call it is in and its local variables
    inserted, deleted       \* the keys of the whole of each phase

vars == <<TA, phase, todo, call, inserted, deleted>>

NoCall == [at |-> "none", v |-> 0, i |-> 0, j |-> 0, c |-> 0, x |-> 0, jj |-> 0, jjj |-> 0]

Call == [at : {"none", "load", "put", "seek", "check", "up", "down", "copy", "reload"},
         v : Key \cup {0}, i : Index, j : Index, c : Key \cup {empty},
         x : Key \cup {empty}, jj : Index, jjj : Index]

TypeOK ==
    /\ TA \in [Index -> Key \cup {empty}]
    /\ phase \in {"insert", "delete", "search"}
    /\ todo \in [Worker -> SUBSET Key]
    /\ call \in [Worker -> Call]
    /\ inserted \subseteq Key /\ deleted \subseteq Key

Init ==
    /\ TA = [i \in Index |-> empty]
    /\ phase = "insert"
    /\ todo \in Inserts
    /\ call = [w \in Worker |-> NoCall]
    /\ inserted = UNION {todo[w] : w \in Worker}
    /\ deleted = {}

firstIndex(v) == Hash[v]
incrementIndex(h) == (h + 1) % m
decrementIndex(h) == (h + m - 1) % m

\* Mutant: indices are compared as if the table did not wrap round.
lessIndexFlat(a, b) == a < b

lessIndex(a, b) == IF a < b THEN 2 * (b - a) < m ELSE 2 * (a - b) > m

(* insert: load a cell, then act on what was loaded. *)
StartInsert(w) ==
    /\ phase = "insert" /\ call[w].at = "none"
    /\ \E v \in todo[w] :
         /\ todo' = [todo EXCEPT ![w] = @ \ {v}]
         /\ call' = [call EXCEPT ![w] = [NoCall EXCEPT !.at = "load", !.v = v,
                                                       !.i = firstIndex(v)]]
    /\ UNCHANGED <<TA, phase, inserted, deleted>>

LoadCell(w) ==
    /\ call[w].at = "load"
    /\ call' = LET s == call[w]  c == TA[s.i] IN [call EXCEPT ![w] =
         CASE c = s.v               -> NoCall        \* replaceQ is false
           [] c # empty /\ s.v < c  -> [s EXCEPT !.i = incrementIndex(s.i)]
           [] OTHER                 -> [s EXCEPT !.at = "put", !.c = c]]
    /\ UNCHANGED <<TA, phase, todo, inserted, deleted>>

Put(w) ==
    /\ call[w].at = "put"
    /\ LET s == call[w] IN
         IF TA[s.i] # s.c
           THEN call' = [call EXCEPT ![w].at = "load"] /\ UNCHANGED TA
           ELSE /\ TA' = [TA EXCEPT ![s.i] = s.v]
                /\ call' = [call EXCEPT ![w] =
                     IF s.c = empty THEN NoCall
                     ELSE [s EXCEPT !.at = "load", !.v = s.c, !.i = incrementIndex(s.i)]]
    /\ UNCHANGED <<phase, todo, inserted, deleted>>

(* deleteVal: seek the first cell that is not of higher priority; then walk   *)
(* back from it, and when the key is found, fill its cell.                    *)
StartDelete(w) ==
    /\ phase = "delete" /\ call[w].at = "none"
    /\ \E v \in todo[w] :
         /\ todo' = [todo EXCEPT ![w] = @ \ {v}]
         /\ call' = [call EXCEPT ![w] = [NoCall EXCEPT !.at = "seek", !.v = v,
                                         !.i = firstIndex(v), !.j = firstIndex(v)]]
    /\ UNCHANGED <<TA, phase, inserted, deleted>>

Seek(w) ==
    /\ call[w].at = "seek"
    /\ call' = LET s == call[w]  c == TA[s.j] IN [call EXCEPT ![w] =
         CASE c = empty /\ s.j = s.i -> NoCall
           [] c # empty /\ s.v < c   -> [s EXCEPT !.j = incrementIndex(s.j)]
           [] OTHER                  -> [s EXCEPT !.at = "check", !.c = c]]
    /\ UNCHANGED <<TA, phase, todo, inserted, deleted>>

Check(w) ==
    /\ call[w].at = "check"
    /\ call' = LET s == call[w]
                   before == decrementIndex(s.j)
                   after == incrementIndex(s.j) IN [call EXCEPT ![w] =
         CASE s.c = s.v -> [s EXCEPT !.at = "up", !.jj = after, !.x = TA[after]]
           [] s.c # s.v /\ s.j = s.i -> NoCall
           [] OTHER -> [s EXCEPT !.j = before, !.c = TA[before]]]
    /\ UNCHANGED <<TA, phase, todo, inserted, deleted>>

(* Skip the cells whose keys may not move down to j. *)
Up(w) ==
    /\ call[w].at = "up"
    /\ call' = LET s == call[w]  next == incrementIndex(s.jj) IN [call EXCEPT ![w] =
         IF s.x # empty /\ lessIndex(s.j, firstIndex(s.x))
           THEN [s EXCEPT !.jj = next, !.x = TA[next]]
           ELSE [s EXCEPT !.at = "down", !.jjj = decrementIndex(s.jj)]]
    /\ UNCHANGED <<TA, phase, todo, inserted, deleted>>

(* Others may have moved keys down in the meantime: look again on the way back. *)
Down(w) ==
    /\ call[w].at = "down"
    /\ call' = LET s == call[w]  y == TA[s.jjj] IN [call EXCEPT ![w] =
         CASE s.jjj = s.j -> [s EXCEPT !.at = "copy"]
           [] s.jjj # s.j /\ (y = empty \/ ~ lessIndex(s.j, firstIndex(y))) ->
                [s EXCEPT !.x = y, !.jj = s.jjj, !.jjj = decrementIndex(s.jjj)]
           [] OTHER -> [s EXCEPT !.jjj = decrementIndex(s.jjj)]]
    /\ UNCHANGED <<TA, phase, todo, inserted, deleted>>

Copy(w) ==
    /\ call[w].at = "copy"
    /\ LET s == call[w] IN
         IF TA[s.j] # s.c
           THEN call' = [call EXCEPT ![w].at = "reload"] /\ UNCHANGED TA
           ELSE /\ TA' = [TA EXCEPT ![s.j] = s.x]
                /\ call' = [call EXCEPT ![w] =
                     IF s.x = empty THEN NoCall      \* else there are two of x now
                     ELSE [s EXCEPT !.at = "reload", !.v = s.x, !.j = s.jj,
                                    !.i = firstIndex(s.x)]]
    /\ UNCHANGED <<phase, todo, inserted, deleted>>

Reload(w) ==
    /\ call[w].at = "reload"
    /\ call' = [call EXCEPT ![w].at = "check", ![w].c = TA[call[w].j]]
    /\ UNCHANGED <<TA, phase, todo, inserted, deleted>>

(* A parallel loop joins before the next phase starts. *)
Quiet == \A w \in Worker : call[w].at = "none" /\ todo[w] = {}

NextPhase ==
    /\ Quiet
    /\ \/ /\ phase = "insert" /\ phase' = "delete"
          /\ todo' \in Deletes
          /\ deleted' = UNION {todo'[w] : w \in Worker}
       \/ phase = "delete" /\ phase' = "search" /\ UNCHANGED <<todo, deleted>>
    /\ UNCHANGED <<TA, call, inserted>>

Next == NextPhase \/ \E w \in Worker :
    \/ StartInsert(w) \/ LoadCell(w) \/ Put(w)
    \/ StartDelete(w) \/ Seek(w) \/ Check(w) \/ Up(w) \/ Down(w) \/ Copy(w) \/ Reload(w)

Spec == Init /\ [][Next]_vars

FairSpec == Spec /\ WF_vars(Next)

(* find: probing stops at an empty cell or a key of lower priority. *)
find(v) ==
    LET Probe[n \in 0..m] ==
            LET c == TA[(firstIndex(v) + n) % m] IN
            IF n = m \/ c = empty \/ v > c THEN empty
            ELSE IF c = v THEN c ELSE Probe[n + 1]
    IN Probe[0]
-----------------------------------------------------------------------------
Remaining == IF phase = "search" THEN inserted \ deleted ELSE inserted

(* After a phase the table holds the keys it should, each once, and find      *)
(* reports exactly those: nothing that was bumped, moved down or copied by    *)
(* concurrent calls is lost, left twice or out of find's reach.               *)
HoldsTheKeys ==
    Quiet /\ phase # "delete" =>
      /\ \A v \in Remaining : Cardinality({i \in Index : TA[i] = v}) = 1
      /\ {TA[i] : i \in Index} \subseteq Remaining \cup {empty}
      /\ \A v \in Key : find(v) = IF v \in Remaining THEN v ELSE empty

(* History independence: what lies between a key's first index and its cell   *)
(* are keys of higher priority only, so the layout is determined by the set   *)
(* of keys whatever the schedule was.                                         *)
Ordered ==
    Quiet /\ phase # "delete" =>
      \A p \in Index : TA[p] # empty =>
        \A n \in 0..m - 1 :
          LET q == (firstIndex(TA[p]) + n) % m IN
          n < (p + m - firstIndex(TA[p])) % m => TA[q] > TA[p]

(* Every phase ends. *)
PhasesEnd == <>(phase = "search" /\ Quiet)
=============================================================================
