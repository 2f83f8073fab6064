---------------------------- MODULE ResultTable ----------------------------
(***************************************************************************)
(* What becomes of the rows of the heap: the table that build_topk makes   *)
(* of them (pipnn.h), the file it stands in (h5_result_writer.h), and what *)
(* verify/compare_results.py says of the files of two runs.  Rows come in  *)
(* ascending order, without their own point and with no id twice; a row    *)
(* may be longer than the table is wide (-k_build) or shorter.  Points     *)
(* count from 0 in the heap and from 1 in a file.                          *)
(***************************************************************************)
EXTENDS Integers, Sequences, FiniteSets, FiniteSetsExt

CONSTANTS
  Comparisons,  \* pairs of runs [runs, gt]: a run is [k, configs] and a config
                \* [name, params, rows], gt the nearest points, one-based
  FLT_MAX,      \* longer than any distance
  max_ddist     \* --max-ddist

VARIABLES
  given,        \* the pair of runs
  run, cfg,     \* the run that writes, and its configs written
  dirs,         \* for each run: file name -> [knns, dists, params]
  names,        \* names still to compare
  rows,         \* the rows of the report: name -> [statistics]
  status        \* "running", then "exit 0" or "exit 1"

vars == <<given, run, cfg, dirs, names, rows, status>>

Runs == 1..2
SumOf(f, S) == FoldSet(LAMBDA x, y : f[x] + y, 0, S)

-----------------------------------------------------------------------------
(* The table. *)

\* Mutant: a short row is filled with the point's own number in the heap.
TableRow_ZeroBased(i, k, ngh) ==
  [col \in 0..k |-> IF col = 0 THEN <<i + 1, 0>>
                    ELSE IF col <= Len(ngh) THEN <<ngh[col][1] + 1, ngh[col][2]>>
                    ELSE <<i, FLT_MAX>>]

TableRow(i, k, ngh) ==
  [col \in 0..k |-> IF col = 0 THEN <<i + 1, 0>>
                    ELSE IF col <= Len(ngh) THEN <<ngh[col][1] + 1, ngh[col][2]>>
                    ELSE <<i + 1, FLT_MAX>>]

FileOf(config, k) ==
  LET table == [i \in DOMAIN config.rows |-> TableRow(i, k, config.rows[i])]
  IN  [knns |-> [i \in DOMAIN table |-> [col \in 0..k |-> table[i][col][1]]],
       dists |-> [i \in DOMAIN table |-> [col \in 0..k |-> table[i][col][2]]],
       params |-> config.params, k |-> k]

Init ==
  /\ given \in Comparisons
  /\ run = 1 /\ cfg = 0
  /\ dirs = [r \in Runs |-> [name \in {} |-> 0]]
  /\ names = {} /\ rows = [name \in {} |-> 0]
  /\ status = "running"

WriteResult ==
  /\ run \in Runs /\ cfg < Len(given.runs[run].configs)
  /\ LET config == given.runs[run].configs[cfg + 1]
         file == FileOf(config, given.runs[run].k)
     IN  dirs' = [dirs EXCEPT ![run] =
           [name \in DOMAIN @ \cup {config.name} |-> IF name = config.name THEN file ELSE @[name]]]
  /\ cfg' = cfg + 1
  /\ UNCHANGED <<given, run, names, rows, status>>

\* A run ends after any of its configs: it may have been killed.
RunEnds ==
  /\ run \in Runs
  /\ run' = run + 1 /\ cfg' = 0
  /\ UNCHANGED <<given, dirs, names, rows, status>>

-----------------------------------------------------------------------------
(* The comparison. *)

Columns(f) == 1..f.k
SameBag(s, t) ==
  \A v \in {s[c] : c \in DOMAIN s} \cup {t[c] : c \in DOMAIN t} :
    Cardinality({c \in DOMAIN s : s[c] = v}) = Cardinality({c \in DOMAIN t : t[c] = v})
Neighbours(f, i) == [c \in Columns(f) |-> f.knns[i][c]]
ValuesOf(s) == {s[c] : c \in DOMAIN s}

\* Ids in common with the ground truth, in its first columns, self included.
recall_at_k(f) ==
  LET cols == {c \in 0..f.k : c < Len(given.gt[0])}
  IN  SumOf([i \in DOMAIN f.knns |-> Cardinality({f.knns[i][c] : c \in cols}
                                       \cap {given.gt[i][c] : c \in DOMAIN given.gt[i]})],
            DOMAIN f.knns)

MaxDiff(a, b) ==
  LET agree == {x \in (DOMAIN a.knns) \X (0..a.k) : a.knns[x[1]][x[2]] = b.knns[x[1]][x[2]]}
      diff(x) == a.dists[x[1]][x[2]] - b.dists[x[1]][x[2]]
  IN  Max({0} \cup {IF diff(x) < 0 THEN -diff(x) ELSE diff(x) : x \in agree})

compare_pair(a, b) ==
  LET P == DOMAIN a.knns
      differ == {i \in P : ~SameBag(Neighbours(a, i), Neighbours(b, i))}
      overlap(i) == IF i \in differ
                    THEN Cardinality(ValuesOf(Neighbours(a, i)) \cap ValuesOf(Neighbours(b, i)))
                    ELSE a.k
      overlaps == [i \in P |-> overlap(i)]
  IN  IF a.k # b.k \/ P # DOMAIN b.knns
      THEN [shape_match |-> FALSE, attrs_match |-> a.params = b.params]
      ELSE [shape_match |-> TRUE,
            attrs_match |-> a.params = b.params,
            knns_exact |-> a.knns = b.knns,
            dists_bitwise |-> a.dists = b.dists,
            rows_diff |-> Cardinality(differ),
            order_only |-> Cardinality({i \in P \ differ : Neighbours(a, i) # Neighbours(b, i)}),
            mean_overlap |-> SumOf(overlaps, P),   \* times k times the points
            max_abs_ddist |-> MaxDiff(a, b),
            recall_a |-> recall_at_k(a), recall_b |-> recall_at_k(b)]

\* Only names in both directories are compared; with none it stops.
ListNames ==
  /\ run = 3
  /\ run' = 4
  /\ names' = DOMAIN dirs[1] \cap DOMAIN dirs[2]
  /\ status' = IF names' = {} THEN "exit 1" ELSE "running"
  /\ UNCHANGED <<given, cfg, dirs, rows>>

ComparePair ==
  /\ run = 4 /\ names # {}
  /\ LET n == CHOOSE x \in names : TRUE
     IN  /\ rows' = [x \in DOMAIN rows \cup {n} |->
                       IF x = n THEN compare_pair(dirs[1][n], dirs[2][n]) ELSE rows[x]]
         /\ names' = names \ {n}
  /\ UNCHANGED <<given, run, cfg, dirs, status>>

\* A row of different shapes has no overlap to print: that raises an exception,
\* and the status is 1 as for any other difference.
Report ==
  /\ run = 4 /\ names = {} /\ status = "running"
  /\ status' = IF \A n \in DOMAIN rows : /\ rows[n].shape_match
                                         /\ rows[n].knns_exact /\ rows[n].attrs_match
                                         /\ rows[n].max_abs_ddist <= max_ddist
               THEN "exit 0" ELSE "exit 1"
  /\ UNCHANGED <<given, run, cfg, dirs, names, rows>>

Finished == status # "running" /\ UNCHANGED vars

Next == WriteResult \/ RunEnds \/ ListNames \/ ComparePair \/ Report \/ Finished

Spec == Init /\ [][Next]_vars
-----------------------------------------------------------------------------
ConfigOf(r, name) ==
  LET c == given.runs[r].configs
  IN  c[Max({j \in DOMAIN c : c[j].name = name})]
FirstIds(r, name, i, most) ==
  LET ngh == ConfigOf(r, name).rows[i]
  IN  [j \in 1..(IF Len(ngh) < most THEN Len(ngh) ELSE most) |-> ngh[j][1]]

\* The comparison speaks of files, its verdict is about graphs: it is 0 exactly
\* if, in every config both directories have, the rows of the two heaps have
\* the same first k neighbours in the same order and at nearly the same
\* distances; and what it counts are rows with other neighbours, rows with the
\* same in another order, and neighbours of the ground truth that were found,
\* whether rows were cut off or filled up.
VerdictIsRight ==
  status # "running" =>
    LET Ids(r, n, i) == FirstIds(r, n, i, given.runs[r].k)
        P(n) == DOMAIN ConfigOf(1, n).rows
        SameShape(n) == given.runs[1].k = given.runs[2].k /\ P(n) = DOMAIN ConfigOf(2, n).rows
        Near(n, i, j) == LET x == ConfigOf(1, n).rows[i][j][2]
                             y == ConfigOf(2, n).rows[i][j][2]
                         IN  x - y <= max_ddist /\ y - x <= max_ddist
        Same(n) == /\ ConfigOf(1, n).params = ConfigOf(2, n).params
                   /\ \A i \in P(n) : /\ Ids(1, n, i) = Ids(2, n, i)
                                      /\ \A j \in DOMAIN Ids(1, n, i) : Near(n, i, j)
        Found(r, n, i) == {i + 1} \cup
              {id + 1 : id \in ValuesOf(FirstIds(r, n, i, Len(given.gt[i]) - 1))}
        Hits(r, n) == SumOf([i \in P(n) |->
              Cardinality(Found(r, n, i) \cap ValuesOf(given.gt[i]))], P(n))
    IN  /\ status = "exit 0" <=> DOMAIN rows # {} /\ \A n \in DOMAIN rows : SameShape(n) /\ Same(n)
        /\ \A n \in {x \in DOMAIN rows : SameShape(x)} :
             LET other == {i \in P(n) : ValuesOf(Ids(1, n, i)) # ValuesOf(Ids(2, n, i))}
             IN  /\ rows[n].rows_diff = Cardinality(other)
                 /\ rows[n].order_only = Cardinality({i \in P(n) \ other : Ids(1, n, i) # Ids(2, n, i)})
                 /\ rows[n].recall_a = Hits(1, n) /\ rows[n].recall_b = Hits(2, n)
=============================================================================
