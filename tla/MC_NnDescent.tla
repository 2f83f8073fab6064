---------------------------- MODULE MC_NnDescent ----------------------------
(* NnDescent for TLC: points on a line, with ties among the distances. *)
EXTENDS NnDescent

MCPoint == 1..6
At == <<0, 2, 4, 5, 9, 10>>
Gap(x, y) == IF x < y THEN y - x ELSE x - y
MCDist == [u \in MCPoint |-> [w \in MCPoint |-> Gap(At[u], At[w])]]
\* The 1-bit codes are a coarse and partly wrong view of the distances.
Code == <<0, 1, 1, 3, 2, 3>>
MCHam == [u \in MCPoint |-> [w \in MCPoint |-> Gap(Code[u], Code[w])]]

\* All neighbours are expanded and what they lead to is filtered; or only the
\* nearest is, and nothing is filtered.
MCSettings == { [expand_m |-> 0, panel |-> TRUE], [expand_m |-> 1, panel |-> FALSE] }

\* A poor graph, a ring, and a graph with rows that are not full.
MCTables == { << {5, 4}, {1, 6}, {2, 5}, {2, 3}, {3, 4}, {1, 4} >>,
              << {2, 3}, {3, 4}, {4, 5}, {5, 6}, {6, 1}, {1, 2} >>,
              << {4}, {}, {4, 6}, {1, 3}, {2}, {5} >> }
=============================================================================
