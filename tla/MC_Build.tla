------------------------------ MODULE MC_Build ------------------------------
(***************************************************************************)
(* The two stages of build_topk (engine/algorithms/PipNN/pipnn.h) that     *)
(* work on the whole set of points: the cluster trees, and the passes of   *)
(* nn-descent over the table their leaves fill.  The second takes any      *)
(* table, so a behaviour is one of the two, picked at the start; the other *)
(* stays as it is before its first step.                                   *)
(*                                                                         *)
(* The trees: four points and a fanout of two at the first level; four     *)
(* points that go to one leader each, so that each may have a bucket of    *)
(* its own; and two rounds over three points with a fanout of two at the   *)
(* second level, where the margin gate applies.  The passes: those of      *)
(* MC_NnDescent.                                                           *)
(***************************************************************************)
EXTENDS MC_NnDescent, ClusterTree

VARIABLE part

MCSchemes ==
  { [n_points |-> 4, fanouts |-> <<2, 1>>, margin |-> FALSE, rounds |-> 1],
    [n_points |-> 4, fanouts |-> <<1>>, margin |-> FALSE, rounds |-> 1],
    [n_points |-> 3, fanouts |-> <<1, 2>>, margin |-> TRUE, rounds |-> 2] }

buildVars == <<part, treeVars, vars>>

\* The stage that is not picked has one state.
BuildInit ==
  /\ part \in {"trees", "passes"}
  /\ TreeInit /\ Init
  /\ part = "trees" => /\ setting = CHOOSE s \in Settings : TRUE
                       /\ row = CHOOSE tb \in Tables : TRUE
  /\ part = "passes" => scheme = CHOOSE s \in Schemes : TRUE

TreeStep == part = "trees" /\ TreeNext /\ UNCHANGED <<part, vars>>

PassStep == part = "passes" /\ Next /\ UNCHANGED <<part, treeVars>>

BuildNext == TreeStep \/ PassStep

BuildSpec == BuildInit /\ [][BuildNext]_buildVars

\* No more than each of them assumes: something that can go on does.
FairBuildSpec == BuildSpec /\ WF_buildVars(BuildNext)
-----------------------------------------------------------------------------
(* multiple_clustertrees returns.                                          *)
TreesEnd == part = "trees" => RoundsEnd

(* The loop of nn_descent_pass ends and the build goes on to finalize().   *)
DescentEnds == part = "passes" => PassesEnd
=============================================================================
