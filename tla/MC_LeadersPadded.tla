-------------------------- MODULE MC_LeadersPadded --------------------------
(***************************************************************************)
(* AssignToLeadersConsecutiveTopK for TLC, on 31 leaders in panels of two: *)
(* sixteen panels, so that the padded one is the eighth of a turn that     *)
(* comes when the lists are full.                                          *)
(***************************************************************************)
EXTENDS LeaderTopK

Scores == {[l \in 0..30 |-> IF l = best THEN -2 ELSE l % 2] : best \in 0..30}
MCCalls == {[mode |-> "consecutive", queries |-> [q \in 0..2 |-> q],
             score |-> [pt \in 0..2 |-> [l \in 0..30 |-> f[(l + pt * 5) % 31]]],
             norm |-> [pt \in 0..2 |-> 1]] : f \in Scores}
=============================================================================
