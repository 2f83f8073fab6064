---------------------------- MODULE MC_Portfolio ----------------------------
(***************************************************************************)
(* Portfolio for TLC: command lines in current and legacy spelling, one    *)
(* with a leaf_k out of range, one without the quantizer, one with bits it *)
(* has not, one without output; lines that differ in what they leave to    *)
(* the command line, two of them under one name, some with a number the    *)
(* program refuses, and one with -mst_deg 0, which it does not.            *)
(***************************************************************************)
EXTENDS Portfolio

Plain == [comment |-> FALSE, panel |-> "", hamming |-> "", mst_deg |-> "",
          leaf_k |-> "", k_build |-> "", nnd |-> "", name |-> ""]
Base == [panel |-> "-build_rsq1_panel", hamming |-> "", mst_deg |-> "",
         leaf_k |-> "", k_build |-> "", nnd |-> "", name |-> "",
         rsq |-> "-rsq", bits_flag |-> "-rsq_bits", bits |-> "8", output |-> "out"]
Legacy == [Base EXCEPT !.panel = "-build_tq1_panel", !.rsq = "-turboquant",
                       !.bits_flag = "-tq_bits"]

MCBases ==
  {Base, [Base EXCEPT !.leaf_k = "20"], [Base EXCEPT !.mst_deg = "-2"],
   [Legacy EXCEPT !.nnd = "1", !.k_build = "18"],
   [Base EXCEPT !.rsq = ""], [Legacy EXCEPT !.bits = "4"],
   [Base EXCEPT !.output = ""]}
MCSettings ==
  {[Plain EXCEPT !.comment = TRUE],
   [Plain EXCEPT !.leaf_k = "10", !.name = "a"],
   [Plain EXCEPT !.hamming = "-hamming_leaf", !.leaf_k = "3", !.nnd = "1",
                 !.k_build = "20", !.name = "b"],
   [Plain EXCEPT !.panel = "-build_tq1_panel", !.mst_deg = "15", !.nnd = "2",
                 !.k_build = "5", !.name = "a"],
   [Plain EXCEPT !.hamming = "-hamming_assign", !.leaf_k = "0"],
   [Plain EXCEPT !.mst_deg = "3"], [Plain EXCEPT !.mst_deg = "0", !.name = "b"],
   [Plain EXCEPT !.nnd = "-1"]}

\* The theorems about the portfolio's results are about such command lines.
ASSUME MCInputs == \A b \in MCBases : AsksForPanel(b)

\* A command line without -build_rsq1_panel.
NoPanelBases == {[Base EXCEPT !.panel = ""]}
=============================================================================
