----------------------------- MODULE MCBenchTool -----------------------------
(* BenchTool for TLC: two clicks, enough for a reset with a snapshot behind   *)
(* it, and queues of two, which the auto refresh and a click fill.            *)
EXTENDS BenchTool
==============================================================================
