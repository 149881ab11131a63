-------------------------- MODULE MCMiniAppWorkers --------------------------
(* Constants of the model-checking runs of MiniAppWorkers: windows of one  *)
(* app and calls from them.                                                 *)
EXTENDS MiniAppWorkers

CONSTANTS m1, m2, m3, c1, c2
=============================================================================
