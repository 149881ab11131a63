---------------------------- MODULE MCTurnQueue ----------------------------
(* Constants of the model-checking runs of TurnQueue: two messages for the  *)
(* turn that runs and one for a turn of its own.                            *)
EXTENDS TurnQueue

CONSTANTS r1, r2, t1
=============================================================================
