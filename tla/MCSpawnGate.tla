---------------------------- MODULE MCSpawnGate ----------------------------
(* Constants of the model-checking runs of SpawnGate. *)
EXTENDS SpawnGate

CONSTANTS c1, c2, c3, u1, u2

Creators == {c1, c2, c3}
Updaters == {u1, u2}
=============================================================================
