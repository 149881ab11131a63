-------------------------- MODULE MCGlobalSidecar ---------------------------
(* Constants of the model-checking runs of GlobalSidecar. *)
EXTENDS GlobalSidecar

CONSTANTS c1, c2, p1, p2, p3, p4

TwoClients == {c1, c2}
FourPorts == {p1, p2, p3, p4}
=============================================================================
