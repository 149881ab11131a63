-------------------------- MODULE MCSidecarManager --------------------------
(* Constants of the model-checking runs of SidecarManager. *)
EXTENDS SidecarManager, TLC

CONSTANTS s1, s2, t1, a1, r1, r2

Sessions == {s1, s2}
OneTab == {t1}
OneAgent == {a1}
NoWork == {}
TwoRuntimes == {r1, r2}

SwapSessionsRuntimes ==
    Permutations({s1, s2}) \cup Permutations({r1, r2})
=============================================================================
