-------------------------- MODULE MCSidecarEnsure ---------------------------
(* Constants of the model-checking runs of SidecarEnsure. *)
EXTENDS SidecarEnsure, TLC

CONSTANTS s1, s2, t1, a1, a2, r1, r2, c1

OneSession == {s1}
TwoSessions == {s1, s2}
OneTab == {t1}
NoTab == {}
NoAgent == {}
TwoAgents == {a1, a2}
NoWork == {}
OneRuntime == {r1}
TwoRuntimes == {r1, r2}
OneClient == {c1}

\* One client, which speaks for both agents.
BothAgents == c1 :> {a1, a2}

\* One client, which speaks for a tab.
TabOnly == c1 :> {t1}
=============================================================================
