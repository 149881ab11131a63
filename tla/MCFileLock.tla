----------------------------- MODULE MCFileLock -----------------------------
(* One call in each of three processes: one that may die with the lock, and *)
(* two that may both find it stale.                                         *)
EXTENDS FileLock, TLC

CONSTANTS p, q, r, c1, c2, c3

OfValue == (c1 :> p) @@ (c2 :> q) @@ (c3 :> r)
=============================================================================
