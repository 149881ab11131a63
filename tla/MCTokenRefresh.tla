--------------------------- MODULE MCTokenRefresh ---------------------------
(* Constants of the model-checking run of TokenRefresh. *)
EXTENDS TokenRefresh

CONSTANTS g, s1, s2
=============================================================================
