---------------------------- MODULE MCOAuthFlow -----------------------------
(* Constants of the model-checking runs of OAuthFlow: attempts of both      *)
(* kinds, of which any may come first, and revocations.                     *)
EXTENDS OAuthFlow

CONSTANTS a1, a2, a3, r1, r2
=============================================================================
