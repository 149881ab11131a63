-------------------------- MODULE OAuthCredential ---------------------------
(***************************************************************************)
(* What the stored credential of one MCP server promises to its readers    *)
(* (server/mcp-oauth/state-store.ts): it is granted, revoked, or replaced  *)
(* by the successor of itself, and every change draws a new revision.  An  *)
(* answer that was asked for with another credential never gets in.        *)
(***************************************************************************)
EXTENDS Naturals

CONSTANT None   \* no token

VARIABLES
    token,      \* the token: its grant, and how often it was refreshed since
    revision    \* tokenRevision

Token == [grant : Nat, use : Nat]

CredentialTypeOK ==
    /\ token \in Token \cup {None}
    /\ revision \in Nat

CredentialInit ==
    /\ token \in {None, [grant |-> 0, use |-> 0]}
    /\ revision = 0

\* setServerToken; a grant is named by the revision that stored it.
Grant ==
    /\ revision' = revision + 1
    /\ token' = [grant |-> revision', use |-> 0]

\* setServerTokenIfRevision, when the revision is the expected one.
Rotate ==
    /\ token # None
    /\ revision' = revision + 1
    /\ token' = [token EXCEPT !.use = @ + 1]

\* clearServerToken: the revision stays behind as a tombstone.
Revoke ==
    /\ revision' = revision + 1
    /\ token' = None

CredentialSpec ==
    CredentialInit /\ [][Grant \/ Rotate \/ Revoke]_<<token, revision>>
=============================================================================
