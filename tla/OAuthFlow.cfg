SPECIFICATION FairSpec
CONSTANTS
    a1 = a1  a2 = a2  a3 = a3  r1 = r1  r2 = r2
    Attempt = {a1, a2, a3}
    Registering = {a1}
    Revoker = {r1}
    MaxRotations = 1
    None = None
CHECK_DEADLOCK FALSE
INVARIANTS FlowInv ServersAreClosed
PROPERTIES RevocationIsFinal LaterAttemptWins EverybodyEnds
