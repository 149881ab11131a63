SPECIFICATION FairSpec
CONSTANTS
    p = p  q = q  r = r
    c1 = c1  c2 = c2  c3 = c3
    Caller = {c1, c2, c3}
    Process = {p, q, r}
    Of <- OfValue
    Unverifiable = {r}
    PollLimit = 1
    None = None
CHECK_DEADLOCK FALSE
INVARIANT MutualExclusion
PROPERTIES LiveOwnerKeepsItsLock EveryCallEnds
