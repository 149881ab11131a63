CONSTANTS
    s1 = s1
    s2 = s2
    t1 = t1
    a1 = a1
    a2 = a2
    r1 = r1
    r2 = r2
    c1 = c1
    None = None
    Monitor = Monitor
    Session <- OneSession
    Tab <- NoTab
    Agent <- TwoAgents
    Work <- NoWork
    Runtime <- OneRuntime
    Client <- OneClient
    Acts <- BothAgents
    MaxInstance = 2
    MaxAttempts = 2
    MaxFailures = 2
SPECIFICATION FairEnsureSpec
INVARIANT EnsureInv
PROPERTIES
    ImplementsManager
    EnsureReturns
    QueuedIsRestarted
    StartupIsSpared
CHECK_DEADLOCK FALSE
