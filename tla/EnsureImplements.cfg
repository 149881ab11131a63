CONSTANTS
    s1 = s1
    s2 = s2
    t1 = t1
    a1 = a1
    a2 = a2
    r1 = r1
    r2 = r2
    c1 = c1
    None = None
    Monitor = Monitor
    Session <- TwoSessions
    Tab <- OneTab
    Agent <- NoAgent
    Work <- NoWork
    Runtime <- TwoRuntimes
    Client <- OneClient
    Acts <- TabOnly
    MaxInstance = 2
    MaxAttempts = 1
    MaxFailures = 0
SPECIFICATION EnsureSpec
PROPERTIES
    ImplementsManager
CHECK_DEADLOCK FALSE
