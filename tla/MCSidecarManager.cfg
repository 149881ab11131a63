CONSTANTS
    s1 = s1
    s2 = s2
    t1 = t1
    a1 = a1
    r1 = r1
    r2 = r2
    None = None
    Session <- Sessions
    Tab <- OneTab
    Agent <- OneAgent
    Work <- NoWork
    Runtime <- TwoRuntimes
    MaxInstance = 3
SPECIFICATION Spec
SYMMETRY SwapSessionsRuntimes
INVARIANTS
    NoOwnerlessSidecar
    GenerationNamesInstance
    StaleStopIsHarmless
    TabNamesOneSession
    TerminalExactlyWhenUnowned
PROPERTIES
    NoSilentRemoval
CHECK_DEADLOCK FALSE
