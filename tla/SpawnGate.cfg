CONSTANTS
    c1 = c1
    c2 = c2
    c3 = c3
    u1 = u1
    u2 = u2
    Creator <- Creators
    Updater <- Updaters
SPECIFICATION FairSpec
INVARIANTS
    QuiesceExcludesCreation
    GateIsNotStuck
PROPERTY UpdateGetsTheGate
CHECK_DEADLOCK FALSE
