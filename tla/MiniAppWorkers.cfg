SPECIFICATION FairSpec
CONSTANTS
    m1 = m1  m2 = m2  m3 = m3  c1 = c1  c2 = c2
    Mount = {m1, m2}
    Call = {c1}
    Cap = 1
    None = None
CHECK_DEADLOCK FALSE
INVARIANTS PoolInv OpenHasItsWorker
PROPERTIES CallsEnd ThreadsEndWithTheirWindow
