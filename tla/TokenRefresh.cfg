SPECIFICATION FairSpec
CONSTANTS
    g = g  s1 = s1  s2 = s2
    Session = {s1}
    Global = g
    None = None
    MaxRevision = 2
    MaxFaults = 1
CHECK_DEADLOCK FALSE
INVARIANTS SentTokenIsCurrent StoredTokenWorks
PROPERTIES ImplementsCredential DueIsRefreshed SessionsAreTold
