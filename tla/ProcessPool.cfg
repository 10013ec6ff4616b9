SPECIFICATION FairSpec
CONSTANTS
    c1 = c1  c2 = c2
    Clients <- TwoClients
    N = 2
    MaxCrashes = 2
    MaxTerms = 1
CHECK_DEADLOCK FALSE
INVARIANTS PoolInv
PROPERTIES EndsWithChildren TermEndsAll ArrivalServed CgiReaped
