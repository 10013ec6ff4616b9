SPECIFICATION FairSpec
CHECK_DEADLOCK FALSE
CONSTANTS
    Pids = {p1, p2}
    NULL = NULL
    USER_LIMIT = 2
    MaxConns = 3
    MaxMsgs = 1
INVARIANTS TableInv
PROPERTIES LeaversReaped QuietTermEnds
