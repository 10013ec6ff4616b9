SPECIFICATION MCSpec
CONSTANTS
    NConns = 3
    N = 2
    MAXNCLI = 2
    MsgBytes = 2
    MaxFails = 1
    NLines = 4
    MAXLINE = 2
    Cap = 1
    OutCap = 1
CHECK_DEADLOCK FALSE
INVARIANTS ServerInv NothingLost
PROPERTIES AskedIsAnswered OrphansLeave ZombiesReaped InputEndIsEnd DeathNoticed
