SPECIFICATION MCSpec
CONSTANTS
    c1 = c1  c2 = c2  c3 = c3  w1 = w1  w2 = w2
    Clients <- ThreeClients
    Workers <- TwoWorkers
    FirstFd = 1
    OpenMax = 4
    MAX_FD = 3
    MaxRequests = 1
    REQUEST = 2
    READ_BUFFER_SIZE = 3
    MaxBytes = 3
    MaxAgain = 1
    None = None
CHECK_DEADLOCK FALSE
INVARIANTS ReadIsQueuedOrClosed
