SPECIFICATION FairSpec
CONSTANTS
    Lines = 2
    RTT_MAXNREXMT = 1
    RTT_RXTMIN = 2
    RTT_RXTMAX = 60
    FirstRto = 3
    Estimates = {1, 61}
    QSIZE = 3
    SockBuf = 2
    MaxArrivals = 4
    Datagram <- MCDatagram
    NoDg = NoDg
CHECK_DEADLOCK FALSE
INVARIANTS CallInv
PROPERTIES AnswerOfThisCall RingIsFifo CallEnds DatagramsServed
