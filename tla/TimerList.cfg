SPECIFICATION ListFairSpec
CONSTANTS
    t1 = t1  t2 = t2  t3 = t3
    Timers <- ThreeTimers
    NULL = NULL
    MaxTime = 2
CHECK_DEADLOCK FALSE
INVARIANTS ListInv
PROPERTIES ImplementsTimerQueue LoopsEnd
