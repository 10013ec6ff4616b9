SPECIFICATION Spec
CONSTANTS
    p1 = p1  p2 = p2  w1 = w1  w2 = w2  r1 = r1
    Producers <- MCProducers
    Workers <- MCWorkers
    Requests <- MCRequests
    NULL = NULL
    Nobody = Nobody
    MaxRequests = 1
    MaxAppends = 3
    MaxIntr = 1
CHECK_DEADLOCK FALSE
INVARIANTS QueueBounded
