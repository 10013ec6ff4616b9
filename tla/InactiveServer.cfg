SPECIFICATION Spec
SYMMETRY Alike
CHECK_DEADLOCK FALSE
CONSTANTS
    Fds = {fd1, fd2}
    Handles = {t1, t2}
    Instants <- MCInstants
    Never = Never
    None = None
    TIMESLOT = 2
    LastInstant = 8
    MaxClients = 3
INVARIANTS TimerInv SilentClosedInTime
PROPERTIES ActiveKept
