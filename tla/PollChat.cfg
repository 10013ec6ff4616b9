SPECIFICATION Spec
CHECK_DEADLOCK FALSE
CONSTANTS
    USER_LIMIT = 2
    NFds = 3
    MaxClients = 4
    NULL = NULL
INVARIANT LeaverIsClosed
