\* As MC_Worker.cfg, checking the pool when set_nonblock fails on accept.
CONSTANTS
    Conn <- MC_Conn
    MaxConnections = 2
    MaxAccepts = 2
    MaxRequests = 2
    Behaviours <- MC_Behaviours
    HandlerRets <- MC_HandlerRets
    AcceptCanFail = TRUE
SPECIFICATION Spec
INVARIANT FreeListSound
CHECK_DEADLOCK FALSE
