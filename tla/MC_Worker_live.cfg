\* One pooled connection (liveness checking is costly), two clients and two
\* requests, every behaviour of the business handler, and an accept that may fail.
CONSTANTS
    Conn <- MC_OneConn
    MaxConnections = 1
    MaxAccepts = 2
    MaxRequests = 2
    Behaviours <- MC_Behaviours
    HandlerRets <- MC_HandlerRets
    AcceptCanFail = TRUE
SPECIFICATION Spec
PROPERTY RequestsFinish
PROPERTY StopCompletes
CHECK_DEADLOCK FALSE
