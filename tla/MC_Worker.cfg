\* Two pooled connections, a listen limit of two, three clients, two requests,
\* every behaviour of the business handler (a third-party call included);
\* every accept succeeds (the failing
\* accept breaks FreeListSound: MC_Worker_acceptfail.cfg).
CONSTANTS
    Conn <- MC_Conn
    MaxConnections = 2
    MaxAccepts = 3
    MaxRequests = 2
    Behaviours <- MC_Behaviours
    HandlerRets <- MC_HandlerRets
    AcceptCanFail = FALSE
SPECIFICATION Spec
INVARIANT TypeOK
INVARIANT TimerConsistent
INVARIANT NoLostWakeup
INVARIANT DispatchTargetsYield
INVARIANT ResumeNeverStranded
INVARIANT FreeListSound
INVARIANT ShadowIdle
CHECK_DEADLOCK FALSE
