\* The same request, now with epoll_ctl able to fail (modify_connection
\* returning CO_ERROR); the one question is whether handler code then runs
\* for a child after upstream_finalize.
CONSTANTS
  a = a
  b = b
  u1 = u1
  u2 = u2
  u3 = u3
  Child <- MC_Child
  Conn <- MC_Conn
  MaxConnections = 2
  RetryMaxnum = 1
  MaxRequest = 2
  EpollCanFail = TRUE
SPECIFICATION Spec
INVARIANT NoStepAfterFinalize
CHECK_DEADLOCK FALSE
