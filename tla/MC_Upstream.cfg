\* Two sub-requests, at most two open upstream connections out of three
\* pool slots, one retry, m_connectionMaxRequest = 2, epoll_ctl succeeding.
CONSTANTS
  a = a
  b = b
  u1 = u1
  u2 = u2
  u3 = u3
  Child <- MC_Child
  Conn <- MC_Conn
  MaxConnections = 2
  RetryMaxnum = 1
  MaxRequest = 2
  EpollCanFail = FALSE
SPECIFICATION Spec
INVARIANT TypeOK
INVARIANT ParentOutlivesChildren
INVARIANT ParentResumedOnce
INVARIANT ConnectionsAccounted
INVARIANT DelayTargetsLive
PROPERTY ParentResumed
\* Once the request is over the worker blocks in epoll_wait: a state with
\* nothing left to do is where the loop really stops.
CHECK_DEADLOCK FALSE
