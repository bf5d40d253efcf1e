\* PickedIsCurrent: three connections on two worker threads and a foreign thread, one mutex.
CONSTANTS
  Coro <- MC_Coro
  Thread <- MC_Thread
  ThreadOf <- MC_ThreadOf
  Mutex = {m1}
  MaxRounds <- MC_MaxRounds
  MaxForeign = 1
  MaxRetries = 1
SPECIFICATION Spec
PROPERTY PickedIsCurrent
CHECK_DEADLOCK FALSE
