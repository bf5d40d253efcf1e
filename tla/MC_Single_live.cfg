\* Two connections on one worker thread, the second making two requests, and
\* a thread without a CoCycle that locks the mutex twice: the hand-off through
\* m_waitSingles, the refinement of MutexSpec and the waiter's progress.
CONSTANTS
  Coro <- MC_Coro2
  Thread <- MC_Thread
  ThreadOf <- MC_ThreadOf2
  Mutex = {m1}
  MaxRounds <- MC_TwoRounds2
  MaxForeign = 2
  MaxRetries = 1
SPECIFICATION Spec
INVARIANT TypeOK
PROPERTY SingleResumesOnlyBlocked
PROPERTY MutexRefinement
PROPERTY WaiterAcquires
CHECK_DEADLOCK FALSE
