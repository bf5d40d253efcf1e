\* Three worker threads, run_server called with useCurThreadServer 0 and 1.
CONSTANTS
  W = 3
  UseCurChoices = {0, 1}
SPECIFICATION Spec
INVARIANT TypeOK
PROPERTY ShutdownAfterStartCompletes
\* The process ends after shut_down; with useCurThreadServer 1 the calling
\* thread stays in the last worker's loop.
CHECK_DEADLOCK FALSE
