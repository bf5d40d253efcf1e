\* shut_down racing the start-up of two worker threads.
CONSTANTS
  W = 2
  UseCurChoices = {0}
SPECIFICATION Spec

PROPERTY ShutdownCompletes
\* The process ends after shut_down; with useCurThreadServer 1 the calling
\* thread stays in the last worker's loop.
CHECK_DEADLOCK FALSE
