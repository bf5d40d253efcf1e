------------------------------ MODULE MC_Single ------------------------------
EXTENDS Single

MC_Coro == 1..3
MC_Thread == 1..2
\* connections 1 and 2 live on worker thread 1, connection 3 on thread 2
MC_ThreadOf == [c \in MC_Coro |-> IF c = 3 THEN 2 ELSE 1]
\* connection 3 makes two requests, so its FIFO entries can outlive a version
MC_MaxRounds == [c \in MC_Coro |-> IF c = 3 THEN 2 ELSE 1]
\* for the liveness run: two connections on the same worker thread, the second
\* making two requests
MC_Coro2 == 1..2
MC_ThreadOf2 == [c \in MC_Coro2 |-> 1]
MC_TwoRounds2 == [c \in MC_Coro2 |-> IF c = 2 THEN 2 ELSE 1]
====
