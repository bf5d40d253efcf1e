------------------------------ MODULE MC_Worker ------------------------------
(* Worker with two pooled connections, both within the server limit, two  *)
(* clients and two requests: enough for a keepalive reuse, a stale epoll  *)
(* tag, a late resume_async and the shutdown sweep.                       *)
EXTENDS Worker

MC_Conn == 1..2

\* One connection reused by two clients, for the liveness run.
MC_OneConn == 1..1
MC_Behaviours == {"return", "sleep", "async", "third"}
MC_HandlerRets == {"OK", "ERROR"}
=============================================================================
