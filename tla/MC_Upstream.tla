---------------------------- MODULE MC_Upstream ----------------------------
(* Two sub-requests, three connection slots of which m_maxConnections = 2 *)
(* may be open, one retry, and a connection closed after two requests.    *)
EXTENDS Upstream

CONSTANTS a, b, u1, u2, u3

MC_Child == {a, b}
MC_Conn == {u1, u2, u3}
====
