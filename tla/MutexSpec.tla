----------------------------- MODULE MutexSpec -----------------------------
(***************************************************************************)
(* What a process-wide mutex promises its callers, with no hooks, queues   *)
(* or timers: a caller asks for a mutex, is granted it only while nobody   *)
(* owns it, and gives it back.  The hooked pthread_mutex_lock / unlock of  *)
(* base/co_hook.cpp together with CoSingle (core/co_single.cpp) is shown   *)
(* to implement this specification in module Single.                       *)
(***************************************************************************)
CONSTANTS Proc,     \* callers: coroutines of the worker threads, foreign threads
          Mutex,    \* the mutex addresses
          NoOwner   \* the owner of a free mutex

VARIABLES owner,    \* owner[m]: who holds mutex m
          waiting   \* pairs <<p, m>>: p is inside pthread_mutex_lock(m)

vars == <<owner, waiting>>

Busy(p) == (\E m \in Mutex : owner[m] = p) \/ (\E m \in Mutex : <<p, m>> \in waiting)

Init == /\ owner = [m \in Mutex |-> NoOwner]
        /\ waiting = {}

Request(p, m) == /\ ~Busy(p)
                 /\ waiting' = waiting \cup {<<p, m>>}
                 /\ UNCHANGED owner

Acquire(p, m) == /\ <<p, m>> \in waiting
                 /\ owner[m] = NoOwner
                 /\ owner' = [owner EXCEPT ![m] = p]
                 /\ waiting' = waiting \ {<<p, m>>}

Release(p, m) == /\ owner[m] = p
                 /\ owner' = [owner EXCEPT ![m] = NoOwner]
                 /\ UNCHANGED waiting

Next == \E p \in Proc, m \in Mutex : Request(p, m) \/ Acquire(p, m) \/ Release(p, m)

(* A free mutex somebody waits for does not stay free: some waiter gets   *)
(* it.  Holders give their mutex back.  Nothing promises which waiter is  *)
(* served, so a caller may be overtaken.                                  *)
Spec == /\ Init /\ [][Next]_vars
        /\ WF_vars(\E p \in Proc, m \in Mutex : Acquire(p, m))
        /\ \A p \in Proc : WF_vars(\E m \in Mutex : Release(p, m))
=============================================================================
