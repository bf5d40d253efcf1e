------------------------------ MODULE Upstream ------------------------------
(***************************************************************************)
(* Sub-requests of one client request on one worker thread               *)
(* (upstream/co_upstream.cpp, upstream/co_callback_upstream.cpp and the   *)
(* request branch of CoCallbackEvent::event_exception).  The handler of   *)
(* the parent request calls add_upstream once per sub-request: each takes *)
(* an upstream connection (a kept-alive one from m_reuseConnections, else *)
(* a new one while m_curConnectionSize < m_maxConnections), registers the *)
(* child in m_upstreamRequests, increments m_count and queues the         *)
(* connection in m_delayConnections.  run_upstreams then swaps the parent *)
(* out.  Each child runs on its connection's coroutine: upstream_init     *)
(* (connect unless the connection is kept alive), upstream_write,         *)
(* upstream_read, upstream_finalize; every hooked I/O call that would     *)
(* block swaps out with a timer armed.  A failed child is retried on a    *)
(* new connection up to m_retryMaxnum times unless its parent is dying.   *)
(* The last child to finish queues the parent (m_count back to 1).  When  *)
(* the parent's own timer fires or its client hangs up, event_exception   *)
(* marks every child's connection dying and parent-dying, queues them and *)
(* keeps the parent suspended until they are gone.                        *)
(*                                                                         *)
(* Everything here runs on one thread: an action is the code between two  *)
(* swaps.  The backend choice is module WRR; here get_backend always has  *)
(* a backend.                                                              *)
(***************************************************************************)
EXTENDS Naturals, Sequences, FiniteSets, SequencesExt

CONSTANTS Child,          \* the sub-requests the handler adds
          Conn,           \* the CoConnections the pool can give this upstream
          MaxConnections, \* CoConfUpstream::m_maxConnections
          RetryMaxnum,    \* m_retryMaxnum
          MaxRequest,     \* m_connectionMaxRequest (0: no limit)
          EpollCanFail    \* whether an epoll_ctl of modify_connection may fail

Parent == "parent"        \* the parent request's client connection, as a queue target
NoConn == "noconn"        \* retry_upstream found no connection: m_connection = NULL
Waits == {"connect", "write", "read"}   \* where a child is swapped out in a hook

VARIABLES
  ppc,      \* the parent: "add" (handler calling add_upstream), "wait" (in
            \* run_upstreams' yield), "done" (request finalized)
  pdying,   \* m_flagDying of the parent's connection
  ptimer,   \* request_process' timer on the parent's read event is armed
  peof,     \* the client's hang-up (EPOLLRDHUP) was delivered
  pver,     \* m_version of the parent's connection
  count,    \* the parent request's m_count
  subs,     \* the keys of its m_upstreamRequests
  presumes, \* how many times the parent was swapped back in (history)
  cpc,      \* cpc[ch]: "none", "failed" (add_upstream returned CO_ERROR),
            \* "queued" (coroutine READY, not yet run), a wait, "fin"
  cconn,    \* cconn[ch]: the child's m_connection
  retries,  \* retries[ch]: m_retryTimes
  conns,    \* conns[c]: the upstream connection's state, a record
  reuse,    \* m_reuseConnections of the one backend (push_front / pop_front)
  curSize,  \* m_curConnectionSize
  delay,    \* m_delayConnections: <<target, m_version>> pairs
  stray     \* a handler went on with a request that was already finalized

vars == <<ppc, pdying, ptimer, peof, pver, count, subs, presumes, cpc, cconn,
          retries, conns, reuse, curSize, delay, stray>>

(* An upstream connection: st is "free" (in the pool), "busy" (m_request   *)
(* set) or "idle" (in m_reuseConnections); dying is m_flagDying (set with  *)
(* m_flagTimedOut / m_flagPendingEof); pdying is m_flagParentDying; alive  *)
(* is a connected socket whose read event stays in epoll (EPOLLRDHUP), the *)
(* test upstream_init makes; ka is the keepalive timer; reqs is           *)
(* m_requestCount.                                                         *)
ConnState == [st : {"free", "busy", "idle"}, ver : Nat, dying : BOOLEAN,
              pdying : BOOLEAN, alive : BOOLEAN, ka : BOOLEAN, reqs : Nat]

\* mutant: reset() without the m_version increment
PoolReset_unversioned(r) == [r EXCEPT !.st = "free", !.dying = FALSE, !.pdying = FALSE,
                                      !.alive = FALSE, !.ka = FALSE, !.reqs = 0]

\* CoConnection::reset() from CoConnectionPool::free_connection, and
\* reset(true) for a kept-alive connection: both bump m_version and clear
\* the flags; only the first drops the socket and m_requestCount.
PoolReset(r) == [r EXCEPT !.st = "free", !.ver = @ + 1, !.dying = FALSE,
                          !.pdying = FALSE, !.alive = FALSE, !.ka = FALSE, !.reqs = 0]
KeepReset(r) == [r EXCEPT !.st = "idle", !.ver = @ + 1, !.dying = FALSE,
                          !.pdying = FALSE, !.alive = TRUE, !.ka = TRUE]

Init == /\ ppc = "add" /\ pdying = FALSE /\ ptimer = TRUE /\ peof = FALSE
        /\ pver = 0 /\ count = 1 /\ subs = {} /\ presumes = 0
        /\ cpc = [ch \in Child |-> "none"]
        /\ cconn = [ch \in Child |-> NoConn]
        /\ retries = [ch \in Child |-> 0]
        \* connections kept alive by earlier requests, each having served one
        /\ \E idle \in {S \in SUBSET Conn : Cardinality(S) <= MaxConnections} :
             /\ reuse \in SetToSeqs(idle)
             /\ curSize = Cardinality(idle)
             /\ conns = [c \in Conn |->
                          IF c \in idle
                            THEN [st |-> "idle", ver |-> 1, dying |-> FALSE, pdying |-> FALSE,
                                  alive |-> TRUE, ka |-> TRUE, reqs |-> 1]
                            ELSE [st |-> "free", ver |-> 0, dying |-> FALSE, pdying |-> FALSE,
                                  alive |-> FALSE, ka |-> FALSE, reqs |-> 0]]
        /\ delay = <<>> /\ stray = FALSE

----------------------------------------------------------------------------
(* CoUpstream: taking and giving back connections.  The operators take    *)
(* the state they work on and return the new one, because a retry gives   *)
(* one back and takes another in the same step.                           *)

\* CoUpstream::get_connection: the head of the reuse list; else, below
\* m_maxConnections, a connection from the pool (any free one).  The empty
\* set is the NULL return.
Picks(cs, ru, size) ==
  IF ru # <<>> THEN {Head(ru)}
  ELSE IF size < MaxConnections THEN {c \in Conn : cs[c].st = "free"}
  ELSE {}

\* ... and the connection taken; CoRequest::init or reset_connection then
\* attaches the request and increments m_requestCount.
Take(cs, ru, size, c) ==
  [conns |-> [cs EXCEPT ![c].st = "busy", ![c].reqs = @ + 1],
   reuse |-> IF ru # <<>> THEN Tail(ru) ELSE ru,
   size  |-> IF ru # <<>> THEN size ELSE size + 1]

\* mutant: the CO_EXCEPTION branch without the scan of the reuse list
free_connection_unlisted(cs, ru, size, c, ret) ==
  LET close == ret # "ok" \/ (MaxRequest # 0 /\ cs[c].reqs >= MaxRequest)
  IN  IF close
        THEN [conns |-> [cs EXCEPT ![c] = PoolReset(@)], reuse |-> ru, size |-> size - 1]
        ELSE [conns |-> [cs EXCEPT ![c] = KeepReset(@)], reuse |-> <<c>> \o ru, size |-> size]

\* the reverse scan of free_connection's CO_EXCEPTION branch: the last
\* position holding c
LastAt(ru, c) == CHOOSE i \in DOMAIN ru : ru[i] = c /\ \A j \in DOMAIN ru : ru[j] = c => j <= i

\* CoUpstream::free_connection(connection, retCode), ret in {"ok", "err",
\* "exc"}: a connection in the reuse list hit by an exception is taken out
\* of it; any failure (comm_failed) or m_connectionMaxRequest closes it;
\* otherwise reset(true), keepalive timer, push_front.
free_connection(cs, ru, size, c, ret) ==
  LET listed == ret = "exc" /\ c \in ToSet(ru)
      close  == ret # "ok" \/ (MaxRequest # 0 /\ cs[c].reqs >= MaxRequest)
  IN  IF close
        THEN [conns |-> [cs EXCEPT ![c] = PoolReset(@)],
              reuse |-> IF listed THEN RemoveAt(ru, LastAt(ru, c)) ELSE ru,
              size  |-> size - 1]
        ELSE [conns |-> [cs EXCEPT ![c] = KeepReset(@)],
              reuse |-> <<c>> \o ru,
              size  |-> size]

----------------------------------------------------------------------------
(* The parent *)

\* swapped back in run_upstreams' yield: the handler returns, request_write
\* and request_finalize free the client connection (m_version + 1) and its
\* timer.  d is m_delayConnections after the step's own pops.
ParentResume(d) == /\ presumes' = presumes + 1
                   /\ ppc' = "done" /\ pver' = pver + 1 /\ ptimer' = FALSE
                   /\ delay' = d
                   /\ UNCHANGED <<count, subs, cpc, cconn, retries, conns, reuse, curSize, stray>>

\* event_exception on the parent's connection while it has children: mark
\* each child's current connection dying and parent-dying and queue it, in
\* the unordered_map's order; the parent stays swapped out (CO_EXCEPTION).
Cascade(d) ==
  LET cs == {cconn[ch] : ch \in subs}
  IN  /\ conns' = [c \in Conn |-> IF c \in cs THEN [conns[c] EXCEPT !.dying = TRUE, !.pdying = TRUE]
                                              ELSE conns[c]]
      /\ \E order \in SetToSeqs(cs) :
           delay' = d \o [i \in DOMAIN order |-> <<order[i], conns[order[i]].ver>>]
      /\ UNCHANGED <<ppc, pver, count, subs, presumes, cpc, cconn, retries, reuse, curSize, stray>>

\* CoCallbackEvent::event_exception for the parent, after m_flagDying = 1:
\* children left -> cascade; none left -> CO_OK, so func_dispatcher swaps
\* the parent in.  pt is the parent's timer after the step.
event_exception_parent(d, pt) ==
  IF subs # {} THEN Cascade(d) /\ ptimer' = pt ELSE ParentResume(d)

\* add_upstream(ch): get_upstream_connection, then the child request is
\* registered in the parent and its connection queued; with no connection
\* it returns CO_ERROR and the child never exists.
AddUpstream(ch) ==
  /\ ppc = "add" /\ cpc[ch] = "none"
  /\ \/ \E n \in Picks(conns, reuse, curSize) :
          LET g == Take(conns, reuse, curSize, n)
          IN  /\ conns' = g.conns /\ reuse' = g.reuse /\ curSize' = g.size
              /\ cconn' = [cconn EXCEPT ![ch] = n]
              /\ cpc' = [cpc EXCEPT ![ch] = "queued"]
              /\ subs' = subs \cup {ch} /\ count' = count + 1
              /\ delay' = Append(delay, <<n, conns[n].ver>>)
     \/ /\ Picks(conns, reuse, curSize) = {}
        /\ cpc' = [cpc EXCEPT ![ch] = "failed"]
        /\ UNCHANGED <<conns, reuse, curSize, cconn, subs, count, delay>>
  /\ UNCHANGED <<ppc, pdying, ptimer, peof, pver, presumes, retries, stray>>

\* run_upstreams: with no upstream info it returns CO_ERROR at once and the
\* request ends; otherwise the parent swaps out.
RunUpstreams ==
  /\ ppc = "add" /\ \A ch \in Child : cpc[ch] # "none"
  /\ IF \E ch \in Child : cpc[ch] = "queued"
       THEN /\ ppc' = "wait"
            /\ UNCHANGED <<pver, ptimer>>
       ELSE /\ ppc' = "done" /\ pver' = pver + 1 /\ ptimer' = FALSE
  /\ UNCHANGED <<pdying, peof, count, subs, presumes, cpc, cconn, retries, conns, reuse,
                 curSize, delay, stray>>
----------------------------------------------------------------------------
(* A child's coroutine, from a swap-in to the next swap-out or to          *)
(* upstream_finalize.  Each operator below is the set of ways the code it  *)
(* names can end: a wait ("connect", "write", "read") where a hooked call   *)
(* swapped out, "ok" or "err" for the retCode given to upstream_finalize,   *)
(* or "err2": upstream_write's deferred cleanup found EPOLL_CTL_DEL failing *)
(* and called upstream_finalize, and the pending co_defer_return call       *)
(* (upstream_read, or upstream_finalize again) then still ran.  dying is    *)
(* m_flagDying when the code starts: every hook returns CO_ERROR on a       *)
(* dying connection, before or after its yield.                             *)

\* modify_connection(EPOLL_EVENTS_ADD) failing: finalize with CO_ERROR
AddFails == IF EpollCanFail THEN {"err"} ELSE {}

\* leaving upstream_write once its EPOLLOUT was added: the deferred
\* EPOLL_EVENTS_DEL may fail, which finalizes first
LeaveWrite(S) == S \cup (IF EpollCanFail THEN {"err2"} ELSE {})

\* upstream_read from its start: recv succeeds and decode finishes (ok) or
\* fails, or recv would block and the hook swaps out with m_socketRcvTimeout
upstream_read == AddFails \cup {"read", "ok", "err"}

\* upstream_write from its start
upstream_write(dying) ==
  LeaveWrite(AddFails) \cup IF dying THEN LeaveWrite({"err"})
                ELSE {"write"} \cup LeaveWrite({"err"} \cup upstream_read)

\* upstream_init: a kept-alive connection goes straight to upstream_write;
\* a new one arms the connect timer, adds EPOLLOUT and connects, which is
\* refused, completes at once, or swaps out (EINPROGRESS).
\* the hooked connect() under CoTCP::client_connect: a dying connection
\* fails at once; otherwise the non-blocking connect completes (and
\* upstream_write follows), fails, or is in progress and the coroutine
\* yields until EPOLLOUT or the connect timer
connect(dying) ==
  IF dying THEN {"err"} ELSE {"connect", "err"} \cup upstream_write(FALSE)

\* back in the hook after CoDispatcher::yield: CO_ERROR when the connection
\* is dying, else getsockopt(SO_ERROR) tells whether the connect succeeded
connect_resumed(dying) ==
  IF dying THEN {"err"} ELSE {"err"} \cup upstream_write(FALSE)

upstream_init(c, dying) ==
  IF conns[c].alive THEN upstream_write(dying)
  ELSE AddFails \cup connect(dying)

\* the rest of the code after the hook's yield returns at wait ph
resume(ph, dying) ==
  CASE ph = "connect" -> connect_resumed(dying)
    [] ph = "write"   -> IF dying THEN LeaveWrite({"err"})
                         ELSE {"write"} \cup LeaveWrite({"err"} \cup upstream_read)
    [] ph = "read"    -> IF dying THEN {"err"} ELSE {"read", "ok", "err"}

\* mutants: the parent queued by every child, or only at m_count == 0
upstream_finalize_request_every(ch, d) ==
  /\ cpc' = [cpc EXCEPT ![ch] = "fin"] /\ subs' = subs \ {ch} /\ count' = count - 1
  /\ delay' = Append(d, <<Parent, pver>>)
upstream_finalize_request_zero(ch, d) ==
  /\ cpc' = [cpc EXCEPT ![ch] = "fin"] /\ subs' = subs \ {ch} /\ count' = count - 1
  /\ delay' = IF count - 1 = 0 THEN Append(d, <<Parent, pver>>) ELSE d

\* CoCallbackUpstream::upstream_finalize_request: erase the child from
\* m_upstreamRequests, decrement m_count and queue the parent when it is
\* back to 1.  d is m_delayConnections before the step's own pushes.
upstream_finalize_request(ch, d) ==
  /\ cpc' = [cpc EXCEPT ![ch] = "fin"]
  /\ subs' = subs \ {ch}
  /\ count' = count - 1
  /\ delay' = IF count - 1 = 1 THEN Append(d, <<Parent, pver>>) ELSE d

\* CoUpstreamPool::retry_upstream after free_upstream_connection gave the
\* old connection back (f): m_retryTimes + 1, a new connection queued, or
\* none and the child is finalized with CO_ERROR.
retry_upstream(ch, f, d) ==
  /\ retries' = [retries EXCEPT ![ch] = @ + 1]
  /\ \/ /\ Picks(f.conns, f.reuse, f.size) = {}
        /\ cconn' = [cconn EXCEPT ![ch] = NoConn]
        /\ upstream_finalize_request(ch, d)
        /\ conns' = f.conns /\ reuse' = f.reuse /\ curSize' = f.size
     \/ \E n \in Picks(f.conns, f.reuse, f.size) :
          LET g == Take(f.conns, f.reuse, f.size, n)
          IN  /\ conns' = g.conns /\ reuse' = g.reuse /\ curSize' = g.size
              /\ cconn' = [cconn EXCEPT ![ch] = n]
              /\ cpc' = [cpc EXCEPT ![ch] = "queued"]
              /\ delay' = Append(d, <<n, g.conns[n].ver>>)
              /\ UNCHANGED <<subs, count>>

\* mutant: retry without the m_retryMaxnum test
upstream_finalize_unbounded(ch, o, d) ==
  LET c == cconn[ch]
      f == free_connection([conns EXCEPT ![c].ka = FALSE], reuse, curSize, c,
                           IF o = "ok" THEN "ok" ELSE "err")
  IN  /\ stray' = (stray \/ o = "err2")
      /\ IF ~conns[c].pdying /\ o # "ok"
           THEN retry_upstream(ch, f, d)
           ELSE /\ upstream_finalize_request(ch, d)
                /\ conns' = f.conns /\ reuse' = f.reuse /\ curSize' = f.size
                /\ UNCHANGED <<cconn, retries>>

\* CoCallbackUpstream::upstream_finalize(request, retCode): retry a failure
\* unless the parent is dying or m_retryMaxnum is used up; otherwise
\* finalize the request and give the connection back.
upstream_finalize(ch, o, d) ==
  LET c         == cconn[ch]
      ok        == o = "ok"
      f         == free_connection([conns EXCEPT ![c].ka = FALSE], reuse, curSize, c,
                                   IF ok THEN "ok" ELSE "err")
      needRetry == ~conns[c].pdying /\ ~ok /\ RetryMaxnum > retries[ch]
  IN  /\ stray' = (stray \/ o = "err2")
      /\ IF needRetry
           THEN retry_upstream(ch, f, d)
           ELSE /\ upstream_finalize_request(ch, d)
                /\ conns' = f.conns /\ reuse' = f.reuse /\ curSize' = f.size
                /\ UNCHANGED <<cconn, retries>>

\* the hook swaps out at wait o with its timer armed; upstream_init has
\* deleted a kept-alive connection's keepalive timer
Suspend(ch, o, d) ==
  /\ cpc' = [cpc EXCEPT ![ch] = o]
  /\ conns' = [conns EXCEPT ![cconn[ch]].alive = (o # "connect" \/ @), ![cconn[ch]].ka = FALSE]
  /\ delay' = d
  /\ UNCHANGED <<cconn, retries, subs, count, reuse, curSize, stray>>

\* the child's coroutine runs and ends in one of outs
Run(ch, outs, d) ==
  /\ \E o \in outs : IF o \in Waits THEN Suspend(ch, o, d) ELSE upstream_finalize(ch, o, d)
  /\ UNCHANGED <<ppc, pdying, ptimer, peof, pver, presumes>>

\* where a swapped-in child goes on from
Continue(ch, dying) ==
  IF cpc[ch] = "queued" THEN upstream_init(cconn[ch], dying) ELSE resume(cpc[ch], dying)
----------------------------------------------------------------------------
(* The worker's loop while no coroutine runs (the parent is not inside its *)
(* handler's add_upstream calls).                                          *)

Quiet == ppc # "add"

\* Target of a queued entry that is the connection's current version.
Current(e) == IF e[1] = Parent THEN e[2] = pver ELSE e[2] = conns[e[1]].ver

\* funcResumeProcess drops an entry whose m_version is stale.
DispatchStale ==
  /\ Quiet /\ delay # <<>> /\ ~Current(Head(delay))
  /\ delay' = Tail(delay)
  /\ UNCHANGED <<ppc, pdying, ptimer, peof, pver, count, subs, presumes, cpc, cconn,
                 retries, conns, reuse, curSize, stray>>

\* mutant: funcResumeProcess without the m_version test for the parent
DispatchParent_unversioned ==
  /\ Quiet /\ delay # <<>> /\ Head(delay)[1] = Parent
  /\ IF pdying THEN event_exception_parent(Tail(delay), ptimer) ELSE ParentResume(Tail(delay))
  /\ UNCHANGED <<pdying, peof>>

\* func_dispatcher on the parent's connection: event_exception, then the
\* swap-in unless it returned CO_EXCEPTION.
DispatchParent ==
  /\ Quiet /\ delay # <<>> /\ Head(delay)[1] = Parent /\ Current(Head(delay))
  /\ IF pdying THEN event_exception_parent(Tail(delay), ptimer) ELSE ParentResume(Tail(delay))
  /\ UNCHANGED <<pdying, peof>>

\* func_dispatcher on a child's connection: event_exception lets a request
\* connection through (its flags only make the hooks fail), and the
\* coroutine starts (READY) or resumes.
DispatchChild ==
  /\ Quiet /\ delay # <<>> /\ Head(delay)[1] \in Conn /\ Current(Head(delay))
  /\ \E ch \in Child :
       /\ cconn[ch] = Head(delay)[1] /\ cpc[ch] \in {"queued"} \cup Waits
       /\ Run(ch, Continue(ch, conns[cconn[ch]].dying), Tail(delay))

\* process_events: the epoll event a waiting child swapped out for.
ChildReady(ch) ==
  /\ Quiet /\ cpc[ch] \in Waits
  /\ Run(ch, Continue(ch, conns[cconn[ch]].dying), delay)

\* The wait's timer fires (m_flagTimedOut) or the server hangs up
\* (m_flagPendingEof): event_exception sets m_flagDying and the child is
\* swapped in.
ChildException(ch) ==
  /\ Quiet /\ cpc[ch] \in Waits
  /\ Run(ch, Continue(ch, TRUE), delay)

\* The keepalive timer or a hang-up of a kept-alive connection that
\* add_upstream took, before the child's queued entry is drained: the
\* child starts early on a dying connection.
EarlyStart(ch) ==
  /\ Quiet /\ cpc[ch] = "queued" /\ conns[cconn[ch]].alive
  /\ Run(ch, Continue(ch, TRUE), delay)

\* The same for a connection in the reuse list: event_exception finds no
\* request and calls free_upstream_connection(connection, CO_EXCEPTION).
IdleExpire(c) ==
  /\ Quiet /\ conns[c].st = "idle"
  /\ LET f == free_connection(conns, reuse, curSize, c, "exc")
     IN  conns' = f.conns /\ reuse' = f.reuse /\ curSize' = f.size
  /\ UNCHANGED <<ppc, pdying, ptimer, peof, pver, count, subs, presumes, cpc, cconn,
                 retries, delay, stray>>

\* request_process' timer on the parent fires while it waits.
ParentTimeout ==
  /\ ppc = "wait" /\ ptimer
  /\ pdying' = TRUE /\ UNCHANGED peof
  /\ event_exception_parent(delay, FALSE)

\* The client hangs up (EPOLLRDHUP stays registered while the request runs).
ParentHangup ==
  /\ ppc = "wait" /\ ~peof
  /\ pdying' = TRUE /\ peof' = TRUE
  /\ event_exception_parent(delay, ptimer)

Next == \/ \E ch \in Child : AddUpstream(ch) \/ ChildReady(ch) \/ ChildException(ch)
                              \/ EarlyStart(ch)
        \/ RunUpstreams \/ DispatchStale \/ DispatchParent \/ DispatchChild
        \/ \E c \in Conn : IdleExpire(c)
        \/ ParentTimeout \/ ParentHangup

(* The handler runs to its yield; the loop drains m_delayConnections on    *)
(* every pass; every wait of a child has a timer armed, so a waiting child *)
(* is eventually swapped in; the parent's request timer fires.  Neither a  *)
(* server's answer nor a hang-up is assumed.                               *)
Spec == /\ Init /\ [][Next]_vars
        /\ WF_vars(RunUpstreams) /\ \A ch \in Child : WF_vars(AddUpstream(ch))
        /\ WF_vars(DispatchStale \/ DispatchParent \/ DispatchChild)
        /\ \A ch \in Child : WF_vars(ChildException(ch))
        /\ WF_vars(ParentTimeout)

----------------------------------------------------------------------------
TypeOK == /\ ppc \in {"add", "wait", "done"}
          /\ pdying \in BOOLEAN /\ ptimer \in BOOLEAN /\ peof \in BOOLEAN
          /\ pver \in Nat /\ count \in Nat /\ subs \subseteq Child /\ presumes \in Nat
          /\ cpc \in [Child -> {"none", "failed", "queued", "fin"} \cup Waits]
          /\ cconn \in [Child -> Conn \cup {NoConn}]
          /\ retries \in [Child -> 0 .. RetryMaxnum]
          /\ conns \in [Conn -> ConnState]
          /\ reuse \in Seq(Conn) /\ curSize \in Nat
          /\ \A i \in DOMAIN delay : delay[i] \in (Conn \cup {Parent}) \X Nat
          /\ stray \in BOOLEAN

(* spec.md: a parent with outstanding sub-requests defers its teardown     *)
(* until every one has completed or been forced into EXCEPTION.  Once the  *)
(* parent's request is finalized (run_upstreams returned and              *)
(* request_finalize ran), no child is queued, swapped out in a hook or     *)
(* retrying: upstream_finalize_request's m_count == 1 test and             *)
(* event_exception's CO_EXCEPTION return keep the parent out until then.  *)
ParentOutlivesChildren ==
  ppc = "done" => \A ch \in Child : cpc[ch] \in {"failed", "fin"}

(* spec.md scenario B: the parent is resumed exactly once, though it can   *)
(* be queued by its last child and reached by its timer and its client's   *)
(* hang-up as well: the m_version check in funcResumeProcess discards the  *)
(* leftovers.                                                              *)
ParentResumedOnce == presumes <= 1

(* m_curConnectionSize counts exactly the connections taken from the pool  *)
(* and not yet closed, never exceeds m_maxConnections, and the reuse list  *)
(* holds each kept-alive connection once and nothing else, through         *)
(* retries, keepalive expiry and the CO_EXCEPTION branch of free_connection.*)
ConnectionsAccounted ==
  /\ curSize = Cardinality({c \in Conn : conns[c].st # "free"})
  /\ curSize <= MaxConnections
  /\ IsInjective(reuse)
  /\ ToSet(reuse) = {c \in Conn : conns[c].st = "idle"}

(* An entry of m_delayConnections whose version is still current belongs   *)
(* to a connection that carries a live child request: a connection given   *)
(* back to the pool or the reuse list cannot be dispatched by a leftover    *)
(* entry (func_dispatcher would run a READY coroutine whose m_handler was   *)
(* cleared).                                                               *)
DelayTargetsLive ==
  \A i \in DOMAIN delay :
    delay[i][1] \in Conn /\ Current(delay[i]) =>
      /\ conns[delay[i][1]].st = "busy"
      /\ \E ch \in Child : cconn[ch] = delay[i][1] /\ cpc[ch] \in {"queued"} \cup Waits

(* A parent that swaps out in run_upstreams is swapped back in: its last   *)
(* child queues it, or its timer fires and the children it then makes      *)
(* dying end and queue it.                                                 *)
ParentResumed == ppc = "wait" ~> ppc = "done"

(* No handler code runs on behalf of a child request after upstream_finalize *)
(* has finalized or retried it (spec.md: a multiplexer control failure is   *)
(* logged and the connection goes on degraded).                             *)
NoStepAfterFinalize == ~stray
====
