------------------------------- MODULE Worker -------------------------------
(***************************************************************************)
(* One CoServer worker thread (CoCycle): its connection pool, the epoll    *)
(* registrations and edge-triggered readiness, the timer multimap, the     *)
(* dispatcher loop (CoDispatcher::process_events_and_timers), the shared-  *)
(* stack coroutine of every client connection and the request lifecycle    *)
(* (co_callback_request.cpp), together with the clients on the other end   *)
(* of the sockets and one third-party thread that resumes coroutines with  *)
(* CoDispatcher::resume_async.                                             *)
(*                                                                         *)
(* A dispatch of a connection (func_dispatcher) runs event_exception and   *)
(* then the coroutine up to its next swap_out; because a worker is one     *)
(* thread, that whole segment is one step (Exec).  Segments are written as *)
(* functions from a "situation" (the connection record plus its peer) to   *)
(* the set of situations the code can reach, composed in code order.      *)
(***************************************************************************)
EXTENDS Integers, Sequences, FiniteSets, SequencesExt

CONSTANTS
    Conn,            \* ids of the client connections of the pool, 1..N
    MaxConnections,  \* CoConfServer::m_maxConnections of the listen server
    MaxAccepts,      \* bound on the clients that connect
    MaxRequests,     \* bound on the requests the clients send
    Behaviours,      \* what the user's m_userProcess does: "return", "sleep", "async",
                     \* or "third": a recv on a blocking third-party socket
    AcceptCanFail,   \* whether set_nonblock may fail in get_connection(fd)
    HandlerRets      \* what m_userProcess may return: "OK" (CO_OK) or "ERROR"

ASSUME Conn = 1..Cardinality(Conn) /\ MaxConnections \in 1..Cardinality(Conn)
ASSUME Behaviours \subseteq {"return", "sleep", "async", "third"} /\ AcceptCanFail \in BOOLEAN
ASSUME HandlerRets \subseteq {"OK", "ERROR"} /\ HandlerRets # {}

Bit  == {"IN", "OUT", "RDHUP"}                 \* EPOLLIN, EPOLLOUT, EPOLLRDHUP
Ev   == {"read", "write", "sleep"}             \* m_readEvent, m_writeEvent, m_sleepEvent
Flag == {"pendingEof", "timedOut", "dying", "tfb", "useBlock"}
        \* tfb = m_flagThirdFuncBlocking, useBlock = m_flagUseBlockConn
\* where the connection's coroutine is: "free" (m_handler NULL), "idle"
\* (handler request_init, coroutine READY), parked in the hooked recv,
\* sleep, CoDispatcher::yield, yield_thirdsocket or send, or "crashed" (a
\* NULL m_handler run).
Pc   == {"free", "idle", "read", "sleep", "async", "third", "write", "crashed"}
NoCur == [c |-> 0, src |-> "none"]

\* expand_connections allocates every client connection with its block
\* connection (m_blockConn, m_flagBlockConn set, m_blockOriginConn back to
\* it), which only ever hosts a third-party socket; it is never reset(), so
\* its m_version never changes.
BlockOf(c) == c + Cardinality(Conn)
Blocks == {BlockOf(c) : c \in Conn}
AllConn == Conn \cup Blocks
Origin(d) == IF d \in Conn THEN d ELSE d - Cardinality(Conn)

VARIABLES
    conn,        \* conn[c]: the CoConnection, its CoEvents and its epoll item
    freeList,    \* CoConnectionPool::m_freeConnections
    inner,       \* CoConnectionPool::m_innerSockets (by connection)
    phase,       \* where the dispatcher thread is in start()/process_events_and_timers
    batch,       \* the events epoll_wait returned and not yet handled
    delay,       \* CoDispatcher::m_delayConnections: <<conn, version>>
    waitResumes, \* CoDispatcher::m_waitResumes
    needCont,    \* needContinue of process_events_and_timers
    run,         \* CoDispatcher::m_run
    cur,         \* the connection func_dispatcher is running, and why
    ctlCur,      \* CoServerControl::m_curConnectionSize
    listening,   \* CoServerControl::m_listening
    backlog,     \* clients waiting in the listen queue
    accepts,     \* clients that have connected so far
    sent,        \* requests sent so far
    rx,          \* connections whose client sent a request not yet read
    hup,         \* connections whose client closed its end
    full,        \* connections whose socket send buffer is full
    waiting,     \* connections whose client waits for a response
    tokens,      \* m_coroutineData handed to the third-party thread
    wake,        \* a byte is pending on the resume socketpair
    unseen,      \* pushes to m_waitResumes the dispatcher has not synchronised with
    thirdRx      \* connections whose third-party server has answered the blocked call

vars == <<conn, freeList, inner, phase, batch, delay, waitResumes, needCont,
          run, cur, ctlCur, listening, backlog, accepts, sent, rx, hup, full,
          waiting, tokens, wake, unseen, thirdRx>>

ConnRec == [ver: Nat, pc: Pc, req: BOOLEAN, fl: SUBSET Flag, ret: {"OK", "ERROR"},
            mask: SUBSET Bit, etag: Nat, act: SUBSET {"R", "W"},
            tset: SUBSET Ev, nodes: [Ev -> Nat], rdy: SUBSET Bit, fd: BOOLEAN]

-----------------------------------------------------------------------------
(* Operations on a situation s = [r: ConnRec, rx, hup, full, replied,     *)
(* token, freed: BOOLEAN]; rx/hup/full are the peer's socket state.        *)

Dying(s) == "dying" \in s.r.fl

\* The socket's level-triggered readiness, re-polled by EPOLL_CTL_ADD/MOD.
Level(s) == (IF s.rx \/ s.hup THEN {"IN"} ELSE {})
            \cup (IF s.hup THEN {"RDHUP"} ELSE {})
            \cup (IF s.full THEN {} ELSE {"OUT"})

\* CoTimer::add_timer: a second add while m_flagTimerSet is set is ignored.
add_timer(s, e) ==
    IF e \in s.r.tset THEN s
    ELSE [s EXCEPT !.r.tset = @ \cup {e}, !.r.nodes[e] = @ + 1]

\* Mutant: del_timer without the m_flagTimerSet check.
del_timer_unchecked(s, e) ==
    [s EXCEPT !.r.tset = @ \ {e}, !.r.nodes[e] = @ - 1]

\* CoTimer::del_timer: erases the event's node only if m_flagTimerSet.
del_timer(s, e) ==
    IF e \notin s.r.tset THEN s
    ELSE [s EXCEPT !.r.tset = @ \ {e}, !.r.nodes[e] = @ - 1]

\* m_flagActive of the read and write events as modify_connection sets them.
ActiveOf(m) == (IF m \cap {"IN", "RDHUP"} # {} THEN {"R"} ELSE {})
               \cup (IF "OUT" \in m THEN {"W"} ELSE {})

\* CoEpoll::modify_connection: nothing to do when neither the mask nor the
\* version changed; otherwise ADD/MOD/DEL with tag (id, m_version), which
\* re-polls the socket (an edge for every ready bit still registered).
modify_connection(s, op, bits) ==
    LET new == IF op = "ADD" THEN s.r.mask \cup bits ELSE s.r.mask \ bits
    IN  IF new = s.r.mask /\ s.r.etag = s.r.ver THEN s
        ELSE [s EXCEPT !.r.mask = new, !.r.etag = s.r.ver,
                       !.r.act = ActiveOf(new),
                       !.r.rdy = (@ \cup Level(s)) \cap new]

\* CoEpoll::del_connection.
del_connection(s) ==
    IF s.r.mask = {} THEN s
    ELSE [s EXCEPT !.r.mask = {}, !.r.etag = 0, !.r.act = {}, !.r.rdy = {}]

\* CoConnection::reset_block: the block connection's events (m_flagActive,
\* m_flagTimerSet), socket and flags are cleared; its epoll registration
\* (m_epollCurEvents) and any timer node are left as they are.
reset_block(b) == [b EXCEPT !.act = {}, !.tset = {}, !.fl = {}, !.fd = FALSE]

\* CoConnection::reset: a new version, no handler or request, flags and the
\* events' m_flagActive/m_flagTimerSet cleared (timer nodes are NOT erased),
\* coroutine READY, then reset_block.  The socket is kept when keepalive.
reset(s, keepalive) ==
    [s EXCEPT !.r.ver = @ + 1, !.r.pc = "free", !.r.req = FALSE, !.r.fl = {},
              !.r.act = {}, !.r.tset = {}, !.r.ret = "OK",
              !.r.fd = keepalive /\ @, !.b = reset_block(@)]

\* CoConnectionPool::free_connection (the fd close, then reset); the pool's
\* free list, m_innerSockets and the cleanup are applied by Exec.
free_connection(s) == [reset(s, FALSE) EXCEPT !.freed = TRUE]

\* Mutant: the keepalive path registers EPOLLIN before reset(true), so the
\* epoll tag carries the old version.
free_request_connection_modify_first(s, retCode) ==
    LET s1 == del_timer(del_timer(s, "write"), "read")
    IN  IF retCode # "OK"
        THEN free_connection(del_connection(s1))
        ELSE LET s2 == reset(modify_connection(modify_connection(s1,
                                      "ADD", {"IN"}), "DEL", {"OUT"}), TRUE)
             IN  [add_timer(s2, "read") EXCEPT !.r.pc = "idle"]

\* CoCallbackRequest::free_request_connection: delete both timers; on an
\* error close the connection, otherwise reset(true) FIRST and only then
\* register EPOLLIN (so the epoll tag carries the new version), drop
\* EPOLLOUT, arm the keepalive timer and set the handler to request_init.
free_request_connection(s, retCode) ==
    LET s1 == del_timer(del_timer(s, "write"), "read")
    IN  IF retCode # "OK"
        THEN free_connection(del_connection(s1))
        ELSE LET s2 == modify_connection(modify_connection(reset(s1, TRUE),
                                               "ADD", {"IN"}), "DEL", {"OUT"})
                 s3 == add_timer(s2, "read")
             IN  [s3 EXCEPT !.r.pc = "idle"]

\* request_write's co_defer (delete the write timer, drop EPOLLOUT) runs
\* before the co_defer_return call request_finalize -> free_request_connection.
write_end(s, retCode) ==
    free_request_connection(modify_connection(del_timer(s, "write"), "DEL", {"OUT"}),
                            retCode)

\* The send loop of request_write, through the hooked send (read_write_mode):
\* a dying connection fails at once, EAGAIN parks the coroutine the first
\* time and fails after the one retry the hook makes on resume.
write_try(s, first) ==
    LET sent1 == [s EXCEPT !.replied = TRUE]
    IN  IF Dying(s) THEN {write_end(s, "ERROR")}
        ELSE IF s.hup THEN {write_end(s, "ERROR"), write_end(sent1, s.r.ret)}
        ELSE IF s.full
             THEN IF first THEN {[s EXCEPT !.r.pc = "write"]}
                  ELSE {write_end(s, "ERROR")}
        ELSE {write_end(sent1, s.r.ret)}

\* CoCallbackRequest::request_write: arm the write timer, add EPOLLOUT, send.
request_write(s, retCode) ==
    write_try(modify_connection(add_timer([s EXCEPT !.r.ret = retCode], "write"),
                                "ADD", {"OUT"}), TRUE)

\* The end of request_process once m_userProcess returned ret: the
\* keepalive timer is deleted and the response written with ret as the
\* retCode that request_finalize hands to free_request_connection (any
\* value but CO_OK closes the connection after the response).
process_return(s) ==
    UNION {request_write(del_timer(s, "read"), ret) : ret \in HandlerRets}

\* An operation on the situation's block connection (the third-party socket
\* it hosts has no peer state but the server's answer, and EPOLLOUT is never
\* registered on it).
OnBlock(s, Op(_)) ==
    LET t == Op([r |-> s.b, rx |-> s.trx, hup |-> FALSE, full |-> TRUE])
    IN  [s EXCEPT !.b = t.r]

\* CoDispatcher::yield_thirdsocket up to its swap_out, reached from the
\* hooked recv (read_write_mode) on a blocking third-party socket that has
\* no data: m_flagUseBlockConn, the fd bound to the block connection,
\* EPOLLIN|EPOLLRDHUP added to epoll and the block read event's timer armed.
yield_thirdsocket(s) ==
    LET s1 == [s EXCEPT !.r.fl = @ \cup {"useBlock"}, !.b.fd = TRUE]
        s2 == OnBlock(s1, LAMBDA t : add_timer(modify_connection(t, "ADD", {"IN", "RDHUP"}),
                                                "read"))
    IN  [s2 EXCEPT !.r.pc = "third"]

\* Mutant: the swap_in path skips the EPOLL_EVENTS_DEL of the block event.
third_resumed_kept_registered(s) ==
    LET s1 == OnBlock(s, LAMBDA t : del_timer(t, "read"))
    IN  process_return([s1 EXCEPT !.r.fl = @ \ {"useBlock"}, !.b = reset_block(@),
                                  !.trx = FALSE])

\* yield_thirdsocket after its swap_in: the block event is deleted from epoll
\* and from the timer, the result is classified, and the co_defer clears
\* m_flagUseBlockConn and runs reset_block.  Whatever the result, the hook
\* returns to the business handler (retrying recv once on success), which
\* then returns.
third_resumed(s) ==
    LET s1 == OnBlock(s, LAMBDA t : del_timer(modify_connection(t, "DEL", {"IN", "RDHUP"}),
                                               "read"))
    IN  process_return([s1 EXCEPT !.r.fl = @ \ {"useBlock"}, !.b = reset_block(@),
                                  !.trx = FALSE])

\* The business handler's call on the third-party socket: its answer is
\* already there, or it parks in yield_thirdsocket.
call_third(s) == process_return(s) \cup {yield_thirdsocket(s)}

\* Mutant: the hooked sleep parks without arming the sleep timer.
request_process_untimed_sleep(s) ==
    LET s1 == add_timer(s, "read")
    IN  UNION {CASE b = "return" -> process_return(s1)
                 [] b = "sleep"  -> {[s1 EXCEPT !.r.fl = @ \cup {"tfb"}, !.r.pc = "sleep"]}
                 [] b = "async"  -> {[s1 EXCEPT !.r.pc = "async", !.token = TRUE]}
                 [] b = "third"  -> call_third(s1)
               : b \in Behaviours}

\* CoCallbackRequest::request_process: the keepalive timer bounds the
\* business handler, which returns, sleeps (hooked sleep -> yield_timer) or
\* hands its coroutine data to another thread and yields, or blocks on a
\* third-party socket.
request_process(s) ==
    LET s1 == add_timer(s, "read")
    IN  UNION {CASE b = "return" -> process_return(s1)
                 [] b = "sleep"  -> {[add_timer(s1, "sleep") EXCEPT
                                        !.r.fl = @ \cup {"tfb"}, !.r.pc = "sleep"]}
                 [] b = "async"  -> {[s1 EXCEPT !.r.pc = "async", !.token = TRUE]}
                 [] b = "third"  -> call_third(s1)
               : b \in Behaviours}

\* request_read's co_defer: delete the read timer and EPOLLIN (keep RDHUP).
read_end(s) == modify_connection(del_timer(s, "read"), "DEL", {"IN"})

\* The recv loop of request_read through the hooked recv.  A whole request
\* is decoded from one read; recv returning 0 or an error ends the request
\* with request_write(ERROR).
read_try(s, first) ==
    IF Dying(s) THEN request_write(read_end(s), "ERROR")
    ELSE IF s.rx THEN request_process(read_end([s EXCEPT !.rx = FALSE]))
    ELSE IF s.hup THEN request_write(read_end(s), "ERROR")
    ELSE IF first THEN {[s EXCEPT !.r.pc = "read"]}
    ELSE request_write(read_end(s), "ERROR")

\* CoCallbackRequest::request_init followed by request_read's registration.
request_init(s) ==
    LET s1 == [del_timer(s, "read") EXCEPT !.r.req = TRUE]
    IN  read_try(modify_connection(add_timer(s1, "read"), "ADD", {"IN", "RDHUP"}), TRUE)

\* Resuming the coroutine where it is parked (func_dispatcher's swap_in).
\* yield_timer clears m_flagThirdFuncBlocking and deletes the sleep timer.
resume(s) ==
    CASE s.r.pc = "idle"  -> request_init(s)
      [] s.r.pc = "read"  -> read_try(s, FALSE)
      [] s.r.pc = "sleep" -> process_return(del_timer([s EXCEPT !.r.fl = @ \ {"tfb"}],
                                                      "sleep"))
      [] s.r.pc = "async" -> process_return(s)
      [] s.r.pc = "third" -> third_resumed(s)
      [] s.r.pc = "write" -> write_try(s, FALSE)
      [] s.r.pc = "free"  -> {[s EXCEPT !.r.pc = "crashed"]}
      [] s.r.pc = "crashed" -> {s}

\* CoCallbackEvent::event_exception then the coroutine (func_dispatcher).
\* A connection parked on its block connection marks that one dying too and
\* is resumed at once.
func_dispatcher(s) ==
    IF s.r.fl \cap {"pendingEof", "timedOut", "dying"} = {} THEN resume(s)
    ELSE LET s1 == [s EXCEPT !.r.fl = @ \cup {"dying"}]
         IN  IF "tfb" \in s.r.fl THEN {s1}
             ELSE IF "useBlock" \in s.r.fl THEN resume([s1 EXCEPT !.b.fl = @ \cup {"dying"}])
             ELSE IF s.r.req THEN resume(s1)
             ELSE {free_request_connection(s1, "EXCEPTION")}

\* func_dispatcher of a block connection: event_exception marks it dying
\* on any flag and returns CO_OK (m_flagBlockConn), then the ORIGIN's
\* coroutine is swapped in wherever it is parked; a READY one is started
\* with the block connection, whose m_handler is NULL.
block_dispatcher(s) ==
    LET s1 == IF s.b.fl \cap {"pendingEof", "timedOut", "dying"} = {} THEN s
              ELSE [s EXCEPT !.b.fl = @ \cup {"dying"}]
    IN  CASE s.r.pc = "third"            -> third_resumed(s1)
          [] s.r.pc \in {"free", "idle"} -> {[s1 EXCEPT !.r.pc = "crashed"]}
          [] OTHER                       -> resume(s1)

-----------------------------------------------------------------------------
Situation(c) == [r |-> conn[c], rx |-> c \in rx, hup |-> c \in hup,
                 full |-> c \in full, replied |-> FALSE, token |-> FALSE,
                 freed |-> FALSE, b |-> conn[BlockOf(c)], trx |-> c \in thirdRx]

\* The bits that become ready on an edge of the peer, if registered.
Edge(c, bits) == [conn EXCEPT ![c].rdy = @ \cup (bits \cap conn[c].mask)]

\* CoServerControl::modify_listening, after m_curConnectionSize changed.
ListeningAfter(n) == n < MaxConnections

\* free_connection runs m_handlerCleanups, which init_connection filled with
\* CoServerControl::func_cleanup and reset() clears: only a connection that
\* was handed out by accept decrements m_curConnectionSize.
func_cleanup(was) == IF was.pc # "free" THEN ctlCur - 1 ELSE ctlCur

\* func_dispatcher(cur.c): event_exception and the coroutine segment (of
\* the origin connection when cur.c is a block connection).  For a freed
\* connection also free_connection's list and socket bookkeeping and the
\* cleanup CoServerControl::func_cleanup it registered at accept.
Exec ==
    /\ cur # NoCur
    /\ LET c == Origin(cur.c)
           was == conn[c]
           outcomes == IF cur.c \in Blocks THEN block_dispatcher(Situation(c))
                       ELSE func_dispatcher(Situation(c))
       IN  \E s \in outcomes :
             /\ conn' = [conn EXCEPT ![c] = s.r, ![BlockOf(c)] = s.b]
             /\ thirdRx' = IF s.trx THEN thirdRx ELSE thirdRx \ {c}
             /\ rx' = IF s.rx /\ ~s.freed THEN rx ELSE rx \ {c}
             /\ hup' = IF s.freed THEN hup \ {c} ELSE hup
             /\ full' = IF s.freed THEN full \ {c} ELSE full
             /\ waiting' = IF s.replied \/ s.freed THEN waiting \ {c} ELSE waiting
             /\ tokens' = IF s.token THEN tokens \cup {<<c, s.r.ver>>} ELSE tokens
             /\ freeList' = IF s.freed THEN <<c>> \o freeList ELSE freeList
             /\ inner' = IF s.freed THEN inner \ {c} ELSE inner
             /\ LET n == IF s.freed THEN func_cleanup(was) ELSE ctlCur
                IN  /\ ctlCur' = n
                    /\ listening' = IF n # ctlCur THEN ListeningAfter(n) ELSE listening
             /\ cur' = NoCur
    /\ UNCHANGED <<phase, batch, delay, waitResumes, needCont, run, backlog,
                   accepts, sent, wake, unseen>>

Idle == cur = NoCur

-----------------------------------------------------------------------------
(* CoDispatcher::start: each turn of the loop; once stopped it calls      *)
(* close_all_connection and leaves when the timer map is empty.           *)

\* Mutant: close_all_connection without the "socketfd > 0" check.
Closing_every == Conn

\* The connections close_all_connection marks: every one with a socket.
Closing == {c \in Conn : conn[c].fd}

Pushed == LET s == SetToSortSeq(Closing, <)
          IN  [i \in DOMAIN s |-> <<s[i], conn[s[i]].ver>>]

TimersEmpty == \A c \in AllConn, e \in Ev : conn[c].nodes[e] = 0

LoopTop ==
    /\ phase = "top" /\ Idle
    /\ IF run
       THEN /\ phase' = "wait"
            /\ UNCHANGED <<conn, delay>>
       ELSE \* close_all_connection: m_flagPendingEof on every open socket
            /\ conn' = [c \in AllConn |-> IF c \in Closing
                                       THEN [conn[c] EXCEPT !.fl = @ \cup {"pendingEof"}]
                                       ELSE conn[c]]
            /\ delay' = delay \o Pushed
            /\ phase' = IF TimersEmpty THEN "exit" ELSE "wait"
    /\ UNCHANGED <<freeList, inner, batch, waitResumes, needCont, run, cur, ctlCur,
                   listening, backlog, accepts, sent, rx, hup, full, waiting, tokens, wake, unseen, thirdRx>>

\* CoEpoll::process_events' epoll_wait: every registered socket with ready
\* bits, tagged with the (id, version) of its registration, the listen
\* socket and the resume socketpair; empty on the timeout.
EpollWait ==
    /\ phase = "wait" /\ Idle
    /\ batch' = {[k |-> "conn", c |-> c, v |-> conn[c].etag, ev |-> conn[c].rdy,
                  chk |-> FALSE] : c \in {d \in AllConn : conn[d].rdy # {}}}
                \cup (IF listening /\ backlog > 0 THEN {[k |-> "listen"]} ELSE {})
                \cup (IF wake THEN {[k |-> "wake"]} ELSE {})
    /\ conn' = [c \in AllConn |-> [conn[c] EXCEPT !.rdy = {}]]
    /\ phase' = "events"
    /\ UNCHANGED <<freeList, inner, delay, waitResumes, needCont, run, cur, ctlCur,
                   listening, backlog, accepts, sent, rx, hup, full, waiting, tokens, wake, unseen, thirdRx>>

-----------------------------------------------------------------------------
(* The loop over the epoll_wait result in CoEpoll::process_events.  The   *)
(* version is checked once per entry, before the read dispatch; the write *)
(* dispatch of the same entry follows whatever the read dispatch did.     *)

Current(i) == i.chk \/ conn[i.c].ver = i.v
ReadDue(i)  == ~i.chk /\ i.ev \cap {"IN", "RDHUP"} # {} /\ "R" \in conn[i.c].act
WriteDue(i) == "OUT" \in i.ev /\ "W" \in conn[i.c].act

EventUnchanged == UNCHANGED <<freeList, inner, phase, delay, waitResumes, needCont,
                              run, ctlCur, listening, backlog, accepts, sent, rx,
                              hup, full, waiting, tokens, wake, unseen, thirdRx>>

\* An entry whose (id, version) tag is stale, or with no active event.
EventSkip(i) ==
    /\ i.k = "conn" /\ (~Current(i) \/ (~ReadDue(i) /\ ~WriteDue(i)))
    /\ batch' = batch \ {i}
    /\ UNCHANGED <<conn, cur>> /\ EventUnchanged

\* EPOLLIN/EPOLLRDHUP on an active read event; RDHUP sets m_flagPendingEof.
EventRead(i) ==
    /\ i.k = "conn" /\ Current(i) /\ ReadDue(i)
    /\ conn' = [conn EXCEPT ![i.c].fl = IF "RDHUP" \in i.ev THEN @ \cup {"pendingEof"}
                                                              ELSE @]
    /\ cur' = [c |-> i.c, src |-> "event"]
    /\ batch' = (batch \ {i}) \cup {[i EXCEPT !.chk = TRUE]}
    /\ EventUnchanged

\* EPOLLOUT on an active write event.
EventWrite(i) ==
    /\ i.k = "conn" /\ Current(i) /\ ~ReadDue(i) /\ WriteDue(i)
    /\ cur' = [c |-> i.c, src |-> "event"]
    /\ batch' = batch \ {i}
    /\ UNCHANGED conn /\ EventUnchanged

\* The listen connection's handler (CoServerControl::init): limit() is
\* positive while listening, so it accepts: init_connection takes the free
\* head (get_connection(fd)), counts it and pushes it on the delay queue;
\* at the limit the next limit() is 0, modify_listening drops the listen
\* socket from epoll and the handler returns.  The pool holds at least
\* MaxConnections connections, so get_connection never finds it empty.
ListenEvent ==
    /\ [k |-> "listen"] \in batch
    /\ batch' = batch \ {[k |-> "listen"]}
    /\ LET h == Head(freeList)
       IN  /\ freeList' = Tail(freeList)
           /\ conn' = [conn EXCEPT ![h].fd = TRUE, ![h].pc = "idle"]
           /\ inner' = inner \cup {h}
           /\ ctlCur' = ctlCur + 1
           /\ listening' = ListeningAfter(ctlCur + 1)
           /\ delay' = Append(delay, <<h, conn[h].ver>>)
           /\ backlog' = backlog - 1
    /\ UNCHANGED <<phase, waitResumes, needCont, run, cur, accepts, sent, rx, hup,
                   full, waiting, tokens, wake, unseen, thirdRx>>

\* get_connection(fd) attaches the accepted socket to the free head, then
\* set_nonblock fails and it returns NULL without popping the head.
ListenAcceptFails ==
    /\ AcceptCanFail
    /\ [k |-> "listen"] \in batch /\ ctlCur < MaxConnections
    /\ batch' = batch \ {[k |-> "listen"]}
    /\ conn' = [conn EXCEPT ![Head(freeList)].fd = TRUE]
    /\ backlog' = backlog - 1
    /\ UNCHANGED <<freeList, inner, phase, delay, waitResumes, needCont, run, cur,
                   ctlCur, listening, accepts, sent, rx, hup, full, waiting, tokens, wake, unseen, thirdRx>>

\* The resume socketpair's read handler drains the wake-up bytes.
WakeEvent ==
    /\ [k |-> "wake"] \in batch
    /\ batch' = batch \ {[k |-> "wake"]}
    /\ wake' = FALSE /\ unseen' = 0
    /\ UNCHANGED <<conn, freeList, inner, phase, delay, waitResumes, needCont, run,
                   cur, ctlCur, listening, backlog, accepts, sent, rx, hup, full,
                   waiting, tokens, thirdRx>>

EventStep ==
    /\ phase = "events" /\ Idle
    /\ \/ \E i \in batch : EventSkip(i) \/ EventRead(i) \/ EventWrite(i)
       \/ ListenEvent
       \/ ListenAcceptFails
       \/ WakeEvent

EventsDone ==
    /\ phase = "events" /\ Idle /\ batch = {}
    /\ phase' = "delay" /\ needCont' = FALSE
    /\ UNCHANGED <<conn, freeList, inner, batch, delay, waitResumes, run, cur, ctlCur,
                   listening, backlog, accepts, sent, rx, hup, full, waiting, tokens, wake, unseen, thirdRx>>

-----------------------------------------------------------------------------
(* The do { } while (needContinue) body of process_events_and_timers.     *)

QueueUnchanged == UNCHANGED <<freeList, inner, batch, run, ctlCur, listening, backlog,
                              accepts, sent, rx, hup, full, waiting, tokens, wake, unseen, thirdRx>>

\* Mutant: funcResumeProcess without the version check.
Resumed_unversioned(q, src) ==
    /\ cur' = [c |-> Head(q)[1], src |-> src]
    /\ needCont' = TRUE

\* funcResumeProcess: an entry whose version is stale is dropped; any other
\* one sets needContinue and is dispatched.
Resumed(q, src) ==
    IF conn[Head(q)[1]].ver = Head(q)[2]
    THEN /\ cur' = [c |-> Head(q)[1], src |-> src]
         /\ needCont' = TRUE
    ELSE UNCHANGED <<cur, needCont>>

DelayStep ==
    /\ phase = "delay" /\ Idle
    /\ IF delay # <<>>
       THEN /\ delay' = Tail(delay) /\ Resumed(delay, "delay")
            /\ UNCHANGED phase
       ELSE /\ phase' = "resumes" /\ UNCHANGED <<delay, cur, needCont>>
    /\ UNCHANGED <<conn, waitResumes>> /\ QueueUnchanged

\* The m_waitResumes drain.  "while (!m_waitResumes.empty())" reads the
\* queue without m_mtxResume, racing resume_async's push: it may miss the
\* pushes made since the dispatcher last synchronised with the writers (the
\* last pop under the mutex, or the read of their wake-up byte).  Those are
\* the last `unseen` entries; the pop itself is done under the mutex.
ResumeStep ==
    /\ phase = "resumes" /\ Idle
    /\ \/ /\ waitResumes # <<>>
          /\ waitResumes' = Tail(waitResumes) /\ Resumed(waitResumes, "resume")
          /\ unseen' = 0 /\ UNCHANGED phase
       \/ /\ Len(waitResumes) = unseen
          /\ phase' = "timers" /\ UNCHANGED <<waitResumes, cur, needCont, unseen>>
    /\ UNCHANGED <<conn, delay, freeList, inner, batch, run, ctlCur, listening,
                   backlog, accepts, sent, rx, hup, full, waiting, tokens, wake, thirdRx>>

\* "if (timerTime == 0 || some phase took time)": whether a timer is due or
\* a phase took a millisecond is outside the model, so both are possible.
TimerBranch ==
    /\ phase = "timers" /\ Idle
    /\ phase' = "fire" /\ needCont' = TRUE
    /\ UNCHANGED <<conn, delay, waitResumes, cur>> /\ QueueUnchanged

NoTimerBranch ==
    /\ phase = "timers" /\ Idle
    /\ phase' = IF needCont THEN "delay" ELSE "top"
    /\ needCont' = FALSE
    /\ UNCHANGED <<conn, delay, waitResumes, cur>> /\ QueueUnchanged

\* Mutant: process_timer runs the node without erasing it from the map.
timer_fire_kept(r, e) ==
    LET r1 == [r EXCEPT !.tset = @ \ {e}, !.fl = @ \cup {"timedOut"}]
    IN  IF e = "sleep" THEN [r1 EXCEPT !.fl = @ \ {"timedOut", "tfb"}] ELSE r1

\* CoTimer::process_timer on a due node of event e of connection c: erase
\* it, clear m_flagTimerSet, set m_flagTimedOut, run the sleep event's
\* m_timerPreHandler (which clears timedOut and thirdFuncBlocking again) and
\* dispatch c -- with no version check.
timer_fire(r, e) ==
    LET r1 == [r EXCEPT !.nodes[e] = @ - 1, !.tset = @ \ {e},
                        !.fl = @ \cup {"timedOut"}]
    IN  IF e = "sleep" THEN [r1 EXCEPT !.fl = @ \ {"timedOut", "tfb"}] ELSE r1

FireTimer(c, e) ==
    /\ phase = "fire" /\ Idle /\ conn[c].nodes[e] > 0
    /\ conn' = [conn EXCEPT ![c] = timer_fire(@, e)]
    /\ cur' = [c |-> c, src |-> "timer"]
    /\ UNCHANGED <<phase, delay, waitResumes, needCont>> /\ QueueUnchanged

\* No more due node: find_timer, and the loop goes round (needContinue).
FireDone ==
    /\ phase = "fire" /\ Idle
    /\ phase' = "delay" /\ needCont' = FALSE
    /\ UNCHANGED <<conn, delay, waitResumes, cur>> /\ QueueUnchanged

-----------------------------------------------------------------------------
(* The environment: clients, the kernel, the resuming thread, shut_down.  *)

EnvUnchanged == UNCHANGED <<freeList, inner, phase, batch, delay, needCont, run, cur,
                            ctlCur, listening>>

Connected(c) == conn[c].fd /\ conn[c].pc # "free"

ClientConnect ==
    /\ accepts < MaxAccepts /\ backlog = 0
    /\ backlog' = 1 /\ accepts' = accepts + 1
    /\ UNCHANGED <<conn, waitResumes, sent, rx, hup, full, waiting, tokens, wake, unseen, thirdRx>>
    /\ EnvUnchanged

\* The client sends its next request once it has its previous response.
ClientSend(c) ==
    /\ Connected(c) /\ c \notin waiting /\ c \notin hup /\ sent < MaxRequests
    /\ rx' = rx \cup {c} /\ waiting' = waiting \cup {c} /\ sent' = sent + 1
    /\ conn' = Edge(c, {"IN"})
    /\ UNCHANGED <<waitResumes, backlog, accepts, hup, full, tokens, wake, unseen, thirdRx>>
    /\ EnvUnchanged

\* The client closes its end: EPOLLIN|EPOLLRDHUP.
ClientClose(c) ==
    /\ Connected(c) /\ c \notin hup
    /\ hup' = hup \cup {c}
    /\ conn' = Edge(c, {"IN", "RDHUP"})
    /\ UNCHANGED <<waitResumes, backlog, accepts, sent, rx, full, waiting, tokens, wake, unseen, thirdRx>>
    /\ EnvUnchanged

\* The send buffer fills, or drains again (an EPOLLOUT edge).
BufferFills(c) ==
    /\ Connected(c) /\ c \notin full
    /\ full' = full \cup {c}
    /\ UNCHANGED <<conn, waitResumes, backlog, accepts, sent, rx, hup, waiting, tokens, wake, unseen, thirdRx>>
    /\ EnvUnchanged

BufferDrains(c) ==
    /\ c \in full
    /\ full' = full \ {c}
    /\ conn' = Edge(c, {"OUT"})
    /\ UNCHANGED <<waitResumes, backlog, accepts, sent, rx, hup, waiting, tokens, wake, unseen, thirdRx>>
    /\ EnvUnchanged

\* The third-party server answers the call a coroutine is blocked on: an
\* EPOLLIN edge on the socket its block connection hosts.  It may also never
\* answer; the block event's timer and the request's own timer bound the wait.
ThirdReply(c) ==
    /\ conn[c].pc = "third" /\ c \notin thirdRx
    /\ thirdRx' = thirdRx \cup {c}
    /\ conn' = Edge(BlockOf(c), {"IN"})
    /\ UNCHANGED <<waitResumes, backlog, accepts, sent, rx, hup, full, waiting, tokens,
                   wake, unseen>>
    /\ EnvUnchanged

\* Mutant: the wake-up byte is written only when the queue was NOT empty.
resume_async_inverted(t) ==
    /\ t \in tokens
    /\ tokens' = tokens \ {t}
    /\ waitResumes' = Append(waitResumes, t)
    /\ wake' = (wake \/ waitResumes # <<>>) /\ unseen' = unseen + 1
    /\ UNCHANGED <<conn, backlog, accepts, sent, rx, hup, full, waiting, thirdRx>>
    /\ EnvUnchanged

\* CoDispatcher::resume_async from the third-party thread: push under
\* m_mtxResume and write a byte only if the queue was empty.
resume_async(t) ==
    /\ t \in tokens
    /\ tokens' = tokens \ {t}
    /\ waitResumes' = Append(waitResumes, t)
    /\ wake' = (wake \/ waitResumes = <<>>) /\ unseen' = unseen + 1
    /\ UNCHANGED <<conn, backlog, accepts, sent, rx, hup, full, waiting, thirdRx>>
    /\ EnvUnchanged

\* CoServer::shut_down -> CoDispatcher::stop.
Stop ==
    /\ run /\ run' = FALSE
    /\ UNCHANGED <<conn, freeList, inner, phase, batch, delay, waitResumes, needCont,
                   cur, ctlCur, listening, backlog, accepts, sent, rx, hup, full,
                   waiting, tokens, wake, unseen, thirdRx>>

-----------------------------------------------------------------------------
InitConn == [ver |-> 0, pc |-> "free", req |-> FALSE, fl |-> {}, ret |-> "OK",
             mask |-> {}, etag |-> 0, act |-> {}, tset |-> {},
             nodes |-> [e \in Ev |-> 0], rdy |-> {}, fd |-> FALSE]

\* After CoServer::run_server: the pool expanded (ids in order on the free
\* list), the listen socket registered, the dispatcher at the top of start().
Init ==
    /\ conn = [c \in AllConn |-> InitConn]
    /\ freeList = SetToSortSeq(Conn, <)
    /\ inner = {}
    /\ phase = "top" /\ batch = {} /\ delay = <<>> /\ waitResumes = <<>>
    /\ needCont = FALSE /\ run = TRUE /\ cur = NoCur
    /\ ctlCur = 0 /\ listening = TRUE
    /\ backlog = 0 /\ accepts = 0 /\ sent = 0
    /\ rx = {} /\ hup = {} /\ full = {} /\ waiting = {} /\ tokens = {} /\ wake = FALSE
    /\ unseen = 0 /\ thirdRx = {}

Dispatcher == LoopTop \/ EpollWait \/ EventStep \/ EventsDone \/ DelayStep
              \/ ResumeStep \/ TimerBranch \/ NoTimerBranch
              \/ (\E c \in AllConn, e \in Ev : FireTimer(c, e)) \/ FireDone \/ Exec

Environment == ClientConnect \/ Stop \/ (\E t \in tokens : resume_async(t))
               \/ \E c \in Conn : ClientSend(c) \/ ClientClose(c)
                                  \/ BufferFills(c) \/ BufferDrains(c) \/ ThirdReply(c)

\* Once start() has returned (phase "exit") the worker thread is gone and
\* the clients are bounded: the system really stops there, so the runs do
\* not check for deadlock and StopCompletes says that stopping does end.
Next == Dispatcher \/ Environment

\* Weak fairness of Exec.  func_dispatcher always has an outcome, so Exec is
\* enabled exactly when a connection is being dispatched; WF_vars(Exec) is
\* written out with that enabling condition, which TLC evaluates far faster
\* than ENABLED of the composed segment operators.
ExecFair == []<>(cur = NoCur) \/ []<><<Exec>>_vars

\* The dispatcher thread always makes progress; a due timer is eventually
\* processed and an idle pass eventually lets the loop return to epoll_wait
\* (process_timer runs whenever find_timer says a node is due, and epoll_wait
\* waits at most until then); the third-party thread eventually resumes
\* what it was handed.
Fairness ==
    /\ ExecFair /\ WF_vars(LoopTop) /\ WF_vars(EpollWait) /\ WF_vars(EventStep)
    /\ WF_vars(EventsDone) /\ WF_vars(DelayStep) /\ WF_vars(ResumeStep)
    /\ WF_vars(FireDone)
    /\ SF_vars(TimerBranch) /\ SF_vars(NoTimerBranch)
    /\ \A c \in AllConn, e \in Ev : SF_vars(FireTimer(c, e))
    /\ WF_vars(\E t \in tokens : resume_async(t))

Spec == Init /\ [][Next]_vars /\ Fairness

-----------------------------------------------------------------------------
TypeOK ==
    /\ conn \in [AllConn -> ConnRec] /\ thirdRx \subseteq Conn
    /\ freeList \in Seq(Conn) /\ inner \subseteq Conn
    /\ phase \in {"top", "wait", "events", "delay", "resumes", "timers", "fire", "exit"}
    /\ delay \in Seq(Conn \X Nat) /\ waitResumes \in Seq(Conn \X Nat)
    /\ needCont \in BOOLEAN /\ run \in BOOLEAN /\ listening \in BOOLEAN
    /\ cur \in {NoCur} \cup [c: AllConn, src: {"event", "delay", "resume", "timer"}]
    /\ ctlCur \in 0..MaxConnections /\ backlog \in 0..1
    /\ {rx, hup, full, waiting} \subseteq SUBSET Conn
    /\ tokens \subseteq Conn \X Nat /\ wake \in BOOLEAN
    /\ unseen \in 0..Len(waitResumes)

\* The timer multimap agrees with the events' m_flagTimerSet: an event has
\* exactly one node while its flag is set and none otherwise.  reset()
\* clears the flag without erasing the node and process_timer dispatches a
\* node with no version check, so a node left behind by a reset would time
\* out whatever request the connection serves next.
TimerConsistent ==
    \A c \in AllConn, e \in Ev :
        conn[c].nodes[e] = IF e \in conn[c].tset THEN 1 ELSE 0

Queued(c) == \E i \in DOMAIN delay : delay[i] = <<c, conn[c].ver>>

PendingEvent(c, bit) ==
    \/ bit \in conn[c].rdy
    \/ \E i \in batch : i.k = "conn" /\ i.c = c /\ bit \in i.ev
                        /\ ~i.chk /\ i.v = conn[c].ver

\* No lost wake-up: a connection whose coroutine waits for its socket (idle
\* in keepalive, parked in recv or in send) is registered in epoll under its
\* CURRENT version, and once the peer has made the socket ready the event is
\* pending for the dispatcher.  It depends on free_request_connection doing
\* reset(true) before modify_connection, on modify_connection re-tagging an
\* unchanged mask when the version moved, and on edge-triggered re-polling.
NoLostWakeup ==
    \A c \in Conn :
        (Connected(c) /\ cur.c \notin {c, BlockOf(c)} /\ ~Queued(c)) =>
          /\ conn[c].pc \in {"idle", "read"} =>
                /\ "IN" \in conn[c].mask /\ conn[c].etag = conn[c].ver
                /\ c \in rx => PendingEvent(c, "IN")
          /\ conn[c].pc = "write" =>
                /\ "OUT" \in conn[c].mask /\ conn[c].etag = conn[c].ver
                /\ c \notin full => PendingEvent(c, "OUT")
          /\ conn[c].pc = "third" =>
                LET b == BlockOf(c)
                IN  /\ "IN" \in conn[b].mask /\ "R" \in conn[b].act
                    /\ c \in thirdRx => PendingEvent(b, "IN")

\* A dispatch never runs a coroutine that is not waiting for it: no
\* connection without a handler is ever run, and an m_waitResumes entry
\* (CoDispatcher::resume_async) only ever resumes the very yield that
\* handed out its coroutine data -- never a later request of a reused
\* connection, which the (connection, version) pair has to rule out.  A
\* block connection, whose version never changes, is only ever dispatched
\* while its origin's coroutine waits in yield_thirdsocket.
DispatchTargetsYield ==
    /\ \A c \in Conn : conn[c].pc # "crashed"
    /\ cur.src = "resume" => conn[cur.c].pc = "async"
    /\ cur.c \in Blocks => conn[Origin(cur.c)].pc = "third"

\* A block connection is armed only during a wait in yield_thirdsocket:
\* at any other time it has no epoll registration, no timer node and no
\* flag, and its origin no m_flagUseBlockConn.  reset_block clears only the
\* flags and events, and the block's version never moves, so a registration
\* or node left behind would later resume whatever the origin's coroutine
\* is doing then -- or start it with the block's NULL handler.
ShadowIdle ==
    \A c \in Conn :
        conn[c].pc # "third" =>
            /\ conn[BlockOf(c)].mask = {} /\ conn[BlockOf(c)].nodes["read"] = 0
            /\ conn[BlockOf(c)].fl = {} /\ "useBlock" \notin conn[c].fl

\* The free list holds each connection at most once, exactly the ones with
\* no handler, none of them counted in m_innerSockets: otherwise two
\* clients would be served on one CoConnection.
FreeListSound ==
    /\ IsInjective(freeList)
    /\ ToSet(freeList) = {c \in Conn : conn[c].pc = "free"}
    /\ ToSet(freeList) \cap inner = {}

\* resume_async writes a wake-up byte only when m_waitResumes was empty,
\* relying on the dispatcher to drain a non-empty queue anyway.  Whenever
\* the dispatcher blocks in epoll_wait with coroutine data still queued, a
\* byte is pending on the socketpair, so the wait ends at once instead of
\* running into the timer timeout.
ResumeNeverStranded ==
    (phase = "wait" /\ Idle /\ waitResumes # <<>>) => wake

\* Every request the server has started is eventually finished (answered
\* or its connection closed): no coroutine stays parked forever, whatever
\* the clients do, because every park is bounded by a timer that resumes
\* it through event_exception.
RequestsFinish ==
    \A c \in Conn : conn[c].req ~> ~conn[c].req

\* Once CoDispatcher::stop clears m_run, start() eventually returns: the
\* pending-EOF pass of close_all_connection closes every open connection
\* through event_exception, and with them every timer node goes away, so
\* the loop's "m_run || !m_timer->empty()" condition becomes false.
StopCompletes == ~run ~> phase = "exit"

=============================================================================
