# TLA+ models of CoServer

CoServer (`src/coserver`) is a C++ network server framework.

- **Threads.** Each worker thread owns a `CoCycle`: a connection pool, an epoll instance, a timer multimap and a dispatcher loop.
- **Client connections.** Every client connection runs on a shared-stack coroutine. The hooked syscalls (`recv`, `send`, `accept`, `sleep`, ...) turn blocking calls into a `swap_out` and a later resume.
- **Resumes.** A coroutine is resumed from one of three sources:
  - an epoll event, tagged with `(connection id, m_version)`;
  - a due timer;
  - a queue: `m_delayConnections` for new connections and the shutdown pass, or `m_waitResumes`, which other threads fill with `CoDispatcher::resume_async` and signal over a socketpair.
- **Failures.** Time-outs, peer closes and shutdown set flags on the connection. `CoCallbackEvent::event_exception` turns these flags into a quick finish of the coroutine or into closing the connection.

## Inventory

Every part of the source appears under `components` in `PROJECT.json`, with its status.

| part | source | status |
|---|---|---|
| connection pool | `core/co_connection.*` | partly (`Worker`) |
| epoll wrapper | `base/co_epoll.*` | partly (`Worker`) |
| timer | `base/co_timer.*` | modelled (`Worker`) |
| dispatcher loop | `core/co_dispatcher.*` | partly (`Worker`) |
| event exception handling | `core/co_callback_event.cpp`, `core/co_event.*` | partly (`Worker`; `Upstream`: the sub-request cascade and the idle upstream branch) |
| request lifecycle | `core/co_callback_request.cpp`, `core/co_request.*` | modelled (`Worker`) |
| listen control | `core/co_server_control.*` | modelled (`Worker`) |
| start / shutdown | `core/co_server.*`, `core/co_cycle.*` | partly (`Server`: threads, stop and join; `Worker`: one dispatcher's shutdown pass) |
| syscall hooks | `base/co_hook.cpp` | partly (`Worker`) |
| hooked mutex (CoSingle) | `core/co_single.*`, `base/co_hook.cpp` (mutex hooks) | modelled (`Single`, refines `MutexSpec`) |
| upstream, backends, WRR | `upstream/*` | partly (`WRR`: backend selection and failure accounting; `Upstream`: sub-requests, connection reuse, retries and the parent cascade) |
| coroutines | `base/co_coroutine.*` | partly (a segment is one step) |
| HTTP decoding and the read buffer | `protocol/co_protocol_http*.cpp`, `base/co_buffer.*` | partly (`Http`: the decoders, the buffer's append and erase; encoders not modelled) |
| tcp wrapper, config, log, dns | `base/*` | not modelled: I/O wrappers and data formats, no control state |

## Module `Worker` (one worker thread)

### State

`conn[c]` is the `CoConnection` of pool slot `c`. `conn[BlockOf(c)]` is its block connection (`m_blockConn`), which `expand_connections` allocates with it. The block connection hosts a third-party socket while the business handler is blocked on it. It is never `reset()`, so its `ver` stays 0. The fields of both:

| field | code |
|---|---|
| `ver` | `m_version` |
| `pc` | where the coroutine is parked: `free` (no handler), `idle` (handler `request_init`), or parked in the hooked recv, sleep, `CoDispatcher::yield`, `yield_thirdsocket` (`third`) or send |
| `req` | `m_request` is set |
| `fl` | the flags `PendingEof`, `TimedOut`, `Dying`, `ThirdFuncBlocking`, `UseBlockConn` |
| `mask`, `etag` | `m_epollCurEvents`, `m_epollCurVersion`, which is the tag epoll reports |
| `act` | the events' `m_flagActive` |
| `tset` | the events' `m_flagTimerSet` |
| `nodes[e]` | how many nodes of event `e` are in the timer multimap |
| `rdy` | the edge-triggered readiness epoll will report |
| `fd` | the socket is open |

The other variables:

- `freeList` is `m_freeConnections`. `inner` is `m_innerSockets`.
- `delay`, `waitResumes` and `needCont` are the dispatcher's queues and `needContinue`. `run` is `m_run`.
- `ctlCur` and `listening` are `CoServerControl::m_curConnectionSize` and `m_listening`.
- The environment: `backlog`, `rx`, `hup`, `full` and `waiting` are the clients and the socket buffers. `tokens` holds the coroutine data handed to the third-party thread. `wake` is a pending byte on the resume socketpair. `unseen` counts the pushes to `m_waitResumes` that the dispatcher thread has not yet synchronised with (reset when it reads the wake-up byte); `ResumeStep` may see the queue empty while it still holds those pushes, which is how the unsynchronised `empty()` check at `co_dispatcher.cpp:165` is modelled. `thirdRx` holds the connections whose third-party server has answered the call they are blocked on.

### Actions

The dispatcher thread's loop is split into the steps of `process_events_and_timers`:

- `LoopTop`: `start`. After `stop` this includes `close_all_connection`.
- `EpollWait`.
- `EventStep`: one entry of the epoll result. It is one of `EventSkip`, `EventRead`, `EventWrite`, `ListenEvent`, `ListenAcceptFails` or `WakeEvent`.
- `EventsDone`, `DelayStep`, `ResumeStep`.
- `TimerBranch` / `NoTimerBranch`.
- `FireTimer` / `FireDone`: `process_timer`.
- `Exec`: the whole `func_dispatcher` of one connection.

**`Exec` is one step.** A worker is one thread, so the segment from `swap_in` to the next `swap_out` can't interleave with anything the model tracks. That segment is `event_exception`, then the coroutine, then every callback it runs.

**How `Exec` is built.** The segment is composed from operators named after the C++ functions:

- `free_request_connection`, `request_init`, `read_try`, `request_process`, `request_write`, `write_try`, `write_end`;
- `modify_connection`, `del_connection`, `add_timer`, `del_timer`, `reset`, `free_connection`.

Each operator maps a *situation* (the connection record plus its peer) to the situations the code can reach. They compose in code order, including the `co_defer` blocks. These blocks run before the `co_defer_return` call.

**Environment actions:**

- `ClientConnect`, `ClientSend`, `ClientClose`;
- `BufferFills` / `BufferDrains`;
- `resume_async`, called by the third-party thread;
- `ThirdReply`: the third-party server answers a call a coroutine is blocked on, an EPOLLIN edge on its block connection. It has no fairness, because the server may never answer; the block event's timer and the request's timer bound the wait;
- `Stop`, which is `CoServer::shut_down`.

**Abstractions:**

- A request is decoded from one read.
- The business handler does one of four things:
  - returns at once;
  - sleeps (hooked `sleep` → `yield_timer`);
  - hands its coroutine data to another thread (`CoDispatcher::yield` + `resume_async`);
  - calls `recv` on a blocking third-party socket. The answer is there already, or the hook parks the coroutine on the block connection (`yield_thirdsocket`) until the answer, the block timer or the connection's own exception. A block dispatch (`block_dispatcher`) runs `event_exception` on the block connection, then swaps in the origin's coroutine.
- Whatever it does, the handler finally returns a value from `HandlerRets`, `OK` or `ERROR` in both runs. `request_process` passes that value to `request_write`, which still writes the response. `request_finalize` then keeps the connection alive on `OK` and closes it on anything else (`free_request_connection`).
- Whether a timer is due is a nondeterministic choice.
- `epoll_ctl` never fails here. The `ADD` failures of `request_read` and `request_write` (`co_callback_request.cpp:45`, `:136`) end the request with `CO_ERROR`, the same close path a client hang-up takes. Upstream's `EpollCanFail` models these failures where they lead somewhere new.

### Properties

| property | kind | what it says |
|---|---|---|
| `TypeOK` | invariant | types. `m_curConnectionSize` stays within `0..MaxConnections` |
| `TimerConsistent` | invariant | the timer map holds a node for an event exactly when `m_flagTimerSet` is set. `reset()` clears the flag without erasing the node, and `process_timer` dispatches with no version check |
| `NoLostWakeup` | invariant | a connection waiting for a request or for send space is registered in epoll under its *current* version, and readiness that arrived is pending. Otherwise the edge-triggered event is dropped as stale or never comes. The same holds for a block connection during a third-party wait |
| `DispatchTargetsYield` | invariant | the dispatcher never runs a free connection's NULL handler. A `m_waitResumes` entry only resumes a coroutine parked in `CoDispatcher::yield`, and a block connection is only dispatched while its origin waits in `yield_thirdsocket` |
| `ShadowIdle` | invariant | outside a wait in `yield_thirdsocket`, a block connection has no epoll registration, no timer node and no flag. `reset_block` clears only flags and events, and the block's version never moves, so anything left behind would later resume the origin's coroutine wherever it is |
| `ResumeNeverStranded` | invariant | whenever the thread blocks in `epoll_wait` with `m_waitResumes` non-empty, a wake-up byte is pending |
| `FreeListSound` | invariant | `m_freeConnections` holds exactly the free connections, each once, and none is in `m_innerSockets` |
| `RequestsFinish` | liveness | every started request finishes: it is answered or its connection closed |
| `StopCompletes` | liveness | after `stop()`, `start()` returns |

### Runs

| run | cfg | result |
|---|---|---|
| `worker_safety` | `MC_Worker.cfg` | pass, about 2.5M states, ~70 s |
| `worker_liveness` | `MC_Worker_live.cfg` | pass, 33k states, ~70 s |

The runs use these bounds:

- `worker_safety`: two pool connections, a listen limit of 2 and 3 clients, so the limit is reached and the listen socket is removed and re-added. Up to 2 requests, all four business behaviours, every accept succeeding, and `stop` at any point.
- `worker_liveness`: one connection, with accepts that may fail. Liveness checking of the two-connection graph takes more than 6 minutes.

Why these bounds are enough:

- Two connections are enough for a freed connection to be reused while stale epoll entries, timers or queue entries of its previous life are still around.
- Two requests are enough for a keepalive reuse of the same connection.

`MC_Worker_acceptfail.cfg` is kept as a reproduction but is not a listed run: it needs `fcntl(F_SETFL)` to fail on a freshly accepted socket, which does not happen in practice. With it, TLC finds `FreeListSound` violated. `get_connection(fd)` leaves the accepted socket on the free head when `set_nonblock` fails (`core/co_connection.cpp:230`). At shutdown, `close_all_connection` finds that free connection with a socket, and `event_exception` frees it a second time. The connection is then on `m_freeConnections` twice.

### Fairness

Fairness is weak on every dispatcher step. One thread runs the loop and never blocks except in `epoll_wait`, whose wait is bounded by the next timer.

Three conditions are strong:

- **`TimerBranch` / `NoTimerBranch`.** Time passes, so a due timer is eventually seen and an idle loop eventually gets back to `epoll_wait`.
- **Each `FireTimer(c, e)`.** A node that stays in the map eventually expires.
- **`resume_async`.** This is weak fairness: the third-party thread eventually resumes what it was handed.

The weak fairness of `Exec` is written out as `[]<>(cur = NoCur) \/ []<><<Exec>>_vars`. `func_dispatcher` always has an outcome, so `Exec` is enabled exactly when `cur # NoCur`. Written this way, TLC doesn't have to evaluate `ENABLED` of the composed operators.

Deadlock is not checked. After `start()` returns, the worker really stops, and `StopCompletes` states that it does.

### Mutants

Every property of a passing run has a mutant in `PROJECT.json`: a plausible bug in the code it is about. Each mutant is defined right before the definition it replaces.

| mutant | property it breaks |
|---|---|
| registering EPOLLIN before `reset(true)` | `NoLostWakeup` |
| `del_timer` without the flag check | `TimerConsistent`, and `TypeOK` (a node count below 0) |
| the resume queue without the version check | `DispatchTargetsYield` |
| `resume_async` writing the byte on the wrong condition | `ResumeNeverStranded` |
| `close_all_connection` without the socket check | `FreeListSound` |
| `yield_thirdsocket` resuming without deleting the block event from epoll | `ShadowIdle` |
| a sleep without its timer | `RequestsFinish` |
| `process_timer` not erasing the node | `StopCompletes` |

## Modules `MutexSpec` and `Single` (the hooked mutex)

**Build flag.** The hooked `pthread_mutex_lock` and `pthread_mutex_unlock` (`base/co_hook.cpp:498-571`) are compiled only under `CO_HOOK_MUTEX`. Nothing under `src/` defines it, so the model describes a build that enables it. `CO_MUTEX_SLEEP` (plain retry sleeps, no queue) is not modelled.

**How it works in the code.**

- A coroutine that finds the mutex busy (`trylock` returns `EBUSY`) calls `CoSingle::add_block_mutex`.
- Under a spinlock, that call queues `(connection, m_version)` in the mutex's FIFO `m_blockMutexs[mutex]`, unless the `(thread, connId)` key is already in `m_threadConnectionIds`. It then registers the key.
- It then sleeps in `yield_timer(m_mutexRetryTime)`, erases the key and tries the lock again.
- The hooked unlock calls `free_block_mutex`. It pops entries until one whose key is registered. That entry goes to the owning thread's `m_waitSingles` (`resume_single_async`).
- That thread's dispatcher resumes the entry only if `find_block_mutex` still finds the key and `funcResumeProcess` finds the version current.
- A thread with no `CoCycle` uses the real pthread calls and never calls `free_block_mutex`.

**`MutexSpec`** is the abstract mutex: `owner[m]` and the set `waiting` of callers inside `pthread_mutex_lock`, with `Request`, `Acquire` and `Release`. Its fairness says that a free mutex somebody waits for is eventually taken, and that holders release.

**`Single`** state:

| variable | code |
|---|---|
| `holder[m]` | the pthread mutex's owner |
| `pc[c]`, `want[c]` | where connection `c`'s coroutine is in the lock/unlock path, and which mutex |
| `ver[c]` | `m_version`; it is also the request count (`End` is `reset`) |
| `blockMutexs[m]`, `ids` | `m_blockMutexs`, `m_threadConnectionIds` |
| `mutexInfo[c]` | the entry `free_block_mutex` picked, between the spinlock section and `resume_single_async` |
| `waitSingles[t]`, `cur[t]` | worker thread `t`'s `m_waitSingles`, and the coroutine it is running |
| `timerSet[c]`, `retries[c]` | the sleep event's timer, and how many retry expiries the current wait has seen |
| `fpc`, `fwant`, `frounds` | the foreign thread |

**Actions.**

- Each action is one stretch of a coroutine between swaps, or one dispatcher step of an idle thread.
- `TryLockOk` and `TryLockBusy` model the trylock. `AddBlock` (`add_block_mutex` up to the swap out) and `Erase` (after it) model the wait.
- `Unlock`, `FreeBlock` and `ResumeSingle` model the unlock path.
- `CsSleep` is a hooked sleep while holding the mutex. `End` is `reset`, which bumps the version.
- `Fire` is the timer expiry (the sleep pre-handler plus `func_dispatcher`). `DrainSingleResume` and `DrainSingleDrop` are the `m_waitSingles` drain.
- `ForeignRequest`, `ForeignLock` and `ForeignUnlock` model the thread with no `CoCycle`.

**Refinement.** `Abstract == INSTANCE MutexSpec WITH owner <- holder, waiting <- Waiting`. A coroutine is waiting while `pc` is in `lock`, `add`, `parked` or `erase`. `MutexRefinement == Abstract!Spec` is checked as a property.

**Properties.**

| property | kind | what it says |
|---|---|---|
| `TypeOK` | invariant | types, including that a thread only ever runs one of its own coroutines (an entry pushed to the wrong thread's `m_waitSingles` breaks it) |
| `SingleResumesOnlyBlocked` | action | the `m_waitSingles` drain only resumes a coroutine parked in `add_block_mutex`, never one that its retry timer already woke |
| `MutexRefinement` | refinement | mutual exclusion and the abstract mutex's progress |
| `WaiterAcquires` | liveness | every coroutine calling `pthread_mutex_lock` eventually holds the mutex |
| `PickedIsCurrent` | action | the entry `free_block_mutex` picks belongs to the waiter's current request |

**Runs.**

| run | cfg | result |
|---|---|---|
| `single_liveness` | `MC_Single_live.cfg` | pass, 19,210 states, all four properties |
| `single_stale_handoff` | `MC_Single_PickedIsCurrent.cfg` | **violation** of `PickedIsCurrent` |

**Bounds.**

- Three connections on two threads: two share a thread, so a busy trylock can be caused by a coroutine of the same thread. Connection 3 makes two requests, so its FIFO entries can outlive its version.
- One mutex. The key has no mutex in it, so a second mutex only adds spurious wakes.
- `MaxRetries = 1` bounds how many retry-timer expiries a waiter sees while the mutex stays held. It is the model's bound on how long a holder keeps the mutex. Without it, the FIFO grows without limit, because every retry queues the waiter again (see the finding).
- The safety trace of `single_stale_handoff` uses the three connections; the run `single_liveness`, which checks every other property, has two connections on one worker thread, the second making two requests, and a foreign thread locking twice. A waiter can then be blocked by a holder on its own thread, by a stale entry and by a foreign holder that never calls `free_block_mutex`. Three connections with the foreign thread take more than 7 minutes to check for liveness.

**Fairness.**

- A running coroutine runs until it swaps out, so its steps are weakly fair.
- An idle thread runs `process_timer` and the drain on every loop pass, but it is idle only between coroutines, so those steps are strongly fair.
- The foreign thread eventually unlocks, and eventually gets a free mutex.

**Finding.** The divergence is from spec.md §4.7. It only delays waiters until their 100 ms retry timer, which is why `WaiterAcquires` still holds.

- **Stale hand-off.** `free_block_mutex` checks only the key, not the queued version (`co_single.cpp:96`). Connection 3's entry from its first request is picked while it waits as its second request. The dispatcher drops that resume as stale, so the unlock wakes nobody.
- **Where the stale entries come from.** After each retry-timer wake, the key is erased but the FIFO entry is not (`co_single.cpp:71`). The next `add_block_mutex` queues the waiter again, so a waiter sits in the FIFO once per retry, where spec.md describes a de-duplicated queue.

**Mutants.**

| mutant | property it breaks |
|---|---|
| the drain without `find_block_mutex` | `SingleResumesOnlyBlocked` |
| `free_block_mutex` resuming even when the pop loop found no registered entry | `TypeOK` |
| `add_block_mutex` without the retry timer | `MutexRefinement` |
| a busy `trylock` spinning in place | `WaiterAcquires` |

## Module `WRR` (upstream backend selection)

**What it models.** `CoBackendStrategyWRR` and `CoBackendWRR` (`upstream/co_upstream_backend.cpp`), driven by `CoUpstream::get_connection` (`GetBackend`) and `free_connection` (`ReleaseOk`, `ReleaseFailed`).

- `add_backend` and `init` are constant definitions (`confWeight`, `failCheck`, `confFailNum`, `m_weighted`).
- `CoBackendWRR::m_weight` is the constant 0, because nothing assigns it.
- The loops of `choose_one_weight` and `choose_one` are `RECURSIVE` operators (`weight_loop`, `rotate_loop`). They work on a record of the fields the loop changes, so `avaliable()`'s side effect inside the loop (recovering a down backend) is kept.

**Time is abstract.**

- `errWin` says whether `m_errFirstTimestamp` is unset (0), inside the window or past it.
- `WindowEnds` and `DownEnds` let `m_confFailTime` pass.
- The ghost `winCount` counts failures in the current window.
- The 32-bit truncation of `(int32_t)(timestamp - 0)` gives either outcome while the window is unset.

**Properties.**

| property | kind | what it says |
|---|---|---|
| `SelectionMatchesReference` | invariant | from every reachable state, the loop chooses the backend a loop-free smooth-WRR definition (`RefBest`, `RefCw`) chooses, and leaves its current weights |
| `FailureLowersWeight` | action | a reported failure lowers the effective weight |
| `DownOnlyOnBurst` | action | a backend goes down only after `m_confFailNum` failures within one window |

**Runs.**

| run | cfg | result |
|---|---|---|
| `wrr_selection` | `MC_WRR.cfg` | pass, about 3.0M states, ~1:30 |
| `wrr_failure_penalty` | `MC_WRR_FailureLowersWeight.cfg` | **violation**: code bug, `m_weight` never assigned (`co_upstream_backend.cpp:74`) |
| `wrr_error_window` | `MC_WRR_DownOnlyOnBurst.cfg` | **violation**: code bug, two failures in different windows mark a backend down (`co_upstream_backend.cpp:45`) |

**Bounds.** Three backends, configured with weights 2, 0 and 1. `add_backend` raises the 0 to 1. Two connections may be in flight, and the failure threshold is 2. Every selection path is exercised: ties, an unavailable backend skipped, and a backend recovered inside the loop.

**Dead branch.** `m_weighted` is true for any two or more backends, so `choose_one` runs only with a single backend and is not exercised by these runs. The model has no fairness: the runs check safety only.

**Mutants.**

| mutant | property it breaks |
|---|---|
| `>=` in the best-backend comparison | `SelectionMatchesReference` |

## Module `Server` (worker threads start and stop)

**What it models.**

- `CoServer::run_server` creates the workers in index order (`Spawn`). With `useCurThreadServer = 1`, the last worker runs on the calling thread.
- Each worker's `run_server_thread` builds its `CoCycle` and publishes its dispatcher in `m_workerDispatchers[index]` (`Publish`).
- Then `CoDispatcher::start` sets `m_run = true` (`Start`).
- A loop pass that sees `m_run` false leaves once the timers are empty (`Exit`). That this happens is `Worker`'s `StopCompletes`.
- `shut_down`, called after `run_server` returns (as in `test_coserver/server_tutorial.cpp`), waits for each dispatcher pointer and calls `stop()` (`Stop`). It then clears the vector (`StopsDone`) and joins the threads it created (`Join`, `JoinsDone`).

**Fairness.** Every thread is weakly fair. The OS schedules runnable threads, and the wait loop polls every millisecond.

**Properties.**

| property | kind | what it says |
|---|---|---|
| `TypeOK` | invariant | types; the two loop indices stay within the vector |
| `ShutdownAfterStartCompletes` | liveness | a `shut_down` that starts when every dispatcher is in its loop returns |
| `ShutdownCompletes` | liveness | every `shut_down` returns |

**Runs.**

| run | cfg | result |
|---|---|---|
| `server_shutdown` | `MC_Server.cfg` | pass, three workers, both `useCurThreadServer` values, 341 states. `ShutdownAfterStartCompletes` says something only for `useCurThreadServer = 0`: with 1, `run_server` never returns, so `shut_down` never starts and the property holds vacuously. |
| `server_shutdown_race` | `MC_Server_race.cfg` | **violation** of `ShutdownCompletes` |

**Finding.** The dispatcher is published (`co_server.cpp:138`) before `start()` sets `m_run = true` (`co_dispatcher.cpp:98`). A `shut_down` in between calls `stop()`, and `start()` then overwrites `m_run` with `true`. That worker never leaves its loop, and `join()` blocks forever. The wait loop at `co_server.cpp:148` exists precisely so that an early `shut_down` is safe.

**Mutants.**

| mutant | property it breaks |
|---|---|
| the `run_server` loop running to `i <= W` | `TypeOK` |
| the dispatcher loop setting `m_run` again instead of leaving | `ShutdownAfterStartCompletes` |

**Not modelled.** With `useCurThreadServer = 1`, `run_server` does not return, because nothing stops the dispatcher it runs. The model leaves the calling thread there. The polling of `m_workerDispatchers[i]` is a data race. The model reads it atomically.

## Module `Upstream` (sub-requests and the upstream connection pool)

**How it works in the code.** A client request's handler calls `add_upstream` once per sub-request. That call does four things:

- it takes an upstream connection (`CoUpstream::get_connection`: the head of the reuse list, or, below `m_maxConnections`, a new one from the pool);
- it creates the child request;
- it registers the child in the parent's `m_upstreamRequests` and increments `m_count`;
- it queues the connection in `m_delayConnections`.

`run_upstreams` then swaps the parent out. The dispatcher starts each child's coroutine at `upstream_init`, then `upstream_write`, `upstream_read`, `upstream_process` and `upstream_finalize`. Each of these can swap out in a hooked `connect`, `send` or `recv` with a timer armed.

`upstream_finalize` either retries the child on a new connection (`retry_upstream`) or ends it (`upstream_finalize_request`). The child that brings `m_count` back to 1 queues the parent. If the parent's timer fires or its client hangs up first, `event_exception` marks every child's connection dying and parent-dying, queues them, and keeps the parent out until the last child ends.

**State.**

| variable | code |
|---|---|
| `ppc`, `pdying`, `ptimer`, `peof`, `pver` | the parent: before `run_upstreams`, swapped out in it, or finished; `m_flagDying`; its request timer; `m_flagPendingEof`; its connection's `m_version` |
| `count`, `subs` | the parent's `m_count` and `m_upstreamRequests` |
| `cpc[ch]`, `cconn[ch]`, `retries[ch]` | child `ch`: not added, failed to get a connection, queued, waiting in a hook, or finalized; its `m_connection`; `m_retryTimes` |
| `conns[c]` | upstream connection `c`: free, busy or idle; `m_version`; `m_flagDying`; `m_flagParentDying`; a connected socket; its keepalive timer; `m_requestCount` |
| `reuse`, `curSize` | `m_reuseConnections` of the one backend, and `m_curConnectionSize` |
| `delay` | `m_delayConnections`: `(connection, version)` pairs, where the parent's connection is `Parent` |
| `presumes`, `stray` | ghosts: how often the parent was swapped in, and whether handler code ran after `upstream_finalize` |

**Actions.** A child's coroutine runs from a swap-in to its next swap-out or to `upstream_finalize` in one step.

- The operators `upstream_init`, `upstream_write`, `upstream_read` and `resume` give the set of ways that stretch can end: a wait, `ok`, `err`, or `err2`.
- `err2` is a failing deferred `EPOLL_EVENTS_DEL`, only with `EpollCanFail`.
- The parent's steps are `AddUpstream`, `RunUpstreams`, `DispatchParent`, `ParentTimeout` and `ParentHangup`.
- The dispatcher's steps are `DispatchStale` (the `m_version` test of `funcResumeProcess`), `DispatchChild`, `ChildReady` (an epoll event), `ChildException` (a wait's timer) and `EarlyStart`. `EarlyStart` is the keepalive timer or a hang-up of a reused connection, which fires before `upstream_init` deleted it.
- `IdleExpire` is the same for a connection in the reuse list.
- `free_connection` is `CoUpstream::free_connection`:
  - a connection that fails, or that reached `m_connectionMaxRequest`, is closed;
  - any other connection is reset and pushed to the front of the reuse list.

**Properties.**

| property | kind | what it says |
|---|---|---|
| `TypeOK` | invariant | types; `m_retryTimes` never exceeds `m_retryMaxnum` |
| `ParentOutlivesChildren` | invariant | once the parent has finished, no child is queued, waiting or retrying |
| `ParentResumedOnce` | invariant | the parent is swapped in at most once, although its last child, its timer and its client's hang-up can all reach it |
| `ConnectionsAccounted` | invariant | `m_curConnectionSize` is the number of connections taken and not closed, at most `m_maxConnections`; the reuse list holds each idle connection exactly once |
| `DelayTargetsLive` | invariant | a queued entry whose version is current names a busy connection of a live child |
| `ParentResumed` | liveness | a parent that swaps out in `run_upstreams` is swapped back in |
| `NoStepAfterFinalize` | invariant | no handler code runs for a child after `upstream_finalize` ended or retried it |

**Runs.**

| run | cfg | result |
|---|---|---|
| `upstream_safety` | `MC_Upstream.cfg` | pass, 75,238 states, ~10 s |
| `upstream_epoll_failure` | `MC_Upstream_epoll.cfg` | **violation** of `NoStepAfterFinalize` |

**Bounds.** The model uses two children, three pool slots, `m_maxConnections = 2`, `m_retryMaxnum = 1` and `m_connectionMaxRequest = 2`. These values make every interesting case happen:

- a child can fail for lack of a connection;
- a retry can find the pool full;
- a kept-alive connection can be reused or can reach its request limit;
- the cascade meets two children in either order.

The initial states include every set of up to two connections already kept alive by earlier requests, in every order of the reuse list.

**Fairness.** The fairness assumptions, and why the code justifies each:

- The handler runs to its yield (`AddUpstream`, `RunUpstreams`).
- The dispatcher drains `m_delayConnections` on every loop pass.
- Every hooked wait has a timer, so a waiting child is eventually swapped in (`ChildException`).
- The parent's request timer fires.

No answer from a server, and no hang-up, is assumed. Once the request is over the worker sits in `epoll_wait`, so the cfg does not check deadlock.

**Finding.** Look at `upstream_write` (`co_callback_upstream.cpp:63-69`):

- The deferred cleanup calls `upstream_finalize(request, CO_ERROR)` when `EPOLL_EVENTS_DEL` fails. Its `return` only leaves the lambda.
- `co_use_defer_return()` is declared first, so its function runs last. That function is `upstream_read(connection)`, or `upstream_finalize` again after an error.
- It then runs on a request that was deleted or retried, and on a connection that was freed or handed on. The trace has a reused connection whose keepalive fires before `upstream_init`.
- `upstream_read`'s own deferred DEL only logs, which matches what spec.md says a multiplexer control failure does.

**Mutants.**

| mutant | property it breaks |
|---|---|
| `upstream_finalize` retrying without the `m_retryMaxnum` test | `TypeOK` |
| every child queuing the parent, not only the one that brings `m_count` to 1 | `ParentOutlivesChildren` |
| `funcResumeProcess` without the version test for the parent | `ParentResumedOnce` |
| `free_connection`'s `CO_EXCEPTION` branch without the reuse-list scan | `ConnectionsAccounted` |
| `reset()` without the `m_version` increment | `DelayTargetsLive` |
| the parent queued at `m_count == 0` | `ParentResumed` |

**Not modelled.**

- Protocol encoding and decoding are abstracted to their `ok` and `err` results.
- There is one upstream and one backend; backend choice is `WRR`.
- The age limit and detached sub-requests are left out.
- The parent's own `request_write` after the resume is taken as one step.

## Module `Http` (the HTTP decoders and the read buffer)

`Http` models two incremental decoders:

- `CoProtocolHttpServer::decode`: the requests that `CoCallbackRequest::request_read` reads;
- `CoProtocolHttpClient::decode`: the responses that `upstream_read` reads.

It also models the line parsers they call (`parse_startline`, `parse_header`, `parse_content`, `parse_content_chunked`) and the two `CoBuffer` operations on the read path (`append`, `erase`).

**State.** Every variable is indexed by the side (`srv` or `cli`):

- `wire`: the bytes in the socket.
- `buf`: the `CoBuffer`.
- `msg`: the message's parse state. It is `m_parseStatus`, `m_contentRemain`, `m_contentChunked`, the start line, the Content-Length and Transfer-Encoding headers, and the body.
- `pc`: whether the connection is reading, processing a complete message, or has failed.
- `sent` / `done`: the messages sent by the peer and answered.

**Actions.**

- `Send(s)`: the peer writes its next message once the previous one was answered.
- `Read(s, k)`: a read returns any `k` of the bytes waiting, whatever the segmentation; the whole buffer is then decoded. The result is `CO_OK`, which processes the message; `CO_AGAIN`, which reads again; or `CO_ERROR`.
- `Answer(s)`: the response is written. The buffer is reset, which is what `request_write` does at `co_callback_request.cpp:143`, and the parser is fresh for the next message.

**Bytes.** Bytes are abstracted to what the parsers tell apart:

- `CR`, `LF` and a body byte;
- one symbol for the text of each kind of line.

The parsers look at a line only once its LF has arrived, and then only at its first character. A read that ends inside a line's text therefore behaves like one that ends just before its CR.

**Run `http_split_crlf`** (`MC_Http.cfg`, violation) checks `DecodedAsSent`:

- The property: whenever a message is handed to processing, its start line and body are those the peer sent.
- The instance: two requests (one with `Content-Length: 1`, one without a body) and one chunked response.
- What TLC finds, at depth 3: a read that ends just after the CR of the blank line that closes the headers.
- Why it goes wrong: the header loop (`co_protocol_http_server.cpp:131`, and `co_protocol_http_client.cpp:124` on the client side) tests the first byte of the next line even though `parse_header` found no LF. So it switches to `eContent` with the CR unparsed, and the CR and LF become body bytes.
- Why tests miss it: a test that writes each request in one `send` never splits there. TCP segmentation, or the 4096-byte read boundary, can.

**Not modelled here:**

- peers that close or pipeline;
- the `HTTP_MAX_HEADER_LEN` limit;
- header names other than the two the decoder acts on;
- the encoders.

A chunked body on the wire ends with the last chunk `0` CR LF and the empty line CR LF after it. `parse_content_chunked` waits for those two bytes after every chunk size, including the last, so a well-formed response completes only when they have arrived.

The body sizes are 0 and 1. Together with reads of every length, they reach the branches of `parse_content` and `parse_content_chunked` that the decoders take on well-formed messages:
- a chunk split across reads;
- a chunk complete in one read;
- the last chunk.

The client side shows the same fault. A read that ends after the blank line's CR leaves `CR LF 1 CR LF ...` for `parse_content_chunked`. That parser reads `CR LF` as an empty size line, which counts as 0, so the response completes with an empty body. The error branches (a size line without a CR, a non-hex digit) are reached only on malformed input, which the peers here never send. The chunk-size `int32` overflow (`co_protocol_http.cpp:191`) needs sizes above 2^31, so it is listed as a hazard with no property.

## Not modelled yet, and why

- **The write side and the connect phase of third-party sockets, and the `select` hook.** `Worker` models the read wait, and the others take the same path through `yield_thirdsocket`. The `select` hook is compiled only with `CO_HOOK_SELECT`, which `src/` never defines.
- **How `yield_thirdsocket` classifies its result.** The model doesn't track the result, because the business handler returns either way. Note the dead branch, though:
  - A block timeout dispatches the block connection through `event_exception`, which sets `m_flagDying` whenever `m_flagTimedOut` is set.
  - The `m_flagDying` test comes first, so the `CO_TIMEOUT` branch (`co_dispatcher.cpp:361`) is never taken, and a timed-out third-party `recv` returns -1 without the hook setting `errno = EAGAIN`. spec.md describes a timeout / error / success classification.
  - No run is spent on it, because the caller's view depends on the errno left from the first attempt.
- **Detached sub-requests (`add_upstream_detach`) and the upstream age limit (`m_connectionMaxTime`).** The first has no parent to wait for; the second is a wall-clock test that only adds one more reason to close a connection.
- **The blocking fallback of the hooked lock** on a `trylock` error other than `EBUSY` (`co_hook.cpp:536`). The model's mutexes are normal ones, which never report such errors.
- **Several worker threads.** Needed for the `static` lambda in `process_events_and_timers` (`co_dispatcher.cpp:140`). It captures the first thread's `needContinue`.
- **The data race on `m_waitResumes.empty()`** is modelled only as a stale read: `ResumeStep` may see the queue empty while it still holds the pushes the dispatcher has not synchronised with (`unseen`, reset when the wake-up byte is read). Torn reads inside `std::queue` are out of TLC's reach.
- **Version wrap-around after 2^32 reuses.** Out of reach of any bound.
- **HTTP encoding, the `HTTP_MAX_HEADER_LEN` check, header names and values, configuration and logging.** Data transformations with no control state the properties tell apart; `Http` keeps only the bytes the decoders branch on.

## Plan

1. **`Worker` (done):** the single-worker core above.
2. **`Shutdown` extension:** the listen connection and the resume socketpair connections in the pool. Close them during `close_all_connection` and check that `resume_async` never writes through a freed or reused connection.
3. **`Single` (done)**, refining `MutexSpec`.
4. **`Upstream` (done):** sub-requests, the upstream connection pool and `event_exception`'s upstream-children branch. Next: a second request sharing the pool, and detached sub-requests.
5. **`WRR` (done).**
6. **`Server` (done):** the start-up race between `shut_down` and `start`.
7. **`Dispatchers`:** two worker threads composed, exposing the shared static lambda.
8. **`Http` (started):** the decoders; next: pipelined requests and the buffer reset in `request_write`.
