------------------------------- MODULE Single -------------------------------
(***************************************************************************)
(* The hooked pthread_mutex_lock / pthread_mutex_unlock of base/co_hook.cpp *)
(* (the CO_HOOK_MUTEX build without CO_MUTEX_SLEEP), the Block-Coordinator  *)
(* CoSingle (core/co_single.cpp) and the m_waitSingles queue of each        *)
(* worker's CoDispatcher.                                                   *)
(*                                                                          *)
(* Coroutines of several worker threads contend on process-wide mutexes.    *)
(* A worker thread runs one coroutine at a time (cur); everything a         *)
(* coroutine does between two swaps is a run of steps of that thread, and   *)
(* the steps of other threads interleave with it at every spinlock or       *)
(* mutex operation.  A foreign thread, which has no CoCycle, locks and      *)
(* unlocks the same mutexes through the real, unhooked calls.               *)
(***************************************************************************)
EXTENDS Integers, Sequences, FiniteSets

CONSTANTS Coro,        \* connections (each owns one coroutine), ids > 0
          Thread,      \* worker threads
          ThreadOf,    \* ThreadOf[c]: the worker thread (CoCycle) of connection c
          Mutex,       \* mutex addresses
          MaxRounds,   \* MaxRounds[c]: requests of connection c that take a mutex
          MaxForeign,  \* lock/unlock rounds of the foreign thread
          MaxRetries   \* retry-timer expiries of one waiter while the mutex stays held

ASSUME ThreadOf \in [Coro -> Thread] /\ Coro \subseteq Nat \ {0}

NoCo == 0                    \* no coroutine running on a thread; a free mutex
Foreign == -1                \* the foreign thread, as a caller and as an owner
NoEntry == <<0, 0>>          \* free_block_mutex found nobody to resume

Entry == (Coro \X Nat)       \* a (connection, m_version) pair

Pc == {"idle",    \* no request in the mutex path
       "lock",    \* in the hooked pthread_mutex_lock, about to trylock
       "add",     \* trylock returned EBUSY: about to call add_block_mutex
       "parked",  \* swapped out in add_block_mutex's yield_timer
       "erase",   \* resumed: about to erase its id from m_threadConnectionIds
       "cs",      \* holds the mutex, running
       "sleep",   \* holds the mutex, swapped out in a hooked sleep()
       "free",    \* mutex released: about to call free_block_mutex
       "resume",  \* free_block_mutex picked mutexInfo: about to resume_single_async
       "done"}    \* pthread_mutex_unlock returned: the request ends

VARIABLES
  holder,       \* holder[m]: the owner of the real pthread mutex m
  pc, want,     \* where each coroutine is, and the mutex it locks or holds
  ver,          \* m_version of each connection: the requests it has made
  slept,        \* the current request already slept while holding its mutex
  retries,      \* retry-timer expiries of the current pthread_mutex_lock call
  timerSet,     \* m_sleepEvent->m_flagTimerSet
  blockMutexs,  \* CoSingle::m_blockMutexs: a FIFO of entries per mutex
  ids,          \* CoSingle::m_threadConnectionIds: (thread, connId) keys
  mutexInfo,    \* free_block_mutex's local mutexInfo between unlock and resume
  waitSingles,  \* CoDispatcher::m_waitSingles of each worker thread
  cur,          \* the coroutine each worker thread is running
  fpc, fwant, frounds  \* the foreign thread

vars == <<holder, pc, want, ver, slept, retries, timerSet, blockMutexs, ids,
          mutexInfo, waitSingles, cur, fpc, fwant, frounds>>

Running(c) == cur[ThreadOf[c]] = c
Idle(c) == cur[ThreadOf[c]] = NoCo

Init == /\ holder = [m \in Mutex |-> NoCo]
        /\ pc = [c \in Coro |-> "idle"]
        /\ want = [c \in Coro |-> CHOOSE m \in Mutex : TRUE]
        /\ ver = [c \in Coro |-> 0]
        /\ slept = [c \in Coro |-> FALSE]
        /\ retries = [c \in Coro |-> 0]
        /\ timerSet = [c \in Coro |-> FALSE]
        /\ blockMutexs = [m \in Mutex |-> <<>>]
        /\ ids = {}
        /\ mutexInfo = [c \in Coro |-> NoEntry]
        /\ waitSingles = [t \in Thread |-> <<>>]
        /\ cur = [t \in Thread |-> NoCo]
        /\ fpc = "out" /\ fwant = (CHOOSE m \in Mutex : TRUE) /\ frounds = 0

----------------------------------------------------------------------------
(* CoSingle *)

find_block_mutex_absent(c) == TRUE
\* find_block_mutex: is the connection's (thread, connId) key registered?
find_block_mutex(c) == c \in ids

\* The pop loop of free_block_mutex over a non-empty FIFO q: pop the front;
\* an entry whose key is not registered is dropped; stop at the first
\* registered one or when the FIFO is empty.  Returns <<rest, mutexInfo>>.
\* Only the key is checked, not the version the entry was queued with.
RECURSIVE free_scan(_)
free_scan(q) ==
  LET e == Head(q)
      found == e[1] \in ids
  IN  IF Tail(q) = <<>> THEN <<<<>>, IF found THEN e ELSE NoEntry>>
      ELSE IF found THEN <<Tail(q), e>>
      ELSE free_scan(Tail(q))

\* Worker thread t swaps coroutine c in, and CoDispatcher::yield_timer
\* returns: the sleep timer is deleted if still set, and the code after the
\* call runs.
Wake(c, t) == /\ timerSet' = [timerSet EXCEPT ![c] = FALSE]
              /\ pc' = [pc EXCEPT ![c] = IF pc[c] = "parked" THEN "erase" ELSE "cs"]
              /\ cur' = [cur EXCEPT ![t] = c]

----------------------------------------------------------------------------
(* The coroutines *)

\* A request whose handler calls pthread_mutex_lock(m) is dispatched.
Begin(c) == /\ pc[c] = "idle" /\ Idle(c) /\ ver[c] < MaxRounds[c]
            /\ \E m \in Mutex : want' = [want EXCEPT ![c] = m]
            /\ pc' = [pc EXCEPT ![c] = "lock"]
            /\ cur' = [cur EXCEPT ![ThreadOf[c]] = c]
            /\ UNCHANGED <<holder, ver, slept, retries, timerSet, blockMutexs, ids,
                           mutexInfo, waitSingles, fpc, fwant, frounds>>

\* pthread_mutex_trylock succeeds: pthread_mutex_lock returns CO_OK.
TryLockOk(c) == /\ Running(c) /\ pc[c] = "lock" /\ holder[want[c]] = NoCo
                /\ holder' = [holder EXCEPT ![want[c]] = c]
                /\ pc' = [pc EXCEPT ![c] = "cs"]
                /\ UNCHANGED <<want, ver, slept, timerSet, blockMutexs, ids,
                               mutexInfo, waitSingles, cur, fpc, fwant, frounds>>
                /\ retries' = [retries EXCEPT ![c] = 0]

TryLockBusy_blocking(c) == /\ Running(c) /\ pc[c] = "lock" /\ holder[want[c]] # NoCo
                            /\ UNCHANGED vars
\* pthread_mutex_trylock returns EBUSY (the owner may be a coroutine of the
\* same thread, which a normal mutex also reports as busy).
TryLockBusy(c) == /\ Running(c) /\ pc[c] = "lock" /\ holder[want[c]] # NoCo
                  /\ pc' = [pc EXCEPT ![c] = "add"]
                  /\ UNCHANGED <<holder, want, ver, slept, retries, timerSet, blockMutexs,
                                 ids, mutexInfo, waitSingles, cur, fpc, fwant, frounds>>

add_block_mutex_untimed(c) ==
  /\ Running(c) /\ pc[c] = "add"
  /\ IF c \notin ids
       THEN /\ blockMutexs' = [blockMutexs EXCEPT ![want[c]] = Append(@, <<c, ver[c]>>)]
            /\ ids' = ids \cup {c}
       ELSE UNCHANGED <<blockMutexs, ids>>
  /\ pc' = [pc EXCEPT ![c] = "parked"]
  /\ cur' = [cur EXCEPT ![ThreadOf[c]] = NoCo]
  /\ UNCHANGED <<holder, want, ver, slept, retries, timerSet, mutexInfo, waitSingles,
                 fpc, fwant, frounds>>
\* add_block_mutex up to the swap out: under the spinlock, queue
\* (connection, m_version) and register the key unless it is registered;
\* then yield_timer(m_mutexRetryTime) arms the sleep timer and swaps out.
add_block_mutex(c) ==
  /\ Running(c) /\ pc[c] = "add"
  /\ IF c \notin ids
       THEN /\ blockMutexs' = [blockMutexs EXCEPT ![want[c]] = Append(@, <<c, ver[c]>>)]
            /\ ids' = ids \cup {c}
       ELSE UNCHANGED <<blockMutexs, ids>>
  /\ timerSet' = [timerSet EXCEPT ![c] = TRUE]
  /\ pc' = [pc EXCEPT ![c] = "parked"]
  /\ cur' = [cur EXCEPT ![ThreadOf[c]] = NoCo]
  /\ UNCHANGED <<holder, want, ver, slept, retries, mutexInfo, waitSingles, fpc, fwant, frounds>>
AddBlock(c) == add_block_mutex(c)

\* add_block_mutex after yield_timer returns: erase the key under the
\* spinlock; pthread_mutex_lock loops back to the trylock.
Erase(c) == /\ Running(c) /\ pc[c] = "erase"
            /\ ids' = ids \ {c}
            /\ pc' = [pc EXCEPT ![c] = "lock"]
            /\ UNCHANGED <<holder, want, ver, slept, retries, timerSet, blockMutexs,
                           mutexInfo, waitSingles, cur, fpc, fwant, frounds>>

\* The handler sleeps (hooked sleep -> yield_timer) while holding the mutex.
CsSleep(c) == /\ Running(c) /\ pc[c] = "cs" /\ ~slept[c]
              /\ slept' = [slept EXCEPT ![c] = TRUE]
              /\ timerSet' = [timerSet EXCEPT ![c] = TRUE]
              /\ pc' = [pc EXCEPT ![c] = "sleep"]
              /\ cur' = [cur EXCEPT ![ThreadOf[c]] = NoCo]
              /\ UNCHANGED <<holder, want, ver, retries, blockMutexs, ids, mutexInfo,
                             waitSingles, fpc, fwant, frounds>>

\* The hooked pthread_mutex_unlock on a worker thread: the real unlock.
Unlock(c) == /\ Running(c) /\ pc[c] = "cs"
             /\ holder' = [holder EXCEPT ![want[c]] = NoCo]
             /\ pc' = [pc EXCEPT ![c] = "free"]
             /\ UNCHANGED <<want, ver, slept, retries, timerSet, blockMutexs, ids,
                            mutexInfo, waitSingles, cur, fpc, fwant, frounds>>

free_block_mutex_unchecked(c) ==
  /\ Running(c) /\ pc[c] = "free"
  /\ IF blockMutexs[want[c]] = <<>>
       THEN /\ pc' = [pc EXCEPT ![c] = "done"]
            /\ UNCHANGED <<blockMutexs, mutexInfo>>
       ELSE LET r == free_scan(blockMutexs[want[c]])
            IN  /\ blockMutexs' = [blockMutexs EXCEPT ![want[c]] = r[1]]
                /\ mutexInfo' = [mutexInfo EXCEPT ![c] = r[2]]
                /\ pc' = [pc EXCEPT ![c] = "resume"]
  /\ UNCHANGED <<holder, want, ver, slept, retries, timerSet, ids, waitSingles, cur,
                 fpc, fwant, frounds>>
\* free_block_mutex(mutex), the spinlock section: nothing is done when the
\* mutex has no FIFO; otherwise the pop loop runs and an emptied FIFO is
\* erased from the map.
free_block_mutex(c) ==
  /\ Running(c) /\ pc[c] = "free"
  /\ IF blockMutexs[want[c]] = <<>>
       THEN /\ pc' = [pc EXCEPT ![c] = "done"]
            /\ UNCHANGED <<blockMutexs, mutexInfo>>
       ELSE LET r == free_scan(blockMutexs[want[c]])
            IN  /\ blockMutexs' = [blockMutexs EXCEPT ![want[c]] = r[1]]
                /\ mutexInfo' = [mutexInfo EXCEPT ![c] = r[2]]
                /\ pc' = [pc EXCEPT ![c] = IF r[2] = NoEntry THEN "done" ELSE "resume"]
  /\ UNCHANGED <<holder, want, ver, slept, retries, timerSet, ids, waitSingles, cur,
                 fpc, fwant, frounds>>
FreeBlock(c) == free_block_mutex(c)

\* resume_single_async(mutexInfo), after the spinlock is released: push
\* onto the m_waitSingles of the picked connection's own worker thread.
resume_single_async(c) ==
  /\ Running(c) /\ pc[c] = "resume"
  /\ LET e == mutexInfo[c]
     IN  waitSingles' = [waitSingles EXCEPT ![ThreadOf[e[1]]] = Append(@, e)]
  /\ mutexInfo' = [mutexInfo EXCEPT ![c] = NoEntry]
  /\ pc' = [pc EXCEPT ![c] = "done"]
  /\ UNCHANGED <<holder, want, ver, slept, retries, timerSet, blockMutexs, ids, cur,
                 fpc, fwant, frounds>>
ResumeSingle(c) == resume_single_async(c)

\* The request ends and the connection is reset for the next one, which
\* increments m_version.
End(c) == /\ Running(c) /\ pc[c] = "done"
          /\ ver' = [ver EXCEPT ![c] = @ + 1]
          /\ slept' = [slept EXCEPT ![c] = FALSE]
          /\ pc' = [pc EXCEPT ![c] = "idle"]
          /\ cur' = [cur EXCEPT ![ThreadOf[c]] = NoCo]
          /\ UNCHANGED <<holder, want, retries, timerSet, blockMutexs, ids, mutexInfo,
                         waitSingles, fpc, fwant, frounds>>

----------------------------------------------------------------------------
(* The worker thread's dispatcher, while no coroutine runs *)

\* process_timer: the sleep event's node is due.  The sleep pre-handler
\* clears m_flagTimedOut and m_flagThirdFuncBlocking, so event_exception
\* lets func_dispatcher resume the coroutine in yield_timer.  A waiter that
\* has already seen MaxRetries expiries of its retry timer sees the next
\* one only after the mutex was released (the bound on how long a holder
\* keeps the mutex, counted in retry intervals).
Fire(c) == /\ Idle(c) /\ timerSet[c]
           /\ pc[c] = "parked" => retries[c] < MaxRetries \/ holder[want[c]] = NoCo
           /\ retries' = [retries EXCEPT ![c] = IF pc[c] = "parked" /\ @ < MaxRetries
                                                 THEN @ + 1 ELSE @]
           /\ Wake(c, ThreadOf[c])
           /\ UNCHANGED <<holder, want, ver, slept, blockMutexs, ids, mutexInfo,
                          waitSingles, fpc, fwant, frounds>>

\* The m_waitSingles drain: pop an entry under m_mtxResume; resume it only
\* when find_block_mutex finds its key and funcResumeProcess finds its
\* version current.
DrainSingleResume(t) ==
  /\ cur[t] = NoCo /\ waitSingles[t] # <<>>
  /\ LET e == Head(waitSingles[t])
     IN  /\ find_block_mutex(e[1]) /\ ver[e[1]] = e[2]
         /\ Wake(e[1], t)
  /\ waitSingles' = [waitSingles EXCEPT ![t] = Tail(@)]
  /\ UNCHANGED <<holder, want, ver, slept, retries, blockMutexs, ids, mutexInfo,
                 fpc, fwant, frounds>>

DrainSingleDrop(t) ==
  /\ cur[t] = NoCo /\ waitSingles[t] # <<>>
  /\ LET e == Head(waitSingles[t])
     IN  ~(find_block_mutex(e[1]) /\ ver[e[1]] = e[2])
  /\ waitSingles' = [waitSingles EXCEPT ![t] = Tail(@)]
  /\ UNCHANGED <<holder, pc, want, ver, slept, retries, timerSet, blockMutexs, ids,
                 mutexInfo, cur, fpc, fwant, frounds>>

----------------------------------------------------------------------------
(* A foreign thread: no CoCycle, so both calls go straight to the real    *)
(* pthread functions and free_block_mutex is never called.               *)

ForeignRequest == /\ fpc = "out" /\ frounds < MaxForeign
                  /\ \E m \in Mutex : fwant' = m
                  /\ fpc' = "wait"
                  /\ UNCHANGED <<holder, pc, want, ver, slept, retries, timerSet,
                                 blockMutexs, ids, mutexInfo, waitSingles, cur, frounds>>

ForeignLock == /\ fpc = "wait" /\ holder[fwant] = NoCo
               /\ holder' = [holder EXCEPT ![fwant] = Foreign]
               /\ fpc' = "hold"
               /\ UNCHANGED <<pc, want, ver, slept, retries, timerSet, blockMutexs, ids,
                              mutexInfo, waitSingles, cur, fwant, frounds>>

ForeignUnlock == /\ fpc = "hold"
                 /\ holder' = [holder EXCEPT ![fwant] = NoCo]
                 /\ fpc' = "out" /\ frounds' = frounds + 1
                 /\ UNCHANGED <<pc, want, ver, slept, retries, timerSet, blockMutexs, ids,
                                mutexInfo, waitSingles, cur, fwant>>

----------------------------------------------------------------------------
CoroStep(c) == TryLockOk(c) \/ TryLockBusy(c) \/ AddBlock(c) \/ Erase(c) \/ Unlock(c)
               \/ FreeBlock(c) \/ ResumeSingle(c) \/ End(c)

Next == \/ \E c \in Coro : Begin(c) \/ CsSleep(c) \/ CoroStep(c) \/ Fire(c)
        \/ \E t \in Thread : DrainSingleResume(t) \/ DrainSingleDrop(t)
        \/ ForeignRequest \/ ForeignLock \/ ForeignUnlock

(* A running coroutine keeps running until it swaps out, so its steps are *)
(* weakly fair.  A worker thread that is idle runs process_timer and the   *)
(* m_waitSingles drain on every loop pass, but it is idle only between     *)
(* coroutines, so those steps are strongly fair; a due timer does expire.  *)
(* The foreign thread eventually unlocks and eventually gets a mutex that  *)
(* is free.  New requests and sleeps are not forced.                       *)
Fairness == /\ \A c \in Coro : WF_vars(CoroStep(c)) /\ SF_vars(Fire(c))
            /\ \A t \in Thread : SF_vars(DrainSingleResume(t) \/ DrainSingleDrop(t))
            /\ WF_vars(ForeignUnlock) /\ SF_vars(ForeignLock)

Spec == Init /\ [][Next]_vars /\ Fairness

----------------------------------------------------------------------------
(* Properties *)

(* Types; a worker thread only ever runs coroutines of its own connections. *)
TypeOK == /\ holder \in [Mutex -> Coro \cup {NoCo, Foreign}]
          /\ pc \in [Coro -> Pc] /\ want \in [Coro -> Mutex]
          /\ ver \in [Coro -> Nat] /\ \A c \in Coro : ver[c] <= MaxRounds[c]
          /\ slept \in [Coro -> BOOLEAN] /\ timerSet \in [Coro -> BOOLEAN]
          /\ retries \in [Coro -> 0..MaxRetries]
          /\ blockMutexs \in [Mutex -> Seq(Entry)] /\ ids \subseteq Coro
          /\ mutexInfo \in [Coro -> Entry \cup {NoEntry}]
          /\ \A c \in Coro : pc[c] = "resume" => mutexInfo[c] \in Entry
          /\ waitSingles \in [Thread -> Seq(Entry)]
          /\ \A t \in Thread : cur[t] \in {c \in Coro : ThreadOf[c] = t} \cup {NoCo}
          /\ fpc \in {"out", "wait", "hold"} /\ fwant \in Mutex /\ frounds \in 0..MaxForeign

\* The coroutines inside pthread_mutex_lock, and the foreign thread blocked
\* in the real lock: what MutexSpec calls waiting.
LockPc == {"lock", "add", "parked", "erase"}
Waiting == {<<c, want[c]>> : c \in {d \in Coro : pc[d] \in LockPc}}
           \cup (IF fpc = "wait" THEN {<<Foreign, fwant>>} ELSE {})

Abstract == INSTANCE MutexSpec WITH Proc <- Coro \cup {Foreign}, NoOwner <- NoCo,
                                   owner <- holder, waiting <- Waiting

(* The hooked lock implements a mutex: a coroutine leaves                 *)
(* pthread_mutex_lock only owning the mutex, the owner is the only one to  *)
(* give it back, and a free mutex that coroutines or the foreign thread    *)
(* wait for is eventually taken, although an unlock's wake-up may go to a  *)
(* stale entry, reach a waiter that is not yet queued, or come from a      *)
(* foreign thread that never calls free_block_mutex: the retry timer of    *)
(* add_block_mutex is what makes the waiters try again.                    *)
MutexRefinement == Abstract!Spec

(* Every coroutine that enters the hooked pthread_mutex_lock eventually    *)
(* owns the mutex, once the other coroutines and the foreign thread stop   *)
(* making new requests: no waiter stays parked in add_block_mutex, and no  *)
(* worker thread blocks while another of its own coroutines owns the       *)
(* mutex.                                                                  *)
WaiterAcquires == \A c \in Coro : pc[c] = "lock" ~> pc[c] = "cs"

(* The m_waitSingles drain resumes only a coroutine parked in               *)
(* add_block_mutex's yield_timer.  An entry queued by free_block_mutex can  *)
(* be drained after its coroutine was resumed by the retry timer, got the   *)
(* mutex and went on (into a hooked sleep, say); find_block_mutex is there  *)
(* to keep that entry from cutting the other wait short.                   *)
SingleResumesOnlyBlocked ==
  [][\A t \in Thread :
       (cur[t] = NoCo /\ cur'[t] # NoCo /\ waitSingles[t] # <<>>
        /\ waitSingles'[t] = Tail(waitSingles[t]))
       => pc[cur'[t]] = "parked"]_vars

(* free_block_mutex resumes a waiter that is still valid: when the pop   *)
(* loop picks an entry, it is the current registration (same m_version)   *)
(* of a coroutine waiting for the mutex being unlocked, as spec.md section *)
(* 4.7 says ("cross-thread-resumes the first still-valid waiter found").   *)
PickedIsCurrent ==
  [][\A c \in Coro :
       (mutexInfo[c] = NoEntry /\ mutexInfo'[c] # NoEntry) =>
          LET w == mutexInfo'[c][1]
          IN  ver[w] = mutexInfo'[c][2] /\ want[w] = want[c] /\ pc[w] \in {"parked", "erase"}]_vars
====
