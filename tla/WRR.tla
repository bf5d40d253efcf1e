-------------------------------- MODULE WRR --------------------------------
(***************************************************************************)
(* The weighted round-robin backend strategy of an upstream               *)
(* (upstream/co_upstream_backend.cpp): add_backend and init build the     *)
(* backends from the configuration, get_backend picks one per upstream    *)
(* connection (choose_one_weight, the smooth WRR loop, or choose_one, a   *)
(* plain rotation), and CoUpstream::free_connection reports a failed      *)
(* connection with comm_failed.  avaliable() takes a down backend back    *)
(* once m_confFailTime has passed.                                        *)
(*                                                                         *)
(* Time is abstract: whether the error window or the down period of a     *)
(* backend has run out is a flag the environment sets.                    *)
(***************************************************************************)
EXTENDS Integers, Sequences, FiniteSets, Folds

CONSTANTS ConfWeight,   \* m_weight of each CoConfUpstreamServer, in order
          FailTimeout,  \* CoConfUpstream::m_failTimeout
          FailMaxnum,   \* CoConfUpstream::m_failMaxnum
          MaxInflight   \* upstream connections open at once

N == Len(ConfWeight)
Backend == 1..N

\* add_backend
failCheck == ~(FailTimeout = 0 \/ FailMaxnum = 0)
confFailNum == IF FailMaxnum < 0 THEN 10 ELSE FailMaxnum       \* UPSTREAM_ERR_MAX_NUM
confWeight == [b \in Backend |-> IF ConfWeight[b] <= 0 THEN 1 ELSE ConfWeight[b]]
\* CoBackendWRR::m_weight keeps its initialiser: nothing assigns it.
m_weight == [b \in Backend |-> 0]

SumOf(f) == MapThenFoldSet(LAMBDA x, y : x + y, 0, LAMBDA b : f[b], LAMBDA s : CHOOSE x \in s : TRUE, Backend)

\* init
m_weighted == IF N = 1 THEN FALSE ELSE SumOf(m_weight) # N

VARIABLES
  cw,        \* m_currentWeight
  ew,        \* m_effectiveWeight
  fail,      \* m_fail
  errNum,    \* m_errNum
  errWin,    \* m_errFirstTimestamp: "unset" (still 0), "open", or "over"
            \* (more than m_confFailTime ago)
  downOver,  \* at least m_confFailTime since m_downTimestamp
  idx,       \* m_curBackendsIndex (0-based)
  inflight,  \* open upstream connections to each backend
  winCount   \* ghost: failures since the first failure of the current
            \* m_confFailTime window, 0 when no window is running

vars == <<cw, ew, fail, errNum, errWin, downOver, idx, inflight, winCount>>

Init == /\ cw = [b \in Backend |-> 0]
        /\ ew = confWeight
        /\ fail = [b \in Backend |-> FALSE]
        /\ errNum = [b \in Backend |-> 0]
        /\ errWin = [b \in Backend |-> "unset"]
        /\ winCount = [b \in Backend |-> 0]
        /\ downOver = [b \in Backend |-> FALSE]
        /\ idx = 0
        /\ inflight = [b \in Backend |-> 0]

----------------------------------------------------------------------------
(* The selection loops.  They work on a record st holding the fields they *)
(* change (cw, ew, fail, errNum), so that the side effects of avaliable()  *)
(* made during the loop are kept.                                          *)

\* CoBackend::avaliable on backend b of st: <<available, st'>>.
avaliable(st, b) ==
  IF ~failCheck \/ ~st.fail[b] THEN <<TRUE, st>>
  ELSE IF downOver[b]
       THEN <<TRUE, [st EXCEPT !.fail[b] = FALSE, !.errNum[b] = 0]>>
       ELSE <<FALSE, st>>

RECURSIVE weight_loop_ties_last(_, _)
weight_loop_ties_last(i, st) ==
  IF i > N THEN st
  ELSE LET a == avaliable(st, i)
           s == a[2]
           c == s.cw[i] + s.ew[i]
       IN  IF ~a[1] THEN weight_loop_ties_last(i + 1, s)
           ELSE weight_loop_ties_last(i + 1,
                  [s EXCEPT !.cw[i] = c, !.total = @ + s.ew[i],
                            !.ew[i] = IF @ < m_weight[i] THEN @ + 1 ELSE @,
                            !.best = IF @ = 0 \/ c >= s.cw[@] THEN i ELSE @])
\* One pass of the for loop of choose_one_weight from backend i on, with
\* the loop's locals total and bestBackend (0 for NULL) in st.
RECURSIVE weight_loop(_, _)
weight_loop(i, st) ==
  IF i > N THEN st
  ELSE LET a == avaliable(st, i)
           s == a[2]
           c == s.cw[i] + s.ew[i]
       IN  IF ~a[1] THEN weight_loop(i + 1, s)
           ELSE weight_loop(i + 1,
                  [s EXCEPT !.cw[i] = c,
                            !.total = @ + s.ew[i],
                            !.ew[i] = IF @ < m_weight[i] THEN @ + 1 ELSE @,
                            !.best = IF @ = 0 \/ c > s.cw[@] THEN i ELSE @])

State0 == [cw |-> cw, ew |-> ew, fail |-> fail, errNum |-> errNum, total |-> 0, best |-> 0,
           idx |-> idx]

\* choose_one_weight: the chosen backend lowers its current weight by total.
choose_one_weight ==
  LET r == weight_loop(1, State0)
  IN  IF r.best = 0 THEN r ELSE [r EXCEPT !.cw[r.best] = @ - r.total]

\* choose_one: up to N steps of the rotating index; the first available
\* backend is chosen.
RECURSIVE rotate_loop(_, _)
rotate_loop(k, st) ==
  IF k = 0 THEN st
  ELSE LET i == (st.idx + 1) % N
           a == avaliable(st, i + 1)
       IN  IF a[1] THEN [a[2] EXCEPT !.idx = i, !.best = i + 1]
           ELSE rotate_loop(k - 1, [a[2] EXCEPT !.idx = i])

choose_one == rotate_loop(N, State0)

\* get_backend
get_backend == IF m_weighted THEN choose_one_weight ELSE choose_one

Total(f) == SumOf(f)

\* CoUpstream::get_connection asks get_backend for a backend; a NULL
\* result opens no connection.
GetBackend ==
  LET r == get_backend
  IN  /\ Total(inflight) < MaxInflight
      /\ cw' = r.cw /\ ew' = r.ew /\ fail' = r.fail /\ errNum' = r.errNum /\ idx' = r.idx
      /\ inflight' = IF r.best = 0 THEN inflight ELSE [inflight EXCEPT ![r.best] = @ + 1]
      /\ UNCHANGED <<errWin, downOver, winCount>>

\* CoUpstream::free_connection with CO_OK: the backend is not told.
ReleaseOk(b) == /\ inflight[b] > 0
                /\ inflight' = [inflight EXCEPT ![b] = @ - 1]
                /\ UNCHANGED <<cw, ew, fail, errNum, errWin, downOver, idx, winCount>>

\* CoBackendWRR::comm_failed then CoBackend::comm_failed.  The window test
\* (int32_t)(timestamp - m_errFirstTimestamp) > m_confFailTime truncates
\* the millisecond clock to 32 bits while m_errFirstTimestamp is still 0,
\* so for an "unset" window either outcome happens.
comm_failed(b) ==
  /\ ew' = IF failCheck /\ confFailNum # 0
             THEN [ew EXCEPT ![b] = IF @ - m_weight[b] \div confFailNum < 0 THEN 0
                                    ELSE @ - m_weight[b] \div confFailNum]
             ELSE ew
  /\ IF ~failCheck
       THEN UNCHANGED <<errNum, errWin, fail, downOver>>
       ELSE \E restart \in (CASE errWin[b] = "over" -> {TRUE}
                              [] errWin[b] = "open" -> {FALSE}
                              [] OTHER -> BOOLEAN) :
              LET n == (IF restart THEN 0 ELSE errNum[b]) + 1
              IN  /\ errNum' = [errNum EXCEPT ![b] = n]
                  /\ errWin' = IF restart THEN [errWin EXCEPT ![b] = "open"] ELSE errWin
                  /\ IF n >= confFailNum
                       THEN /\ fail' = [fail EXCEPT ![b] = TRUE]
                            /\ downOver' = [downOver EXCEPT ![b] = FALSE]
                       ELSE UNCHANGED <<fail, downOver>>

\* CoUpstream::free_connection with an error result.
ReleaseFailed(b) ==
  /\ inflight[b] > 0
  /\ inflight' = [inflight EXCEPT ![b] = @ - 1]
  /\ comm_failed(b)
  /\ winCount' = [winCount EXCEPT ![b] = @ + 1]
  /\ UNCHANGED <<cw, idx>>

\* m_confFailTime passes after the first failure of a window.
WindowEnds(b) == /\ winCount[b] > 0
                 /\ winCount' = [winCount EXCEPT ![b] = 0]
                 /\ errWin' = IF errWin[b] = "open" THEN [errWin EXCEPT ![b] = "over"] ELSE errWin
                 /\ UNCHANGED <<cw, ew, fail, errNum, downOver, idx, inflight>>

\* m_confFailTime passes after a backend went down (and so after the
\* failures that took it down).
DownEnds(b) == /\ fail[b] /\ ~downOver[b] /\ winCount[b] = 0
               /\ downOver' = [downOver EXCEPT ![b] = TRUE]
               /\ UNCHANGED <<cw, ew, fail, errNum, errWin, idx, inflight, winCount>>

Next == \/ GetBackend
        \/ \E b \in Backend : ReleaseOk(b) \/ ReleaseFailed(b) \/ WindowEnds(b) \/ DownEnds(b)

Spec == Init /\ [][Next]_vars

----------------------------------------------------------------------------
(* Properties *)

\* The smooth weighted round robin, stated without the loop: every
\* available backend gains its effective weight, the first one of the
\* greatest current weight is chosen and gives back the sum of the
\* effective weights of the available backends.
RefAvailable == {b \in Backend : ~failCheck \/ ~fail[b] \/ downOver[b]}
RefGain(b) == cw[b] + ew[b]
RefBest == IF RefAvailable = {} THEN 0
           ELSE CHOOSE b \in RefAvailable :
                  \A x \in RefAvailable : RefGain(x) < RefGain(b) \/ (RefGain(x) = RefGain(b) /\ b <= x)
RefTotal == SumOf([b \in Backend |-> IF b \in RefAvailable THEN ew[b] ELSE 0])
RefCw == [b \in Backend |-> IF b \notin RefAvailable THEN cw[b]
                            ELSE RefGain(b) - (IF b = RefBest THEN RefTotal ELSE 0)]

(* From every reachable state, the loop of choose_one_weight, with the    *)
(* side effects of avaliable() inside it, chooses the backend the smooth  *)
(* WRR definition chooses and leaves the current weights it defines.      *)
SelectionMatchesReference ==
  m_weighted => (choose_one_weight.best = RefBest /\ choose_one_weight.cw = RefCw)

(* A failure reported by comm_failed lowers the backend's effective       *)
(* weight (spec.md, glossary: "decremented on failure and incrementally   *)
(* restored on success").                                                 *)
FailureLowersWeight ==
  [][\A b \in Backend :
       (failCheck /\ winCount'[b] = winCount[b] + 1 /\ ew[b] > 0) => ew'[b] < ew[b]]_vars

(* A backend is marked down only when m_confFailNum failures fell within  *)
(* one m_confFailTime window, as the errNum / m_errFirstTimestamp window   *)
(* of CoBackend::comm_failed intends.                                     *)
DownOnlyOnBurst ==
  [][\A b \in Backend : (~fail[b] /\ fail'[b]) => winCount'[b] >= confFailNum]_vars
====
