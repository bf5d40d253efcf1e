------------------------------- MODULE Server -------------------------------
(***************************************************************************)
(* Start-up and shutdown of the worker threads (core/co_server.cpp and    *)
(* CoDispatcher::start / stop in core/co_dispatcher.cpp).  run_server     *)
(* creates the worker threads in index order, the last one on the calling *)
(* thread when useCurThreadServer is 1; each worker builds its CoCycle,    *)
(* publishes its dispatcher in m_workerDispatchers[index] and enters       *)
(* start(), which sets m_run and loops until it sees m_run false and its   *)
(* timers empty.  The caller of run_server later calls shut_down, which   *)
(* waits for each dispatcher pointer, calls stop() on it, then joins the   *)
(* threads it created.                                                    *)
(*                                                                         *)
(* What a dispatcher does inside its loop is module Worker; here a loop   *)
(* pass that sees m_run false ends the thread once its timers are empty,  *)
(* which Worker's StopCompletes shows happens.                            *)
(***************************************************************************)
EXTENDS Naturals

CONSTANTS W,            \* conf->m_conf.m_workerThreads
          UseCurChoices \* values of run_server's useCurThreadServer

Idx == 0 .. W - 1

VARIABLES
  useCur,   \* the useCurThreadServer argument
  mpc,      \* the thread that called run_server
  i,        \* run_server's loop index
  k,        \* shut_down's loop index, over m_workerDispatchers then m_workerThreads
  wpc,      \* wpc[x]: "none" (not created), "init" (run_server_thread before line
            \* 138), "published", "running" (in start's loop), "exited"
  disp,     \* disp[x]: m_workerDispatchers[x] is set
  run       \* run[x]: m_run of worker x's dispatcher

vars == <<useCur, mpc, i, k, wpc, disp, run>>

\* the workers run_server creates with std::thread, so m_workerThreads
Threads == {x \in Idx : ~(x = W - 1 /\ useCur = 1)}

Init == /\ useCur \in UseCurChoices
        /\ mpc = "spawn" /\ i = 0 /\ k = 0
        /\ wpc = [x \in Idx |-> "none"]
        /\ disp = [x \in Idx |-> FALSE]
        /\ run = [x \in Idx |-> FALSE]

----------------------------------------------------------------------------
(* CoServer::run_server, on the calling thread *)

Spawn_inclusive == /\ mpc = "spawn" /\ i <= W
                   /\ wpc' = [wpc EXCEPT ![i] = "init"]
                   /\ mpc' = IF i = W - 1 /\ useCur = 1 THEN "hosting" ELSE "spawn"
                   /\ i' = i + 1
                   /\ UNCHANGED <<useCur, k, disp, run>>
\* One pass of the for loop: the last worker runs on this thread when
\* useCurThreadServer is 1, the others on new threads.  run_server_thread
\* on this thread only returns when its dispatcher stops, and only
\* shut_down stops it, which this thread would call after run_server.
Spawn == /\ mpc = "spawn" /\ i < W
         /\ wpc' = [wpc EXCEPT ![i] = "init"]
         /\ mpc' = IF i = W - 1 /\ useCur = 1 THEN "hosting" ELSE "spawn"
         /\ i' = i + 1
         /\ UNCHANGED <<useCur, k, disp, run>>

\* The loop ends and run_server returns CO_OK; the caller goes on to
\* shut_down (server_tutorial.cpp after its 30 s of sleep).
Return == /\ mpc = "spawn" /\ i = W
          /\ mpc' = "stop" /\ k' = 0
          /\ UNCHANGED <<useCur, i, wpc, disp, run>>

----------------------------------------------------------------------------
(* CoServer::shut_down *)

\* while (!dispatcher) usleep(1000); then dispatcher->stop(), which sets
\* m_run = false.
Stop == /\ mpc = "stop" /\ k < W
        /\ disp[k]
        /\ run' = [run EXCEPT ![k] = FALSE]
        /\ k' = k + 1
        /\ UNCHANGED <<useCur, mpc, i, wpc, disp>>

\* m_workerDispatchers.clear(); the join loop starts.
StopsDone == /\ mpc = "stop" /\ k = W
             /\ mpc' = "join" /\ k' = 0
             /\ disp' = [x \in Idx |-> FALSE]
             /\ UNCHANGED <<useCur, i, wpc, run>>

\* thread.join() for the next entry of m_workerThreads; the worker on the
\* calling thread is not among them.
Join == /\ mpc = "join" /\ k < W
        /\ k \in Threads => wpc[k] = "exited"
        /\ k' = k + 1
        /\ UNCHANGED <<useCur, mpc, i, wpc, disp, run>>

JoinsDone == /\ mpc = "join" /\ k = W
             /\ mpc' = "done"
             /\ UNCHANGED <<useCur, i, k, wpc, disp, run>>

----------------------------------------------------------------------------
(* A worker *)

\* run_server_thread up to m_workerDispatchers[index] = dispatcher.
Publish(x) == /\ wpc[x] = "init"
              /\ wpc' = [wpc EXCEPT ![x] = "published"]
              /\ disp' = [disp EXCEPT ![x] = TRUE]
              /\ UNCHANGED <<useCur, mpc, i, k, run>>

\* CoDispatcher::start: m_run = true, then the loop.
Start(x) == /\ wpc[x] = "published"
            /\ run' = [run EXCEPT ![x] = TRUE]
            /\ wpc' = [wpc EXCEPT ![x] = "running"]
            /\ UNCHANGED <<useCur, mpc, i, k, disp>>

Exit_rearmed(x) == /\ wpc[x] = "running" /\ ~run[x]
                   /\ run' = [run EXCEPT ![x] = TRUE]
                   /\ UNCHANGED <<useCur, mpc, i, k, wpc, disp>>
\* A loop pass that sees !m_run: close_all_connection, and once the timers
\* are empty the loop breaks and the thread ends.
Exit(x) == /\ wpc[x] = "running" /\ ~run[x]
           /\ wpc' = [wpc EXCEPT ![x] = "exited"]
           /\ UNCHANGED <<useCur, mpc, i, k, disp, run>>

Main == Spawn \/ Return \/ Stop \/ StopsDone \/ Join \/ JoinsDone
WorkerStep(x) == Publish(x) \/ Start(x) \/ Exit(x)

Next == Main \/ \E x \in Idx : WorkerStep(x)

(* Every thread is scheduled: the OS runs each thread that can proceed, and *)
(* shut_down's wait loop polls again every millisecond.                    *)
Spec == Init /\ [][Next]_vars /\ WF_vars(Main) /\ \A x \in Idx : WF_vars(WorkerStep(x))

----------------------------------------------------------------------------
(* Types; run_server's and shut_down's loop indices stay within the vector. *)
TypeOK == /\ useCur \in UseCurChoices
          /\ mpc \in {"spawn", "hosting", "stop", "join", "done"}
          /\ i \in 0 .. W /\ k \in 0 .. W
          /\ wpc \in [Idx -> {"none", "init", "published", "running", "exited"}]
          /\ disp \in [Idx -> BOOLEAN] /\ run \in [Idx -> BOOLEAN]

(* A shut_down that begins once every worker is inside start()'s loop     *)
(* stops every dispatcher, sees each thread leave its loop and joins all  *)
(* of them: shut_down returns.                                            *)
ShutdownAfterStartCompletes ==
  (mpc = "stop" /\ k = 0 /\ \A x \in Idx : wpc[x] = "running") ~> (mpc = "done")

(* Whenever run_server has returned and shut_down has begun, shut_down   *)
(* returns, whatever the workers are doing (the comment at co_server.cpp  *)
(* line 148: shut_down must work before the dispatchers are set up).      *)
ShutdownCompletes == (mpc = "stop") ~> (mpc = "done")
====
