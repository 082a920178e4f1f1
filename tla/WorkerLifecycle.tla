--------------------------- MODULE WorkerLifecycle ---------------------------
(***************************************************************************)
(* Launch and termination of the worker threads (src/src/core/workers.c):  *)
(* _starpu_launch_drivers, called by starpu_initialize, creates a thread   *)
(* per CPU or OpenCL worker and one per CUDA worker set, started by the    *)
(* set's first worker, unless the application drives that worker itself   *)
(* (conf->not_launched_drivers, tested by _starpu_may_launch_driver); it   *)
(* then waits for each one's initialisation.  starpu_shutdown clears       *)
(* running (_starpu_kill_all_workers) and joins the threads                *)
(* (_starpu_terminate_workers) before it frees the runtime's structures.   *)
(*                                                                         *)
(* The driver threads themselves (_starpu_cpu_worker, _starpu_cuda_worker, *)
(* _starpu_opencl_worker) are not in the sources: their start, end of      *)
(* initialisation and exit on !running are modelled from what the code     *)
(* here waits for.  A thread is named by the worker that started it.  A    *)
(* "while (!flag) cond_wait" on a flag that its setter broadcasts is       *)
(* modelled as a step enabled once the flag is set, and pthread_join as a  *)
(* step enabled once the thread exited.                                    *)
(***************************************************************************)
EXTENDS WorkerQueries, FortranBinding

CONSTANTS
    Leader,       \* CUDA worker -> first worker of its set (set->workers)
    NotLaunched   \* conf->not_launched_drivers: a set of [type, id]

ASSUME /\ Leader \in [Workers -> Workers]
       /\ \A w \in Workers : Kind[w] = "cuda" => /\ Kind[Leader[w]] = "cuda"
                                                /\ Leader[w] <= w
                                                /\ Devid[Leader[w]] = Devid[w]

VARIABLES
    running,                \* pconfig->running
    run_by_starpu,          \* worker -> 0 | 1
    worker_is_initialized,  \* CPU or OpenCL worker -> 0 | 1
    set_is_initialized,     \* CUDA set, by its first worker -> 0 | 1
    started,                \* CUDA set, by its first worker -> 0 | 1
    wpc,                    \* thread -> "none" | "start" | "init" | "loop" | "exited"
    joined,                 \* threads joined by starpu_shutdown
    mpc,                    \* main thread: "launch" | "waitInit" | "app" | "terminate" | "done"
    k                       \* loop index of main's current for loop

vars == <<running, run_by_starpu, worker_is_initialized, set_is_initialized,
          started, wpc, joined, mpc, k>>

VARIABLE
    submitted   \* the task the application submitted, as a set of at most one

allvars == <<vars, submitted>>

\* The worker belongs to a worker set: it is a CUDA worker (line 910; the
\* join loop tests "set && set->nworkers > 0", line 1422).
HasSet(w) == Kind[w] = "cuda"

\* _starpu_may_launch_driver (lines 469-504): 0 iff the conf lists the
\* driver, by type and device id.
MayLaunchDriver(w) == ~\E d \in NotLaunched : d.type = Kind[w] /\ d.id = Devid[w]

\* The worker's driver is initialised, by its own flag or its set's.
Initialized(w) ==
    IF HasSet(w) THEN set_is_initialized[Leader[w]] = 1
    ELSE worker_is_initialized[w] = 1

\* _starpu_worker_init (lines 510-590), for every worker: the fields of it
\* that the model keeps.
WorkerInit ==
    /\ run_by_starpu = [w \in Workers |-> 1]
    /\ worker_is_initialized = [w \in Workers |-> 0]

\* _starpu_worker_init for every worker, then _starpu_launch_drivers sets
\* running (line 642).
Init ==
    /\ WorkerInit
    /\ running = 1
    /\ set_is_initialized = [w \in Workers |-> 0]
    /\ started = [w \in Workers |-> 0]
    /\ wpc = [w \in Workers |-> "none"]
    /\ joined = {}
    /\ mpc = "launch"
    /\ k = 1
    /\ submitted = {}

-----------------------------------------------------------------------------
(* Main thread                                                             *)

\* Launch worker k: create its driver thread, or mark it as run by the
\* application.  A CUDA worker that is not the first of its set does
\* nothing (lines 709-712); the first resets set_is_initialized first.
Launch(w) ==
    /\ IF HasSet(w) /\ Leader[w] # w
       THEN UNCHANGED <<run_by_starpu, wpc>>
       ELSE IF MayLaunchDriver(w)
       THEN wpc' = [wpc EXCEPT ![w] = "start"] /\ UNCHANGED run_by_starpu
       ELSE run_by_starpu' = [run_by_starpu EXCEPT ![w] = 0] /\ UNCHANGED wpc
    /\ set_is_initialized' =
           IF HasSet(w) /\ Leader[w] = w THEN [set_is_initialized EXCEPT ![w] = 0]
           ELSE set_is_initialized

\* Mutant: the loop bound is "worker <= nworkers".
LaunchWorkerOffByOne ==
    /\ mpc = "launch"
    /\ Launch(k)
    /\ k' = k + 1
    /\ UNCHANGED <<running, worker_is_initialized, started, joined, mpc>>

\* One iteration of the first loop of _starpu_launch_drivers (lines
\* 656-763), for the CPU, CUDA and OpenCL cases.
LaunchWorker ==
    /\ mpc = "launch"
    /\ Launch(k)
    /\ IF k = N THEN mpc' = "waitInit" /\ k' = 1
       ELSE UNCHANGED mpc /\ k' = k + 1
    /\ UNCHANGED <<running, worker_is_initialized, started, joined>>

\* Mutant: the second loop is left out; nothing is waited for.
WaitWorkerInitNone ==
    /\ mpc = "waitInit"
    /\ mpc' = "app"
    /\ UNCHANGED <<running, run_by_starpu, worker_is_initialized,
                   set_is_initialized, started, wpc, joined, k>>

\* One iteration of the second loop (lines 900-932): stop at the first
\* worker not run by StarPU ("break"), otherwise wait for the worker's or
\* its set's initialisation; a waited CUDA set is marked started.
WaitWorkerInit ==
    /\ mpc = "waitInit"
    /\ IF run_by_starpu[k] = 0
       THEN mpc' = "app" /\ UNCHANGED <<started, k>>
       ELSE /\ Initialized(k)
            /\ started' = IF HasSet(k) THEN [started EXCEPT ![Leader[k]] = 1]
                          ELSE started
            /\ IF k = N THEN mpc' = "app" /\ UNCHANGED k
               ELSE k' = k + 1 /\ UNCHANGED mpc
    /\ UNCHANGED <<running, run_by_starpu, worker_is_initialized,
                   set_is_initialized, wpc, joined>>

\* Mutant: running is not cleared.
KillAllWorkersNoClear ==
    /\ mpc = "app"
    /\ mpc' = "terminate"
    /\ k' = 1
    /\ UNCHANGED <<running, run_by_starpu, worker_is_initialized,
                   set_is_initialized, started, wpc, joined>>

\* starpu_shutdown calls _starpu_kill_all_workers (lines 1547-1556): clear
\* running and wake the blocked workers.
KillAllWorkers ==
    /\ mpc = "app"
    /\ running' = 0
    /\ mpc' = "terminate"
    /\ k' = 1
    /\ UNCHANGED <<run_by_starpu, worker_is_initialized, set_is_initialized,
                   started, wpc, joined>>

\* Join thread t (pthread_join returns once it has exited).
Join(t) == wpc[t] = "exited" /\ joined' = joined \cup {t}

\* Mutant: every worker is joined only if its set was started, as if every
\* worker had a set.
TerminateWorkerByStarted ==
    /\ mpc = "terminate"
    /\ IF started[Leader[k]] = 1
       THEN Join(Leader[k]) /\ started' = [started EXCEPT ![Leader[k]] = 0]
       ELSE UNCHANGED <<joined, started>>
    /\ IF k = N THEN mpc' = "done" /\ UNCHANGED k
       ELSE k' = k + 1 /\ UNCHANGED mpc
    /\ UNCHANGED <<running, run_by_starpu, worker_is_initialized,
                   set_is_initialized, wpc>>

\* One iteration of the join loop of _starpu_terminate_workers (lines
\* 1405-1462): a worker with a set joins the set's thread if the set was
\* started and clears started; another joins its own thread if it is run
\* by StarPU.
TerminateWorker ==
    /\ mpc = "terminate"
    /\ IF HasSet(k)
       THEN IF started[Leader[k]] = 1
            THEN Join(Leader[k]) /\ started' = [started EXCEPT ![Leader[k]] = 0]
            ELSE UNCHANGED <<joined, started>>
       ELSE /\ IF run_by_starpu[k] = 1 THEN Join(k) ELSE UNCHANGED joined
            /\ UNCHANGED started
    /\ IF k = N THEN mpc' = "done" /\ UNCHANGED k
       ELSE k' = k + 1 /\ UNCHANGED mpc
    /\ UNCHANGED <<running, run_by_starpu, worker_is_initialized,
                   set_is_initialized, wpc>>

-----------------------------------------------------------------------------
(* Driver threads                                                          *)

\* _starpu_driver_start (lines 611-638): worker_is_running and started_cond.
DriverStart(t) ==
    /\ wpc[t] = "start"
    /\ wpc' = [wpc EXCEPT ![t] = "init"]
    /\ UNCHANGED <<running, run_by_starpu, worker_is_initialized,
                   set_is_initialized, started, joined, mpc, k>>

\* End of the driver's initialisation: set the flag and broadcast ready_cond.
DriverInitDone(t) ==
    /\ wpc[t] = "init"
    /\ IF HasSet(t)
       THEN /\ set_is_initialized' = [set_is_initialized EXCEPT ![t] = 1]
            /\ UNCHANGED worker_is_initialized
       ELSE /\ worker_is_initialized' = [worker_is_initialized EXCEPT ![t] = 1]
            /\ UNCHANGED set_is_initialized
    /\ wpc' = [wpc EXCEPT ![t] = "loop"]
    /\ UNCHANGED <<running, run_by_starpu, started, joined, mpc, k>>

\* The driver loop ends once it sees running cleared.
DriverExit(t) ==
    /\ wpc[t] = "loop"
    /\ running = 0
    /\ wpc' = [wpc EXCEPT ![t] = "exited"]
    /\ UNCHANGED <<running, run_by_starpu, worker_is_initialized,
                   set_is_initialized, started, joined, mpc, k>>

-----------------------------------------------------------------------------

Finished == mpc = "done" /\ UNCHANGED vars

MainStep == LaunchWorker \/ WaitWorkerInit \/ KillAllWorkers \/ TerminateWorker

DriverStep(t) == DriverStart(t) \/ DriverInitDone(t) \/ DriverExit(t)

\* Between starpu_init and starpu_shutdown the application submits a task:
\* starpu_task_submit (not in the sources) asks _starpu_worker_exists, and
\* the scheduler then asks the can_execute queries of WorkerCapability for
\* the task.  One submission is enough, since their answers for a task do
\* not depend on earlier tasks.
SubmitTask ==
    /\ mpc = "app"
    /\ submitted = {}
    /\ \E t \in Tasks : submitted' = {t}
    /\ UNCHANGED vars

Next ==
    \/ /\ MainStep \/ (\E t \in Workers : DriverStep(t)) \/ Finished
       /\ UNCHANGED submitted
    \/ SubmitTask

\* Main and every driver thread keep running; the application need not
\* submit anything.
Spec ==
    /\ Init /\ [][Next]_allvars
    /\ WF_vars(MainStep)
    /\ \A t \in Workers : WF_vars(DriverStep(t))

-----------------------------------------------------------------------------
(* Properties                                                              *)

TypeOK ==
    /\ running \in {0, 1}
    /\ run_by_starpu \in [Workers -> {0, 1}]
    /\ worker_is_initialized \in [Workers -> {0, 1}]
    /\ set_is_initialized \in [Workers -> {0, 1}]
    /\ started \in [Workers -> {0, 1}]
    /\ wpc \in [Workers -> {"none", "start", "init", "loop", "exited"}]
    /\ joined \subseteq Workers
    /\ mpc \in {"launch", "waitInit", "app", "terminate", "done"}
    /\ k \in Workers
    /\ submitted \subseteq Tasks /\ Cardinality(submitted) <= 1

\* When starpu_init returns, the driver of every worker StarPU runs itself
\* has finished its initialisation, for a CUDA worker its set's driver.
InitializedOnReturn ==
    mpc \in {"app", "terminate", "done"} =>
        \A w \in Workers : run_by_starpu[w] = 1 => Initialized(w)

\* When _starpu_terminate_workers returns and starpu_shutdown goes on to
\* free the topology, every driver thread StarPU created has been joined.
AllThreadsJoined ==
    mpc = "done" => \A t \in Workers : wpc[t] # "none" => t \in joined

\* For the submitted task, the two copies of the implementation loop agree
\* with starpu_worker_can_execute_task: ..._impl answers, for every worker,
\* as it does for some implementation, and writes a mask of exactly the
\* implementations it accepts; ..._first_impl succeeds exactly then and
\* gives the lowest of them; with cl->can_execute as without.
ImplQueriesAgree ==
    \A t \in submitted : ImplMaskAgreesOn(t) /\ FirstImplIsLeastOn(t)

\* A task that the submission check (_starpu_worker_exists) lets through
\* can be run by some worker of its context, with some implementation.
SubmitCheckSound == \A t \in submitted : SubmitCheckSoundOn(t)

\* A task without a can_execute hook that some worker of its context could
\* run is not refused at submission.
SubmitCheckCompleteWithoutHook ==
    \A t \in submitted : SubmitCheckCompleteWithoutHookOn(t)

\* Between starpu_init and starpu_shutdown, the worker-table queries
\* (get_ids_by_type, get_nids_by_type, get_by_type, get_by_devid) list the
\* workers of each type in id order, as many as the array holds, and
\* ids_by_type reports -ERANGE exactly when the array is too small.
WorkerIdQueriesAgree == mpc = "app" => IdQueriesAgreeOnTable

\* Between starpu_init and starpu_shutdown, starpu_worker_get_devids
\* writes each device of the type once, in worker order, never more than
\* the num entries the caller made room for (num >= 1).
WorkerDevidsAgree == mpc = "app" => DevidsAgreeOnTable

\* Between starpu_init and starpu_shutdown,
\* starpu_worker_get_nids_ctx_free_by_type lists exactly the workers of the
\* type that no scheduling context but the initial one holds.
WorkerCtxFreeAgrees == mpc = "app" => CtxFreeAgreesOnTable

\* Between starpu_init and starpu_shutdown, fstarpu_insert_task turns a
\* Fortran argument list into the task it describes (its handles in
\* order, its context, its values), or aborts exactly when the list is
\* wrong for the codelet.
FortranInsertAgrees == mpc = "app" => InsertAgreesOnAll

\* Between starpu_init and starpu_shutdown, the values a Fortran program
\* passes to fstarpu_insert_task come back unchanged, in order, from
\* fstarpu_unpack_arg in the task's kernel.
FortranRoundTrip == mpc = "app" => RoundTripOnAll

\* starpu_shutdown returns.
ShutdownReturns == <>(mpc = "done")

=============================================================================
