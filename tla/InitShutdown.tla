---------------------------- MODULE InitShutdown ----------------------------
(***************************************************************************)
(* starpu_initialize and starpu_shutdown (src/src/core/workers.c) called   *)
(* by several application threads.  The global state is init_count and     *)
(* initialized, both protected by init_mutex; a thread that finds the      *)
(* state CHANGING waits on init_cond.  Each critical section on init_mutex *)
(* is one step; the long initialisation and teardown work done outside the *)
(* mutex is the gap between two steps.                                     *)
(*                                                                         *)
(* Each thread runs init, uses StarPU, shuts down, up to MaxRounds times.  *)
(* Two early returns of starpu_initialize depend on the input or the build *)
(* and are enabled by constants: a starpu_conf whose magic is not 42       *)
(* (BadConf) and the MPI master-slave -ENODEV path (MasterSlave).          *)
(***************************************************************************)
EXTENDS Integers, FiniteSets, StarpuConf

CONSTANTS
    Threads,      \* application threads calling starpu_init/starpu_shutdown
    MaxRounds,    \* init/shutdown cycles per thread
    BadConf,      \* TRUE: a caller may pass a starpu_conf without magic 42
    MasterSlave   \* TRUE: built with STARPU_USE_MPI_MASTER_SLAVE

ASSUME MaxRounds \in Nat \ {0}
ASSUME BadConf \in BOOLEAN /\ MasterSlave \in BOOLEAN

VARIABLES
    init_count,   \* number of starpu_init calls not matched by a shutdown
    initialized,  \* "UNINITIALIZED" | "CHANGING" | "INITIALIZED"
    waiting,      \* threads blocked in STARPU_PTHREAD_COND_WAIT(&init_cond)
    pc,           \* thread -> where it is in its program
    rounds        \* thread -> completed init/shutdown cycles

vars == <<init_count, initialized, waiting, pc, rounds>>

PCs == {"idle", "wait", "initWork", "using", "teardown", "failed", "finished"}

\* STARPU_PTHREAD_COND_SIGNAL: wake one waiter, if any.
Signal(W) ==
    IF W = {} THEN waiting' = W ELSE \E w \in W : waiting' = W \ {w}

\* STARPU_PTHREAD_COND_BROADCAST: wake them all.
Broadcast == waiting' = {}

Init ==
    /\ init_count = 0
    /\ initialized = "UNINITIALIZED"
    /\ waiting = {}
    /\ pc = [t \in Threads |-> "idle"]
    /\ rounds = [t \in Threads |-> 0]

\* Mutant: "if" instead of "while" around the wait, so a woken thread does
\* not look at the state again.
InitLockNoRecheck(t) ==
    /\ \/ pc[t] = "idle" /\ rounds[t] < MaxRounds /\ initialized = "CHANGING"
          /\ waiting' = waiting \cup {t} /\ pc' = [pc EXCEPT ![t] = "wait"]
          /\ UNCHANGED <<init_count, initialized>>
       \/ \/ pc[t] = "idle" /\ rounds[t] < MaxRounds /\ initialized # "CHANGING"
          \/ pc[t] = "wait" /\ t \notin waiting
          /\ init_count' = init_count + 1 /\ UNCHANGED waiting
          /\ IF initialized = "INITIALIZED"
             THEN pc' = [pc EXCEPT ![t] = "using"] /\ UNCHANGED initialized
             ELSE initialized' = "CHANGING" /\ pc' = [pc EXCEPT ![t] = "initWork"]
    /\ UNCHANGED rounds

\* Mutant: the early "return 0" forgets to count the call.
InitLockFastPathUncounted(t) ==
    /\ \/ pc[t] = "idle" /\ rounds[t] < MaxRounds
       \/ pc[t] = "wait" /\ t \notin waiting
    /\ IF initialized = "CHANGING"
       THEN /\ waiting' = waiting \cup {t}
            /\ pc' = [pc EXCEPT ![t] = "wait"]
            /\ UNCHANGED <<init_count, initialized>>
       ELSE /\ init_count' = IF initialized = "INITIALIZED" THEN init_count
                             ELSE init_count + 1
            /\ IF initialized = "INITIALIZED"
               THEN /\ pc' = [pc EXCEPT ![t] = "using"]
                    /\ UNCHANGED initialized
               ELSE /\ initialized' = "CHANGING"
                    /\ pc' = [pc EXCEPT ![t] = "initWork"]
            /\ UNCHANGED waiting
    /\ UNCHANGED rounds

\* starpu_initialize, the first critical section (lines 1143-1156), entered
\* on the call or again after a wake-up from init_cond: wait while another
\* thread is changing the state; otherwise count the call, and either
\* return 0 at once or become the initialising thread.
InitLock(t) ==
    /\ \/ pc[t] = "idle" /\ rounds[t] < MaxRounds
       \/ pc[t] = "wait" /\ t \notin waiting
    /\ IF initialized = "CHANGING"
       THEN /\ waiting' = waiting \cup {t}
            /\ pc' = [pc EXCEPT ![t] = "wait"]
            /\ UNCHANGED <<init_count, initialized>>
       ELSE /\ init_count' = init_count + 1
            /\ IF initialized = "INITIALIZED"
               THEN /\ pc' = [pc EXCEPT ![t] = "using"]
                    /\ UNCHANGED initialized
               ELSE /\ initialized' = "CHANGING"
                    /\ pc' = [pc EXCEPT ![t] = "initWork"]
            /\ UNCHANGED waiting
    /\ UNCHANGED rounds

\* The MPI master-slave layer finds no device (lines 1166-1171): the state
\* is reset without init_mutex, nobody is signalled, init_count stays.
InitMasterSlaveNoDevice(t) ==
    /\ MasterSlave
    /\ pc[t] = "initWork"
    /\ initialized' = "UNINITIALIZED"
    /\ pc' = [pc EXCEPT ![t] = "failed"]
    /\ UNCHANGED <<init_count, waiting, rounds>>

\* user_conf->magic != 42 (lines 1256-1260): return -EINVAL as is.  The
\* set-up before the test (lines 1174-1255: warnings, environment) touches
\* no state of the model.
InitBadConf(t) ==
    /\ BadConf
    /\ pc[t] = "initWork"
    /\ pc' = [pc EXCEPT ![t] = "failed"]
    /\ UNCHANGED <<init_count, initialized, waiting, rounds>>

\* Mutant: the topology failure path does not uncount the call.
InitNoDeviceKeepsCount(t) ==
    /\ pc[t] = "initWork"
    /\ initialized' = "UNINITIALIZED"
    /\ Signal(waiting)
    /\ pc' = [pc EXCEPT ![t] = "failed"]
    /\ UNCHANGED <<init_count, rounds>>

\* _starpu_build_topology fails (lines 1316-1339): under init_mutex,
\* uncount the call, reset the state and signal one waiter.
InitNoDevice(t) ==
    /\ pc[t] = "initWork"
    /\ init_count' = init_count - 1
    /\ initialized' = "UNINITIALIZED"
    /\ Signal(waiting)
    /\ pc' = [pc EXCEPT ![t] = "failed"]
    /\ UNCHANGED rounds

\* End of a successful initialisation (lines 1376-1380), under init_mutex.
InitDone(t) ==
    /\ pc[t] = "initWork"
    /\ initialized' = "INITIALIZED"
    /\ Broadcast
    /\ pc' = [pc EXCEPT ![t] = "using"]
    /\ UNCHANGED <<init_count, rounds>>

\* Thread after its shutdown: another cycle or the end.
AfterShutdown(t) ==
    /\ rounds' = [rounds EXCEPT ![t] = @ + 1]
    /\ pc' = [pc EXCEPT ![t] = IF rounds[t] + 1 < MaxRounds THEN "idle"
                                ELSE "finished"]

\* Mutant: no "if (init_count)" early return; every shutdown tears down.
ShutdownLockAlways(t) ==
    /\ pc[t] = "using"
    /\ init_count' = init_count - 1
    /\ initialized' = "CHANGING"
    /\ pc' = [pc EXCEPT ![t] = "teardown"]
    /\ UNCHANGED <<rounds, waiting>>

\* Mutant: the count is tested before it is decremented.
ShutdownLockTestFirst(t) ==
    /\ pc[t] = "using"
    /\ init_count' = init_count - 1
    /\ IF init_count # 0
       THEN AfterShutdown(t) /\ UNCHANGED initialized
       ELSE /\ initialized' = "CHANGING"
            /\ pc' = [pc EXCEPT ![t] = "teardown"]
            /\ UNCHANGED rounds
    /\ UNCHANGED waiting

\* starpu_shutdown, first critical section (lines 1567-1579): uncount the
\* call; the last one turns the state to CHANGING and tears down.
ShutdownLock(t) ==
    /\ pc[t] = "using"
    /\ init_count' = init_count - 1
    /\ IF init_count - 1 # 0
       THEN AfterShutdown(t) /\ UNCHANGED initialized
       ELSE /\ initialized' = "CHANGING"
            /\ pc' = [pc EXCEPT ![t] = "teardown"]
            /\ UNCHANGED rounds
    /\ UNCHANGED waiting

\* Mutant: the teardown forgets STARPU_PTHREAD_COND_SIGNAL.
ShutdownDoneNoSignal(t) ==
    /\ pc[t] = "teardown"
    /\ initialized' = "UNINITIALIZED"
    /\ AfterShutdown(t)
    /\ UNCHANGED <<init_count, waiting>>

\* End of the teardown (lines 1655-1659): UNINITIALIZED, signal one waiter.
ShutdownDone(t) ==
    /\ pc[t] = "teardown"
    /\ initialized' = "UNINITIALIZED"
    /\ Signal(waiting)
    /\ AfterShutdown(t)
    /\ UNCHANGED init_count

\* Every thread has returned for good.
Terminated ==
    /\ \A t \in Threads : pc[t] \in {"failed", "finished"}
    /\ UNCHANGED vars

ThreadStep(t) ==
    \/ InitLock(t)
    \/ InitMasterSlaveNoDevice(t)
    \/ InitBadConf(t)
    \/ InitNoDevice(t)
    \/ InitDone(t)
    \/ ShutdownLock(t)
    \/ ShutdownDone(t)

Next == (\E t \in Threads : ThreadStep(t)) \/ Terminated

\* Each application thread keeps running its program; a thread blocked on
\* init_cond has no enabled step until it is woken.
Spec == Init /\ [][Next]_vars /\ \A t \in Threads : WF_vars(ThreadStep(t))

-----------------------------------------------------------------------------
(* Properties                                                              *)

\* Types, with init_count >= 0 as asserted by starpu_shutdown (line 1569):
\* never more shutdowns than inits.
TypeOK ==
    /\ init_count \in Nat
    /\ initialized \in {"UNINITIALIZED", "CHANGING", "INITIALIZED"}
    /\ waiting \subseteq Threads
    /\ pc \in [Threads -> PCs]
    /\ rounds \in [Threads -> 0..MaxRounds]

\* Threads inside initialisation or teardown work.
Changers == {t \in Threads : pc[t] \in {"initWork", "teardown"}}

\* One thread at a time initialises or tears StarPU down, and the state is
\* CHANGING exactly while one does: no thread can start using, or tear
\* down, a runtime that another thread is still building.
OneChanger ==
    /\ Cardinality(Changers) <= 1
    /\ (initialized = "CHANGING") <=> (Changers # {})

\* init_count is the number of threads that counted their starpu_init and
\* have not yet uncounted it by a shutdown or a failed initialisation.
InitCountAccounting ==
    init_count = Cardinality({t \in Threads : pc[t] \in {"initWork", "using"}})

\* Every thread to which starpu_init returned 0 finds StarPU initialised
\* until it calls starpu_shutdown itself, whatever other threads shut down.
InitializedWhileUsed ==
    \A t \in Threads : pc[t] = "using" => initialized = "INITIALIZED"

\* Once no thread is between a successful starpu_init and the end of its
\* starpu_shutdown, StarPU is back to UNINITIALIZED: the last shutdown
\* really tore the runtime down, so a later starpu_init starts afresh.
ReleasedWhenUnused ==
    (\A t \in Threads : pc[t] \in {"idle", "failed", "finished"})
        => initialized = "UNINITIALIZED"

\* The thread that initialises StarPU runs with the configuration
\* starpu_conf_init builds from the environment when it passed no conf:
\* _starpu_conf_check_environment reads the environment with the same
\* precedences and defaults as starpu_conf_init (environments with up to
\* two variables set).
ConfPathsAgree == (\E t \in Threads : pc[t] = "initWork") => ConfPathsAgreeOnAll

\* The thread that initialises StarPU runs with STARPU_NCPU CPUs when it
\* is set, else STARPU_NCPUS when it is set, else the ncpus of the conf it
\* passed, as the comment of starpu_conf_init says.
NcpuPrecedence == (\E t \in Threads : pc[t] = "initWork") => NcpuPrecedenceOnAll

\* Every call of starpu_init and starpu_shutdown returns: no thread stays
\* blocked on init_cond forever.
AllThreadsReturn ==
    <>(\A t \in Threads : pc[t] \in {"failed", "finished"})

=============================================================================
