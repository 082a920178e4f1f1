-------------------------------- MODULE Pause --------------------------------
(***************************************************************************)
(* starpu_pause, starpu_resume and _starpu_may_pause (src/src/core/        *)
(* workers.c 1465-1500).  Worker threads call _starpu_may_pause at every   *)
(* iteration of their driver loop; application threads (controllers) call  *)
(* starpu_pause and later starpu_resume.                                   *)
(*                                                                         *)
(* starpu_pause does "pause_depth += 1" with no lock: a load and a store,  *)
(* two steps here.  starpu_resume decrements under pause_mutex and         *)
(* broadcasts pause_cond when the depth reaches 0.  _starpu_may_pause reads *)
(* the depth without the lock, then tests it again under pause_mutex and   *)
(* waits once (an "if", not a "while") on pause_cond.  pthread_cond_wait   *)
(* may return spuriously.                                                  *)
(***************************************************************************)
EXTENDS Integers

CONSTANTS
    Workers,      \* driver threads
    Controllers,  \* application threads calling starpu_pause/starpu_resume
    MaxCycles     \* pause/resume pairs per controller

ASSUME MaxCycles \in Nat \ {0}

VARIABLES
    pause_depth,  \* _starpu_config.pause_depth
    waiting,      \* workers blocked in STARPU_PTHREAD_COND_WAIT(&pause_cond)
    wpc,          \* worker -> "check" | "lock" | "blocked" | "run"
    cpc,          \* controller -> "idle" | "pauseWrite" | "paused" | "done"
    loaded,       \* controller -> value of pause_depth loaded by starpu_pause
    cycles,       \* controller -> completed pause/resume pairs
    strayRuns     \* history: worker -> driver-loop iterations it ran while
                  \* paused since it last went to sleep on pause_cond

vars == <<pause_depth, waiting, wpc, cpc, loaded, cycles, strayRuns>>

Init ==
    /\ pause_depth = 0
    /\ waiting = {}
    /\ wpc = [w \in Workers |-> "check"]
    /\ cpc = [c \in Controllers |-> "idle"]
    /\ loaded = [c \in Controllers |-> 0]
    /\ cycles = [c \in Controllers |-> 0]
    /\ strayRuns = [w \in Workers |-> 0]

-----------------------------------------------------------------------------
(* Controllers                                                             *)

\* starpu_pause, the load of "pause_depth += 1" (line 1488).
PauseLoad(c) ==
    /\ cpc[c] = "idle"
    /\ cycles[c] < MaxCycles
    /\ loaded' = [loaded EXCEPT ![c] = pause_depth]
    /\ cpc' = [cpc EXCEPT ![c] = "pauseWrite"]
    /\ UNCHANGED <<pause_depth, waiting, wpc, cycles, strayRuns>>

\* Mutant: the store writes back the loaded value, losing the increment.
PauseStoreLost(c) ==
    /\ cpc[c] = "pauseWrite"
    /\ pause_depth' = loaded[c]
    /\ cpc' = [cpc EXCEPT ![c] = "paused"]
    /\ UNCHANGED <<waiting, wpc, loaded, cycles, strayRuns>>

\* starpu_pause, the store of "pause_depth += 1" (line 1488).
PauseStore(c) ==
    /\ cpc[c] = "pauseWrite"
    /\ pause_depth' = loaded[c] + 1
    /\ cpc' = [cpc EXCEPT ![c] = "paused"]
    /\ UNCHANGED <<waiting, wpc, loaded, cycles, strayRuns>>

\* Mutant: starpu_resume signals one worker instead of broadcasting.
ResumeSignal(c) ==
    /\ cpc[c] = "paused"
    /\ pause_depth' = pause_depth - 1
    /\ IF pause_depth - 1 = 0 /\ waiting # {}
       THEN \E w \in waiting : waiting' = waiting \ {w}
       ELSE UNCHANGED waiting
    /\ cycles' = [cycles EXCEPT ![c] = @ + 1]
    /\ cpc' = [cpc EXCEPT ![c] = IF cycles[c] + 1 < MaxCycles THEN "idle"
                                 ELSE "done"]
    /\ strayRuns' = IF pause_depth - 1 = 0 THEN [w \in Workers |-> 0]
                    ELSE strayRuns
    /\ UNCHANGED <<wpc, loaded>>

\* starpu_resume (lines 1491-1500), all under pause_mutex.
Resume(c) ==
    /\ cpc[c] = "paused"
    /\ pause_depth' = pause_depth - 1
    /\ waiting' = IF pause_depth - 1 = 0 THEN {} ELSE waiting
    /\ cycles' = [cycles EXCEPT ![c] = @ + 1]
    /\ cpc' = [cpc EXCEPT ![c] = IF cycles[c] + 1 < MaxCycles THEN "idle"
                                 ELSE "done"]
    /\ strayRuns' = IF pause_depth - 1 = 0 THEN [w \in Workers |-> 0]
                    ELSE strayRuns
    /\ UNCHANGED <<wpc, loaded>>

-----------------------------------------------------------------------------
(* Workers                                                                 *)

\* Mutant: the unlocked test lets a depth of 1 through.
MayPauseCheckOffByOne(w) ==
    /\ wpc[w] = "check"
    /\ wpc' = [wpc EXCEPT ![w] = IF pause_depth > 1 THEN "lock" ELSE "run"]
    /\ UNCHANGED <<pause_depth, waiting, cpc, loaded, cycles, strayRuns>>

\* _starpu_may_pause, the unlocked test after STARPU_RMB (lines 1472-1474).
MayPauseCheck(w) ==
    /\ wpc[w] = "check"
    /\ wpc' = [wpc EXCEPT ![w] = IF pause_depth > 0 THEN "lock" ELSE "run"]
    /\ UNCHANGED <<pause_depth, waiting, cpc, loaded, cycles, strayRuns>>

\* Mutant: the test under pause_mutex is left out, trusting the unlocked one.
MayPauseLockNoRecheck(w) ==
    /\ wpc[w] = "lock"
    /\ waiting' = waiting \cup {w}
    /\ wpc' = [wpc EXCEPT ![w] = "blocked"]
    /\ strayRuns' = [strayRuns EXCEPT ![w] = 0]
    /\ UNCHANGED <<pause_depth, cpc, loaded, cycles>>

\* Lines 1476-1479: take pause_mutex, test again, wait on pause_cond (which
\* releases the mutex atomically) or unlock and return.
MayPauseLock(w) ==
    /\ wpc[w] = "lock"
    /\ IF pause_depth > 0
       THEN /\ waiting' = waiting \cup {w}
            /\ wpc' = [wpc EXCEPT ![w] = "blocked"]
            /\ strayRuns' = [strayRuns EXCEPT ![w] = 0]
       ELSE /\ wpc' = [wpc EXCEPT ![w] = "run"]
            /\ UNCHANGED <<waiting, strayRuns>>
    /\ UNCHANGED <<pause_depth, cpc, loaded, cycles>>

\* Woken: re-take pause_mutex, unlock and return (line 1481), with no
\* second look at pause_depth.
MayPauseWake(w) ==
    /\ wpc[w] = "blocked"
    /\ w \notin waiting
    /\ wpc' = [wpc EXCEPT ![w] = "run"]
    /\ UNCHANGED <<pause_depth, waiting, cpc, loaded, cycles, strayRuns>>

\* pthread_cond_wait returns without a signal.
SpuriousWakeup(w) ==
    /\ w \in waiting
    /\ waiting' = waiting \ {w}
    /\ UNCHANGED <<pause_depth, wpc, cpc, loaded, cycles, strayRuns>>

\* The rest of one iteration of the driver loop: run a task, come back to
\* _starpu_may_pause.
RunIteration(w) ==
    /\ wpc[w] = "run"
    /\ wpc' = [wpc EXCEPT ![w] = "check"]
    /\ strayRuns' = [strayRuns EXCEPT ![w] = IF pause_depth > 0 THEN @ + 1 ELSE @]
    /\ UNCHANGED <<pause_depth, waiting, cpc, loaded, cycles>>

-----------------------------------------------------------------------------

ControllerStep(c) == PauseLoad(c) \/ PauseStore(c) \/ Resume(c)

WorkerStep(w) ==
    MayPauseCheck(w) \/ MayPauseLock(w) \/ MayPauseWake(w) \/ RunIteration(w)

Next ==
    \/ \E c \in Controllers : ControllerStep(c)
    \/ \E w \in Workers : WorkerStep(w) \/ SpuriousWakeup(w)

\* Driver threads and application threads keep running; a spurious wake-up
\* is allowed but never promised.
Spec ==
    /\ Init /\ [][Next]_vars
    /\ \A c \in Controllers : WF_vars(ControllerStep(c))
    /\ \A w \in Workers : WF_vars(WorkerStep(w))

-----------------------------------------------------------------------------
(* Properties                                                              *)

\* Types; with one application thread, pause_depth never goes negative.
TypeOK ==
    /\ pause_depth \in Nat
    /\ waiting \subseteq Workers
    /\ wpc \in [Workers -> {"check", "lock", "blocked", "run"}]
    /\ cpc \in [Controllers -> {"idle", "pauseWrite", "paused", "done"}]
    /\ loaded \in [Controllers -> Int]
    /\ cycles \in [Controllers -> 0..MaxCycles]
    /\ strayRuns \in [Workers -> Nat]

\* No lost wake-up: a worker sleeps on pause_cond only while StarPU is
\* paused, so the broadcast of the resume that ends the pause reaches it.
BlockedOnlyWhilePaused ==
    \A w \in waiting : pause_depth > 0

\* A pause costs a worker at most one more iteration of its driver loop
\* between two sleeps on pause_cond: the one after an unlocked read of
\* pause_depth that came before starpu_pause, or after a spurious return of
\* the single STARPU_PTHREAD_COND_WAIT of _starpu_may_pause (an "if", not a
\* "while"); at its next call the worker goes back to sleep.
StrayIterationsBounded == \A w \in Workers : strayRuns[w] <= 1

\* Every worker goes on running tasks: each pause is ended by its resume and
\* no worker stays asleep on pause_cond.
WorkersProgress ==
    \A w \in Workers : []<>(wpc[w] = "run")

=============================================================================
