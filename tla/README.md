# TLA+ models of StarPU's dependency core and runtime lifecycle

This directory holds TLA+ models of the concurrent parts of the StarPU sources
in `src/`, the TLC configurations that check them, and `PROJECT.json`, which
maps every modelled definition to its source lines and lists the runs,
mutants, findings and hazards.

## 1. Inventory

| Component | Source | State | Operations | Hard behaviour |
|---|---|---|---|---|
| Arbiter | `src/unnamed/part_000` (data_arbiter_concurrency.c) | per handle: `refcnt`, `busy_count`, `arbitered_req_list`, `arbiter`; per arbiter: `mutex` | `_starpu_submit_job_enforce_arbitered_deps`, `_starpu_notify_arbitered_dependencies`, `remove_job_from_requester_list`, `starpu_arbiter_create`, `starpu_data_assign_arbiter` | many submitting and releasing threads; partial fast-take and roll-back; jobs that hold one arbiter group while they wait for the next; one job served per notification |
| Handle release / non-arbitered dispatcher | data_concurrency.c (not in `src/`; spec 4.1, 4.3) | per handle FIFO requester queue, `refcnt`, `current_mode` | submit, release, cohort promotion | the release decrements `refcnt` outside the arbiter mutex and notifies afterwards |
| Runtime configuration | workers.c 935-1065, 1251-1263 | `struct starpu_conf` | `starpu_conf_init`, `_starpu_conf_check_environment`, the conf step of `starpu_initialize` | two functions reading the same variables in opposite orders; defaults; a 32-bit shift |
| Runtime init/shutdown | `src/src/core/workers.c` 1121-1400, 1564-1687 | `init_count`, `initialized` ∈ {UNINITIALIZED, CHANGING, INITIALIZED}, `init_mutex`, `init_cond` | `starpu_initialize`, `starpu_shutdown` | concurrent init/shutdown callers; early-error returns that leave CHANGING set |
| Pause/resume | workers.c 1469-1500 | `pause_depth`, `pause_mutex`, `pause_cond` | `starpu_pause`, `starpu_resume`, `_starpu_may_pause` | unlocked increment; single wait with no loop |
| Worker launch/termination/wake-up | workers.c 603-935, 1405-1467, 1547-1556, 2056-2095 | per worker `worker_is_running`, `worker_is_initialized`, `status`, `sched_cond` | `_starpu_launch_drivers`, `_starpu_driver_start`, `_starpu_terminate_workers`, `_starpu_kill_all_workers`, `starpu_wake_worker*` | started/initialised handshakes; a wait loop and a join loop that must skip the same workers |
| Worker capability predicates | workers.c 101-450 | worker table, codelet masks, contexts | `starpu_worker_can_execute_task*`, `_starpu_worker_exists` | a submission check that asks the hook once; masks written only on some return paths |
| CUDA ping-pong latency test | `src/tests/experiments/latency/cuda-latency.c` 1-190 | `thread_is_initialized[2]`, `ready`, `nready_gpu`, `data_is_available[2]` | GPU thread loop, `send_data`, `recv_data`, `main` | condition-variable hand-off between two threads and main |
| MPI insert_task cache | `src/julia/StarPU.jl/src/compiler/parsing.jl` 53-365 (a C file) | per node `sent_data[]`, `received_data[]` | `starpu_mpi_insert_task`, `_starpu_mpi_clear_data`(+callback) | per-node caches, invalidation deferred to tasks; the code itself says "does not work yet" |
| Fortran binding | `src/src/util/fstarpu.c` 144-257, 330-356, 399-478 | the Fortran codelet (`cpu_funcs[]`..., `modes[]`, `nbuffers`); the packed `cl_arg` | `fstarpu_codelet_add_*_func`, `fstarpu_codelet_add_buffer`, `fstarpu_insert_task`, `fstarpu_unpack_arg` | a hand-written byte layout that two functions must agree on; NULL-terminated arrays |
| Cholesky cost models, perfmodel plot tool, tag test, FFT kernels, OpenMP entry points | the rest of `src/` | none of interest | arithmetic, I/O, forwarding | none: not modelled |

How the parts interact: a task's submission walks its sorted buffer list. The
non-arbitered prefix goes through the per-handle FIFO queues
(data_concurrency.c). Then each arbiter group goes through
`_starpu_submit_job_enforce_arbitered_deps`, one group after the other.
When a job has all its data, `_starpu_push_task` hands it to the scheduling
policy, and a worker runs it. After the run, each handle is released under
its `header_lock`. For an arbitered handle the releasing thread then calls
`_starpu_notify_arbitered_dependencies`, which may serve one waiting job.
That job is pushed, or it goes on to its next arbiter group on the same
thread. The runtime lifecycle (init, worker launch, pause, shutdown) brackets
all of this.

Properties that make each part correct:
- Arbiter: at most one job holds an arbitered handle, and `refcnt` counts it.
  `busy_count` counts holders plus requesters. The requester lists hold
  exactly the waiting jobs. No job is pushed twice. Every job finishes.
- Init/shutdown: at most one thread initialises or tears down. `init_count`
  counts the successful inits not yet shut down. A caller waiting on
  `init_cond` is eventually released.
- Pause: `pause_depth` equals pauses minus resumes. No worker runs while
  paused. Resume releases every paused worker.
- Ping-pong: the buffer is never uploaded before it was sent, and both
  threads finish.
- MPI cache: a node never skips a receive while its cached copy is older than
  the owner's last write.

## 2. Plan

Modules in order of importance (✓ = done):

1. ✓ `Arbiter` + `MC_Arbiter`: the arbiter protocol (the core of spec
   section 4.2), with the release path of section 4.3 for arbitered handles.
2. `ArbiterAbstract`: each arbiter group is taken atomically and exclusively.
   `Arbiter` refines it through the mapping owner[h] = the job that holds h.
   This will be checked as a PROPERTY of `MC_Arbiter`.
3. ✓ `InitShutdown`: `starpu_initialize`/`starpu_shutdown` with N application
   threads. Safety: one initialiser at a time, and `init_count` accounting.
   Liveness: waiters are released. Two violation runs show the `-EINVAL`
   and MPI `-ENODEV` early returns (workers.c:1259, 1170).
4. ✓ `Pause`: `starpu_pause`/`starpu_resume`/`_starpu_may_pause` with the
   unlocked increment split into a read and a write. The wait will be
   allowed to wake spuriously.
5. ✓ `PingPong`: cuda-latency.c, two GPU threads and main.
6. ✓ (in part) `WorkerLifecycle`: `_starpu_launch_drivers` handshakes,
   `_starpu_kill_all_workers`, `_starpu_terminate_workers`.
7. `Dispatcher`: the non-arbitered FIFO queue with cohort promotion. It is
   modelled from the spec, because data_concurrency.c is not in `src/`. It
   will be composed with `Arbiter` for tasks that have both kinds of
   buffers.
8. ✓ `MpiCache`: `starpu_mpi_insert_task` caches over three ranks running
   the same three calls; a violation run shows a stale cached copy.
9. ✓ `WorkerCapability`: operators for the worker capability predicates,
   checked against the per-implementation test for the task the
   application submits in `WorkerLifecycle`.
10. ✓ `TaskAcquisition`: the abstract acquisition specification, and
    the refinement of it by `Arbiter`.
11. ✓ `WorkerQueries`: the worker-table queries, checked against a
    reference definition in the same run.
12. ✓ `FortranBinding`: the Fortran codelet builder, argument-list parser
    and value packing/unpacking, checked in the same run.
13. ✓ `StarpuConf`: the configuration from `starpu_conf_init` and the
    environment, checked in the `initshutdown` run.

## 3. Modules

### Arbiter (`Arbiter.tla`, `MC_Arbiter.tla`)

State: `refcnt`, `busy_count` and `arbitered_req_list` per handle, as in the
code. Each requester is a `[job, buf]` record, and `push_front` becomes
prepending. Each job has `status` (idle, acquiring, waiting, ready,
releasing, done), its sorted `buffers`, and `pos`. `pos` is the `buf`
argument of the enforce function, i.e. the first buffer of the arbiter group
being acquired. `toRelease` and `notifyOn` are the releasing thread's
progress. `pushes` counts calls of `_starpu_push_task`.

Actions:
- `EnforceArbiteredDeps(t)` is the whole of
  `_starpu_submit_job_enforce_arbitered_deps`: one step, because it runs under
  `arbiter->mutex`. It covers the fast-take loop, the roll-back, the recording
  loop with its split `busy_count` increments, and on success either the next
  group or the push.
- `NotifyArbiteredDependencies(t)` is the whole of
  `_starpu_notify_arbitered_dependencies`. It scans from the head, serves the
  first job whose group is free, removes that job's requesters from every
  handle of the group (`remove_job_from_requester_list`), and pushes the job
  or sends it on to its next group.
- `Submit`, `Execute` and `ReleaseHandle` model the code outside `src/`
  (spec 4.1 and 4.3) and are marked spec_modelled. `ReleaseHandle` decrements
  `refcnt`/`busy_count` under the header lock. The notification is a separate
  later step, so other threads can act between the decrement and the
  notification.

Why atomic steps are sound: the two arbiter functions hold the arbiter
mutex throughout. The only state they read that another thread can change
meanwhile is the `refcnt` of a handle that some other job holds. Its
decrement commutes with the rest of the critical section, and it is always
followed by a notification that must take the same mutex.

Abstractions: access modes are dropped, because an arbitered handle is taken
only at `refcnt == 0` whatever the mode. `current_mode` is therefore not
represented. The `LOCK_OR_DELEGATE` variant is compiled out and is not
modelled.

Bounds (`MC_Arbiter.cfg`): 3 jobs and 3 handles. h1 and h2 are under arbiter
A, h3 under arbiter B. Jobs choose among all 8 sorted lists of distinct
handles, so there are one- and two-group jobs, waits inside one arbiter and
waits across arbiters. Three jobs are enough for a job to be overtaken, for
a notification to skip a blocked head requester and serve the next one, and
for a chain of jobs that hold group A while they wait for group B. Jobs are
symmetric, but the run checks a liveness property as well, so it has no
symmetry.
`MC_Arbiter_dup.cfg` lets a list name h1 twice, as a write and a read of the
same data after sorting.

Fairness: weak fairness of each job's thread. A job has at most one
enabled step at a time, and it is taken by a running worker or submitter
thread with no blocking except on the arbiter mutex. Submission is not fair:
the application may never submit. The run sets `CHECK_DEADLOCK FALSE`
because a stuck job already violates `AllJobsFinish`.

### Refinement: `Arbiter` implements `TaskAcquisition`

`TaskAcquisition.tla` is the promise of spec 4.2 and 4.5. It has no
requester lists, no arbiter mutex and no reference counts.

Each task has:
- a `phase`: idle, pending, ready or done;
- `needs`: the handles it named when it was submitted.

Actions:
- `Submit`: a task with no data is ready at once (spec 8, R2).
- `Acquire`: a pending task takes all of its handles in one step, once no
  ready task holds any of them.
- `Finish`: a ready task gives its handles back.

Fairness is strong for `Acquire`: a task whose handles come free again and
again is eventually served. It is weak for `Finish`.

`ArbiterAbs` in `Arbiter.tla` is the refinement mapping:
- `AbsPhase` maps `acquiring` and `waiting` to pending, and `releasing` to
  done. A job is done from its first release on.
- `needs` is `ToSet(buffers)`.

The `arbiter` run checks `ImplementsTaskAcquisition == ArbiterAbs!Spec`
as a PROPERTY. Every step of the protocol must then be one of the abstract
steps or a stutter:
- Fast-takes, roll-backs and requester bookkeeping are stutters.
- The push is the only step that maps to `Acquire`.
- A job holding group A while it waits for group B is still pending.

So what is checked is that, in every interleaving, the protocol only ever
makes a job ready when it could have taken all of its handles at once.
The abstract fairness is checked too.

The mutant `GroupFreeHeadOnly` tests only the first handle of a group.
Under it, TLC finds a step where two ready jobs share `h2`, which is not an
abstract step.

### Runs

| Run | Result | What it shows |
|---|---|---|
| `arbiter` | pass, 437k states | `RefcntCountsHolders` (mutual exclusion), `BusyCountAccounting`, `RequestersAreWaiting`, `PushedAtMostOnce`; `AllJobsFinish`: no waiting job is forgotten, in spite of the one-job-per-notification scan and the hold-and-wait across arbiters; `ImplementsTaskAcquisition`: the refinement above |
| `arbiter_duplicate_handles` | violation | finding below |

### Finding: a job naming a handle twice is pushed twice

`_starpu_submit_job_enforce_arbitered_deps` records a requester for every
buffer of the group (part_000:305-331). Unlike every other loop, it does not
skip a buffer that repeats the previous handle. The notification removes one
requester per distinct handle (442-465), so a duplicate requester stays on
the list. TLC's trace:
1. t1 holds h1.
2. t2 with `<<h1, h1>>` records two requesters on h1, and `busy_count[h1]`
   becomes 3.
3. t1 releases h1. The notification serves t2 and removes one of the two
   requesters.
4. t2 runs and releases h1. The notification finds t2's stale requester,
   takes h1 again, and pushes t2 a second time.

In the code, that second push is for a job that has already finished, and
`busy_count` stays one too high.

### InitShutdown (`InitShutdown.tla`, `MC_InitShutdown.tla`)

State: `init_count` and `initialized` as in workers.c:59-61. `waiting` is
the set of threads blocked in `STARPU_PTHREAD_COND_WAIT(&init_cond)`. `pc`
is where each application thread is: idle, wait (blocked, or woken and
about to re-take the mutex), initWork (initialising), using, teardown,
failed, finished. `rounds` counts its init/shutdown cycles.

Actions, one per critical section on `init_mutex` or per early return:
- `InitLock` is lines 1143-1156: the `while (initialized == CHANGING)` wait,
  `init_count++`, then return 0 or set CHANGING. A woken thread takes the
  same step again, so the `while` re-check is kept.
- `InitMasterSlaveNoDevice` (1167-1171) and `InitBadConf` (1256-1260) are
  the early returns; they are enabled by the constants `MasterSlave` and
  `BadConf`, because they depend on the build and on the caller's argument.
- `InitNoDevice` (1316-1335) is the topology failure with its clean-up and
  `COND_SIGNAL`; `InitDone` (1376-1380) sets INITIALIZED and broadcasts.
- `ShutdownLock` (1567-1579) uncounts the call and, for the last one, sets
  CHANGING; `ShutdownDone` (1655-1659) sets UNINITIALIZED and signals.

The initialisation and teardown work between two critical sections touches
none of this state, so it is the gap between two steps. The unlocked write
at line 1170 is a data race; it is modelled as one atomic write, the only
outcome on the platforms StarPU supports for an aligned `enum` store.
`COND_SIGNAL` wakes any one waiter, nondeterministically. Spurious wake-ups
are not modelled separately: the `while` loop makes one equivalent to a
wait that is entered again.

Bounds: three threads, two cycles each (one cycle in the violation runs).
Three threads are needed for a thread to wait while a second one
initialises and a third one shuts down; two cycles make a re-initialisation
after a full teardown happen.

Fairness: weak fairness of each thread. An application thread keeps
executing its own code; a thread blocked on `init_cond` has no enabled step,
so fairness cannot wake it: only a signal can.

| Run | Result | What it shows |
|---|---|---|
| `initshutdown` | pass, 1.7k states | `OneChanger`, `InitCountAccounting`, `InitializedWhileUsed`, `ReleasedWhenUnused`, the two `StarpuConf` properties below, `AllThreadsReturn` (which also stands for the deadlock check) |
| `initshutdown_error_paths` | pass, 3.2k states | with both error returns enabled, a thread that got 0 from `starpu_init` still finds StarPU initialised |
| `initshutdown_bad_conf` | violation | finding below |
| `initshutdown_mpi_nodevice` | violation | finding below |

### StarpuConf (`StarpuConf.tla`)

`starpu_initialize` runs with `starpu_conf_init`'s configuration when the
application passes no conf, refuses a conf without magic 42, and otherwise
copies the application's; then `_starpu_conf_check_environment` overrides
fields from the environment again (workers.c 1251-1263). The module writes
these as operators over an environment, a function from variable names to
what `starpu_get_env_number` returns (-1 when unset):
- `ConfInit` is `starpu_conf_init`: the counts as read (`CountNames`),
  `ncpus` from `STARPU_NCPU` or else `STARPU_NCPUS` (`InitNcpus`), the
  flags 0 by default (`DefaultedNames`), and the trace buffer size
  `STARPU_TRACE_BUFFER_SIZE << 20` on a 32-bit int (`ShiftLeft20Int`).
- `SetValueAgainstEnvironment`, `CheckedOrder` and `CheckEnvironment` are
  `_starpu_conf_check_environment`: `STARPU_SCHED`, then twelve calls in
  the code's order, `STARPU_NCPUS` before `STARPU_NCPU`.
- `EffectiveConf` is the configuration step of `starpu_initialize`.

`InitShutdown` extends the module, and two invariants of the
`initshutdown` run hold whenever a thread is initialising. They range over
every environment with up to two numeric variables set (to 0 or 2) and
`STARPU_SCHED` unset or set:
- `ConfPathsAgree`: with no user conf, the environment check changes
  nothing in what `starpu_conf_init` built. The two functions read the
  same variables in opposite orders and must pick the same winner.
- `NcpuPrecedence`: whichever conf the application passes (none, or one
  from `starpu_conf_init` with its `ncpus` changed), StarPU runs with
  `STARPU_NCPU` when set, else `STARPU_NCPUS`, else the conf's value, as
  the "backward compatibility" comment of `starpu_conf_init` says.

Not checked:
- The trace buffer size overflows from `STARPU_TRACE_BUFFER_SIZE=2048`
  (to -2^31), and is 0 at 4096 (workers.c:1021). `ShiftLeft20Int` gives
  these values. The field's type and its users are not in the sources,
  so no property says what the size should be. This is listed as a hazard.
- `_starpu_conf_check_environment` does not apply `STARPU_NMIC`,
  `STARPU_NSCC`, `STARPU_NMPI_MS` or the priorities again, so with a
  user conf these variables are ignored while `STARPU_NCUDA` is not. The
  model keeps this; nothing in the sources says which is intended.

### Findings: two early returns of `starpu_initialize` skip the clean-up

- Bad `starpu_conf` (workers.c:1259). TLC's trace: p2 initialises and
  shuts down; p1 then calls `starpu_init`, sets CHANGING, finds
  `magic != 42` and returns `-EINVAL` with CHANGING still set; p3 calls
  `starpu_init` and waits on `init_cond`. Nothing resets CHANGING or
  signals, so p3, and every later caller, waits for ever. The topology-failure path (1321-1335) shows
  the intended clean-up ("Let somebody else try to do it").
- MPI master-slave without a device (workers.c:1170). The call is not
  uncounted. TLC's trace: p1 fails this way, `init_count` stays 1; p2
  initialises (count 2) and shuts down (count 1), so shutdown returns
  early and StarPU stays INITIALIZED with no user. Waiters at the time of
  the failure are not signalled either.

### Pause (`Pause.tla`, `MC_Pause.tla`)

State: `pause_depth`; `waiting`, the workers blocked on `pause_cond`; `wpc`
per worker (check, lock, blocked, run); per application thread `cpc`,
`cycles`, and `loaded`, the value its `starpu_pause` loaded.

Actions:
- `PauseLoad` and `PauseStore` are `pause_depth += 1` at workers.c:1488.
  It has no lock (only `STARPU_HG_DISABLE_CHECKING`), so it is a load and a
  store, and other threads can run between the two.
- `Resume` is `starpu_resume` (1491-1500). It decrements under
  `pause_mutex` and broadcasts when the depth reaches 0.
- `MayPauseCheck` is the unlocked test of `_starpu_may_pause` (1472-1474).
  `MayPauseLock` is the test under the mutex and the wait (1476-1479).
  `MayPauseWake` is the return after a wake-up; there is no second test,
  because the code has `if`, not `while`. `SpuriousWakeup` is a return of
  `pthread_cond_wait` without a broadcast.
- `RunIteration` is the rest of a driver loop iteration. The drivers are
  not in `src/`.

`strayRuns` is a history variable. For each worker it counts the
iterations run while `pause_depth > 0` since the worker last went to sleep
on `pause_cond`. It is reset when the worker sleeps and when the depth
returns to 0. It is used only by `StrayIterationsBounded`.

Bounds: three workers and one application thread that pauses and resumes
twice. In the race run there are two application threads, each with one
pair. Fairness: weak fairness of every thread's own steps. Spurious
wake-ups get no fairness.

| Run | Result | What it shows |
|---|---|---|
| `pause` | pass, 894 states | `BlockedOnlyWhilePaused`: the test under the mutex keeps a worker from sleeping through the broadcast. `StrayIterationsBounded`: a pause costs a worker at most one more iteration between sleeps. That iteration comes either from the stale unlocked read, or from a spurious return of the single `cond_wait` (workers.c:1479). `WorkersProgress`: every worker keeps running. |
| `pause_concurrent_controllers` | violation | finding below |

### Finding: concurrent `starpu_pause` loses a resume

TLC's trace:
1. c1 pauses (depth 1), and c2's `starpu_pause` loads 1.
2. c1 resumes (depth 0).
3. c2 stores 2.
4. c2 resumes (depth 1). Both application threads are done, but the
   depth stays at 1.
5. Every worker that reaches `_starpu_may_pause` blocks on `pause_cond`,
   and no one will broadcast.

### PingPong (`PingPong.tla`, `MC_PingPong.tla`)

This module covers the first program in `cuda-latency.c` (lines 1-190).
The file also holds the tag latency test and the perfmodel plot tool.

State:
- The globals `thread_is_initialized`, `ready`, `nready_gpu` and
  `data_is_available`.
- `cpu_buffer` and `gpu_buffer`. Each holds a message `[from, iter]`,
  which records who sent it and in which iteration.
- `waiters`, the actors blocked on each condition variable.
- main's `mpc` and its loop variable `id`.
- For each GPU thread (`thread0` and `thread1`, in creation order): `gpc`,
  `myid` (the id it read through `&id`) and `iter`.

Actions follow the code one critical section at a time:
- `MainCreate`, `MainWaitInit`, `MainGo` and `MainWaitEnd` are main.
- `ThreadStart` is the read of `*idptr`. `ThreadInit` and `ThreadWaitGo`
  are the start handshake.
- `SendCopy` is the device-to-host copy and its synchronisation.
- `SendNotify` is the flag hand-over with its signal.
- `RecvWait` is the wait loop, and `Upload` is the host-to-device copy.
- `ThreadEnd` is the final decrement and signal of `cond_go`.

Every wait in this file is inside a `while`, so spurious wake-ups add
nothing and are not modelled.

Bounds: `NIter = 2`. A stale flag or buffer from the first round trip
would be visible in the second. Fairness: weak fairness for main and for
each GPU thread.

| Run | Result | What it shows |
|---|---|---|
| `pingpong` | pass, 111 states | `DistinctIds`: `&id` is safe because main waits for the initialisation before it increments `id`. `ReceivesWhatWasSent`: every upload reads the other thread's message of the same iteration. `PingPongCompletes`. |

Not modelled, because it is a value and not control:
- `recv_data` passes `cudaMemcpyDeviceToHost` to the copy from
  `cpu_buffer` to the GPU (line 86). The upload therefore uses the wrong
  direction constant.
- Both threads are stored in `thread[0]`, and neither is ever joined.

### WorkerLifecycle (`WorkerLifecycle.tla`, `MC_WorkerLifecycle.tla`)

State:
- `running`.
- Per worker: `run_by_starpu` and `worker_is_initialized`. For a CUDA
  set: `set_is_initialized` and `started`.
- Each driver thread's `wpc`.
- `joined`, the threads that `pthread_join` returned for.
- The main thread's `mpc` and its loop index `k`.

Main-thread actions, one loop iteration per step:
- `LaunchWorker`: the create loop of `_starpu_launch_drivers`, for CPU,
  OpenCL and CUDA workers (`Launch`). A CUDA worker that is not the first
  of its set does nothing. Otherwise a thread is created unless
  `_starpu_may_launch_driver` (`MayLaunchDriver`) finds the driver, by type
  and device id, in `conf->not_launched_drivers`; then `run_by_starpu`
  becomes 0. `Init` holds the fields that `_starpu_worker_init` sets.
- `WaitWorkerInit`: the wait loop, with its `break`.
- `KillAllWorkers`.
- `TerminateWorker`: one iteration of the join loop.

The driver threads are not in `src/`. `DriverStart` is
`_starpu_driver_start`. `DriverInitDone` and `DriverExit` are modelled
from what this code waits for, and they are marked spec_modelled. A
`while (!flag) cond_wait` on a flag that its setter broadcasts is a step
enabled once the flag is set. A join is a step enabled once the thread
has exited.

Bounds: five workers, in the order CPU (core 0), a CUDA set of two
workers on device 0, OpenCL (device 0), CPU (core 1). Every kind of worker
is created, waited for and joined, and both members of a CUDA set are
visited. Device 0 is shared by three kinds, so `MayLaunchDriver` must
compare the type as well as the id.
- In the passing run the application drives the last worker itself.
- In the violation run it drives the first one.

`SubmitTask` is the application calling `starpu_task_submit` once between
`starpu_init` and `starpu_shutdown` (the "app" phase of `mpc`); the task
is recorded in `submitted`, and the capability invariants below are
checked for it.

| Run | Result | What it shows |
|---|---|---|
| `worker_lifecycle` | pass, 58764 states | `InitializedOnReturn`, `AllThreadsJoined`, `ShutdownReturns`, the three `WorkerCapability` properties, the three `WorkerQueries` properties and the two `FortranBinding` properties below |
| `worker_lifecycle_not_launched_first` | violation | finding below |

### Finding: one application-driven worker stops the wait loop

The wait loop says `if (!workerarg->run_by_starpu) break;` (workers.c:906).
The join loop treats the same worker with `goto out`, which skips only that
worker.

TLC's trace:
1. Worker 1 is in `not_launched_drivers`, so the wait loop stops at once.
2. `starpu_init` returns.
3. The CUDA set of workers 2 and 3 is never marked `started`.
4. `_starpu_terminate_workers` therefore does not join them.
5. `starpu_shutdown` returns and frees the runtime while the CUDA driver
   threads have not even started.

### WorkerCapability (`WorkerTable.tla`, `WorkerCapability.tla`)

`WorkerTable` holds the worker table shared with `WorkerLifecycle`: the
worker ids and each one's `Kind` and `Devid`. `WorkerCapability` holds
the capability checks of workers.c 101-402. They are functions, so they
are operators, not actions.

Bit masks are sets. `cl->where` and `worker_mask` are sets of
architectures, and `&` is intersection. A codelet is
`[where, funcs, has_hook, accepts]`:
- `funcs[arch]` is the set of implementations with a non-NULL function;
- `has_hook` says whether `cl->can_execute` is set;
- `accepts` is the set of `<<worker, nimpl>>` pairs the hook says yes to.

A context is `[id, workers, parallel_sect]`.

Operators and what they model:
- `CanUseNthImplementation`: the CPU, CUDA and OpenCL cases of
  `_starpu_can_use_nth_implementation` (lines 271-285).
- `CanExecuteTask`: `starpu_worker_can_execute_task`.
- `ImplScan` / `CanExecuteTaskImpl`: `starpu_worker_can_execute_task_impl`.
  This is the loop that fills `impl_mask`, or stops at the first hit
  when no mask is passed.
- `FirstImplFrom` / `CanExecuteTaskFirstImpl`: `..._first_impl`.
- `WorkerExistsAndCanExecute` / `WorkerExists`: the submission check.
  It includes the ctx-0 shortcut and the `STARPU_CHECK_ENTIRE_PLATFORM`
  choice of workers (`CtxWorkers`).

The reference is `Runnable(w, t)`: the implementations for which the
per-implementation test accepts worker `w`. It is checked by three
invariants over the submitted task:
- `ImplQueriesAgree`: `..._impl` returns 1 exactly when `Runnable` is
  nonempty, and the mask it writes is `Runnable`; `..._first_impl`
  returns the least element of `Runnable`.
- `SubmitCheckSound`: if `_starpu_worker_exists` accepts, some worker of
  the checked context passes the test for some implementation.
- `SubmitCheckCompleteWithoutHook`: for a codelet without a hook, if some
  worker could run it, `_starpu_worker_exists` accepts it.

Bounds:
- Two implementations (0..1).
- Every function table in `[Archs -> SUBSET 0..1]`, with every `where`
  that names only architectures that have functions, and with
  `STARPU_NOWHERE`.
- Three hooks: none; one that refuses worker 2 at implementation 0; one
  that accepts only implementation 1.
- Three contexts: the initial one; `{1}`; `{3,4}` with worker 3 in a
  parallel section.

Two implementations are enough to tell "first" from "any" and "all". The
hooks separate the first worker from the others and the first
implementation from the second.

Not checked: completeness with a hook. `_starpu_worker_exists_and_can_execute`
returns what `cl->can_execute` answers for the first worker of the type at
its first implementation (workers.c:162). The comment at lines 98-99 says
"at least one of the workers ... for at least one of its implementations".
Adding

    \A t \in submitted : (\E w \in CtxWorkers(t), i \in Impls : Eligible(w, t, i)) => WorkerExists(t)

to `MC_WorkerLifecycle.cfg` gets a violation. The counterexample is a
CPU codelet with implementations 0 and 1 and the hook that accepts only
1, submitted in context 0. Every CPU worker could run it, but submission
refuses it. The project has no spare run slot for this, so it is listed
as a hazard in `PROJECT.json` and is not a run.

### WorkerQueries (`WorkerQueries.tla`)

This module models the worker-table queries of workers.c 1913-2161. Each
one is a loop over the worker ids in increasing order, written as a
recursive operator:
- `ScanByType` is the loop shared by `starpu_worker_get_ids_by_type`
  (`IdsByType`, which returns `-ERANGE` when the array is full),
  `..._get_nids_by_type` (`NidsByType`) and
  `..._get_nids_ctx_free_by_type` (`NidsCtxFreeByType`). The last one
  skips workers that some context other than the initial one holds
  (`InSomeCtx`, the loop from `s = 1`).
- `GetByType` is `starpu_worker_get_by_type`.
- `GetByDevid` is `starpu_worker_get_by_devid`.
- `DevidsFrom` / `GetDevids` is `starpu_worker_get_devids`, with its
  nested "found" search.

The reference definitions use sets and sequences of the same table:
- `TypeIds` is the ids of a type, sorted.
- `TypeDevids` is a type's devices in order of first appearance.
- The context-free workers are written out from `Ctxs`.

Three invariants of the `worker_lifecycle` run compare the two for every
type (including `STARPU_ANY_WORKER`) and every array size from 0 to
nworkers+1. They hold in the "app" phase, between `starpu_init` and
`starpu_shutdown`:
- `WorkerIdQueriesAgree`;
- `WorkerDevidsAgree`, for `num` ≥ 1;
- `WorkerCtxFreeAgrees`.

The table has two CPU workers on different cores, two CUDA workers on one
device, and an OpenCL worker. That covers duplicate devices, a type with
no worker on a device, and workers inside and outside the contexts {1} and
{3,4}.

Not checked: `get_devids` with `num = 0`. The loop tests `cnt == num`
after it has written a device (workers.c:2008), so with `num = 0` it never
stops. If `WorkerDevidsAgree` ranges over `num \in 0..N`, TLC finds it
violated: `get_devids(STARPU_CPU_WORKER, devids, 0)` writes two devices
into an array sized for none. This is listed as a hazard. The project has
no spare run slot for a violation run.

### MpiCache (`MpiCache.tla`, `MC_MpiCache.tla`)

The C code stored in lines 53-365 of
`src/julia/StarPU.jl/src/compiler/parsing.jl` is `starpu_mpi_insert_task`
built with `MPI_CACHE` (line 86). Every rank runs the same sequence of
calls. The rank that owns the data a task writes executes the task. The
other ranks owning data the task reads send that data to the executor.

State:
- `prog`, the shared sequence of calls. The first rank that reaches a call
  chooses it from `TaskChoices`. `pos` is each rank's next call.
- `sent_data[n][m]` and `received_data[n][m]`, the cache tables.
- `clears[n]`, the clear tasks rank n has posted and whose callbacks have
  not run yet (`_starpu_mpi_clear_data_t`).
- `chan[src][dst]`, the sends in flight. `posted[dst][src]` holds the
  posted receives. Both are FIFO because every message uses tag 0.
- `lastRecv` and `uses` record which version of a cached copy a task
  read.

Actions:
- `InsertTask(n)`: one whole call on rank n.
  - It posts the receives the executor needs and the sends the owners must
    make.
  - It skips both on a cache hit (`Uncached`).
  - A write of cached data posts clear tasks (`WriteClears`).
- `ClearCallback(n)`: `_starpu_mpi_clear_data_callback` removes the entry
  from the table. A clear runs only after the earlier clears of the same
  data, because StarPU orders tasks on one handle.
- `Match(src, dst)`: MPI matches the head send with the head receive.

A message carries `[data, ver]`. `ver` (`Ver`) is the number of writes of
that data before the task. This is the version StarPU's data dependencies
make the task see. The model takes it from the program and not from code;
`Ver` is marked spec_modelled.

Bounds: three ranks, each owning one data item. There are four task shapes:
- a read and a read-write on two ranks;
- a read-write;
- two remote reads and a write;
- the same as the first, with the arguments in the other order.

Programs have three calls. That is the fewest in which a cached copy
can go stale: a read that fills the cache, a write by the owner, and a
second read. With two calls, the sender's and the receiver's caches
always agree, and no read follows a write of cached data. A run at that
bound would pass without the cache ever being put to the test.

| Run | Result | What it shows |
|---|---|---|
| `mpicache_stale_copy` | violation of `CachedCopyCurrent`, 198 states | finding below |

Finding (parsing.jl:248). TLC's trace:
1. Call 1: n0 runs a task that reads d1, receives d1 from n1 and keeps it
   in `received_data[n1]`.
2. Call 2: n1 writes d1, and n0 posts a clear task for that entry (lines
   328-336).
3. Call 3: n0 reads d1 again before the clear's callback (lines 112-126)
   has run. It finds the entry, skips the `irecv`, and its task reads
   version 0 of d1 where it must read version 1.

The comment at lines 83-85 says the cache "does not work yet", yet
`MPI_CACHE` is defined at line 86, so this is the code the file builds.

Not checked in a run:
- `NoUnmatchedCommunication` states that when every rank has made every
  call, no send or receive is left over. With this same cfg and that
  invariant in place of `CachedCopyCurrent`, TLC finds it violated. The
  reader's `received_data` clear has run and the owner's `sent_data`
  clear has not, so the reader posts an `irecv` that no `isend` matches.
  A violation run checks one property, and the project's runs are all in
  use.
- Tag-0 pairing. Every message uses tag 0, so a transfer skipped on one
  side shifts the later pairings between the two ranks. Each rank here
  owns one data item, so only the version carried could differ. Checking
  that each matched receive gets its message found no mismatch in
  programs of up to four calls (808,823 states). That check is not in the
  project.
- `TypeOK` has no run: the only MpiCache run is a violation run.

### FortranBinding (`FortranBinding.tla`)

A Fortran program builds its codelet with `fstarpu_codelet_allocate`,
`fstarpu_codelet_add_*_func` and `fstarpu_codelet_add_buffer`. It submits
a task with `fstarpu_insert_task`, passing a NULL-terminated array of
(type, operand) items. The task's kernel calls `fstarpu_unpack_arg` to get
its values back. These are functions of their arguments, so the module
writes them as operators:
- `EmptyCodelet`, `AddFunc` and `AddBuffer` are the builder. `AddFunc`
  keeps the last slot NULL (`MaxImpls - 1` functions per architecture);
  `AddBuffer` takes exactly R, RW, W, SCRATCH or REDUX and at most
  `NMaxBufs - 1` buffers.
- `ParseArgs` is the loop of `fstarpu_insert_task` (lines 417-457):
  a data item is recognised by its mode bits (`DataBits`), a value by
  equality with `STARPU_VALUE`, a context by `STARPU_SCHED_CTX`;
  anything else aborts, as does a data item beyond `cl->nbuffers`.
  `InsertTask` adds the NULL-codelet check and writes `nargs` in the first
  int of the buffer, or leaves `cl_arg` NULL when there is no value. It
  then submits the task and aborts if `starpu_task_submit` fails
  (lines 471-475). Of the checks made at submission, the sources hold
  `_starpu_worker_exists` (`WorkerExists` of `WorkerCapability`), which
  refuses a task that no worker of its context can run. The codelet it
  sees is `SubmittedCodelet`:
  - `where` is the architectures that have a function. This is what
    `_starpu_codelet_check_deprecated_fields`, not in the repository,
    derives from a zeroed `where`.
  - There is no `can_execute` hook.

  The task's context is the one named by a `FSTARPU_SCHED_CTX` item. With
  no such item, it is the initial context (`SubmittedCtx`).
- `PackArgument` is `_starpu_pack_arguments`, which is not in the
  repository: a `size_t` size then the bytes.
- `UnpackFrom` / `UnpackArg` is `fstarpu_unpack_arg`: read `nargs`, then
  for each argument until the first NULL pointer read the size and copy
  that many bytes.

The buffer is a sequence of bytes; `Encode` and `Decode` write and read
little-endian integers of 4 (`int`) and 8 (`size_t`) bytes, so a reader
that skips the wrong number of bytes reads the wrong value. Two invariants
of the `worker_lifecycle` run check, in the "app" phase:
- `FortranInsertAgrees`: for every codelet built with up to three builder
  calls (and the NULL codelet), and every argument list of up to three
  items (data items on two handles in R and RW|COMMUTE modes, values of 1
  and 2 bytes, a context, and `FSTARPU_COMMUTE` alone), the task gets the
  data items' handles in order, the last context and every value, and the
  call aborts exactly on one of these:
  - a NULL codelet;
  - an unknown item;
  - too many data items;
  - a codelet with no function for the architecture of any worker of the
    task's context.

  The builder calls include a CPU and a CUDA function. Context 1 holds only
  a CPU worker, so a CUDA-only codelet is refused there and accepted in
  the initial context.
- `FortranRoundTrip`: for the same argument lists with at least one value,
  a codelet with a CPU function and two buffers, and 0 to 3 pointers, `fstarpu_unpack_arg` writes the first values given
  to `fstarpu_insert_task`, byte for byte.

Not checked:
- A task inserted with no value has a NULL `cl_arg`, and a kernel that
  calls `fstarpu_unpack_arg` on it reads through NULL (fstarpu.c:337).
  This is listed as a hazard.
- `fstarpu_worker_get_by_devid` (fstarpu.c:390) calls
  `starpu_worker_get_by_type(type, devid)`, so it returns the devid-th
  worker of the type rather than the worker on device devid. On the table
  of `MC_WorkerLifecycle` it answers 3 for CUDA device 1, which has no
  CUDA worker (`GetByDevid` gives -1). The project has no spare run slot
  for a violation run, so this is recorded here only.
- `fstarpu_codelet_add_buffer` compares the mode by equality, so a Fortran
  codelet cannot declare a COMMUTE buffer, while `fstarpu_insert_task`
  accepts RW|COMMUTE items. The model keeps both behaviours.

## 4. Not modelled

The per-device drivers and the scheduling policies are not in the sources.
The Cholesky cost models, the perfmodel plot tool and the FFT kernels have
no concurrent state. In fstarpu.c, the conf and codelet setters are single
assignments, and the data-interface getters, the worker-query wrappers and
the `starpu_omp_*` entry points forward to functions that are not in the
sources; they are not modelled. The `LOCK_OR_DELEGATE` arbiter
variant is compiled out.

Other parts are not modelled yet, for the reasons below.

- Among the capability predicates, these are not modelled:
  - `starpu_combined_worker_can_execute_task` (workers.c 403-450), since
    combined workers are built by topology code that is not in the
    sources;
  - the MIC, SCC and MPI master-slave cases;
  - the `STARPU_ANY_WORKER` case;
  - the `can_submit_*` wrappers;
  - the getters that return a topology field unchanged
    (`starpu_worker_get_count_by_type`, `..._get_name`, `..._get_bindid`,
    `starpu_bindid_get_workerids`, the stream-context getters). Their
    answers come from the topology code, which is not in the sources.
- In `_starpu_launch_drivers`, the MIC, SCC and MPI master-slave branches
  are not modelled. The FXT-only `started_cond` waits are not modelled
  either.
- `_starpu_worker_can_block` and `starpu_wake_worker` are not modelled.
  Their sleeping side is in the drivers, which are not in the sources.
- The tag latency test in cuda-latency.c (lines 191-311) is a sequential
  submit-and-wait loop.
- The Julia parser in lines 1-52 of parsing.jl translates syntax. It has no
  state to model.
