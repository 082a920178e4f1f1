--------------------------- MODULE WorkerCapability ---------------------------
(***************************************************************************)
(* Which worker may run which task (src/src/core/workers.c 97-395): the    *)
(* submission-time check _starpu_worker_exists, and the three queries the  *)
(* schedulers call, starpu_worker_can_execute_task, ..._impl and           *)
(* ..._first_impl.  They are functions of the worker table, of the task's  *)
(* codelet and of its scheduling context, so they are operators here, and  *)
(* the properties compare each one with the per-implementation test of     *)
(* starpu_worker_can_execute_task over every task of a bounded set.        *)
(*                                                                         *)
(* Bit masks are sets: cl->where and workers[].worker_mask are sets of     *)
(* architectures, "&" is intersection.  A codelet is                       *)
(*   [where, funcs, has_hook, accepts]                                     *)
(* with funcs[arch] the implementations whose function pointer is not      *)
(* NULL, has_hook whether cl->can_execute is set, and accepts the          *)
(* <<worker, nimpl>> pairs for which that hook returns 1.  A context is    *)
(* [id, workers, parallel_sect]: sched_ctx->workers, and the workers whose *)
(* parallel_sect[] flag is set.  The MIC, SCC and MPI master-slave cases   *)
(* (tested through cpu_funcs_name) and the STARPU_ANY_WORKER case of       *)
(* _starpu_can_use_nth_implementation are not modelled.                    *)
(***************************************************************************)
EXTENDS WorkerTable, FiniteSetsExt

CONSTANTS
    Impls,                \* 0..STARPU_MAXIMPLEMENTATIONS-1
    Codelets,             \* the codelets tasks may use
    Ctxs,                 \* the scheduling contexts; id 0 is the initial one
    CheckEntirePlatform   \* STARPU_CHECK_ENTIRE_PLATFORM (line 1343)

\* STARPU_NOWHERE: the codelet runs no function at all.
Nowhere == {"nowhere"}

ASSUME /\ Impls = 0..Max(Impls)
       /\ CheckEntirePlatform \in BOOLEAN
       /\ \E c \in Ctxs : c.id = 0 /\ c.workers = Workers
       /\ \A cl \in Codelets :
            /\ cl.funcs \in [Archs -> SUBSET Impls]
            /\ cl.accepts \subseteq Workers \X Impls
            \* where names only architectures the codelet has a function
            \* for, as when it is derived from the function arrays.
            /\ \/ cl.where = Nowhere
               \/ cl.where \subseteq {a \in Archs : cl.funcs[a] # {}}

Tasks == [cl : Codelets, ctx : Ctxs]

\* _starpu_config.worker_mask: the architectures of all workers.
ConfigWorkerMask == {Kind[w] : w \in Workers}

\* cl->can_execute(workerid, task, nimpl), or 1 when the codelet has none.
HookAccepts(cl, w, nimpl) == ~cl.has_hook \/ <<w, nimpl>> \in cl.accepts

\* _starpu_can_use_nth_implementation for the architecture of a worker: the
\* codelet's function for that architecture and implementation is not NULL.
CanUseNthImplementation(arch, cl, nimpl) == nimpl \in cl.funcs[arch]

\* The test of starpu_worker_can_execute_task after the parallel-section
\* check: where & worker_mask, the implementation, the hook.
Eligible(w, t, nimpl) ==
    /\ Kind[w] \in t.cl.where
    /\ CanUseNthImplementation(Kind[w], t.cl, nimpl)
    /\ HookAccepts(t.cl, w, nimpl)

\* starpu_worker_can_execute_task: not if the worker is in a parallel
\* section of the task's context.
CanExecuteTask(w, t, nimpl) ==
    /\ w \notin t.ctx.parallel_sect
    /\ Eligible(w, t, nimpl)

\* The implementations a worker can run the task with: the reference the
\* scans below are checked against.
Runnable(w, t) == {i \in Impls : CanExecuteTask(w, t, i)}

-----------------------------------------------------------------------------
(* starpu_worker_can_execute_task_impl                                     *)

\* Mutant: the loop of the can_execute branch does not call the hook.
RECURSIVE ImplScanNoHook(_, _, _, _)
ImplScanNoHook(w, t, all, i) ==
    IF i > Max(Impls) THEN {}
    ELSE IF CanUseNthImplementation(Kind[w], t.cl, i)
         THEN {i} \cup (IF all THEN ImplScanNoHook(w, t, all, i + 1) ELSE {})
         ELSE ImplScanNoHook(w, t, all, i + 1)

\* The implementation loop from i on: collect every usable implementation
\* into the mask, or stop at the first one when no impl_mask was passed
\* ("if (!impl_mask) break").  Both branches of the code (with and without
\* cl->can_execute) are this loop, the hook test being 1 without a hook.
RECURSIVE ImplScan(_, _, _, _)
ImplScan(w, t, all, i) ==
    IF i > Max(Impls) THEN {}
    ELSE IF CanUseNthImplementation(Kind[w], t.cl, i) /\ HookAccepts(t.cl, w, i)
         THEN {i} \cup (IF all THEN ImplScan(w, t, all, i + 1) ELSE {})
         ELSE ImplScan(w, t, all, i + 1)

\* The return value and, when impl_mask is given (all = TRUE) and the early
\* returns are not taken, the mask written to it.
CanExecuteTaskImpl(w, t, all) ==
    IF w \in t.ctx.parallel_sect \/ Kind[w] \notin t.cl.where
    THEN [ret |-> FALSE, written |-> FALSE, mask |-> {}]
    ELSE LET mask == ImplScan(w, t, all, 0)
         IN [ret |-> mask # {}, written |-> all, mask |-> mask]

-----------------------------------------------------------------------------
(* starpu_worker_can_execute_task_first_impl                               *)

\* The loop from i on: return 1 with *nimpl = the first usable
\* implementation.
RECURSIVE FirstImplFrom(_, _, _)
FirstImplFrom(w, t, i) ==
    IF i > Max(Impls) THEN [ret |-> FALSE, nimpl |-> 0]
    ELSE IF CanUseNthImplementation(Kind[w], t.cl, i) /\ HookAccepts(t.cl, w, i)
         THEN [ret |-> TRUE, nimpl |-> i]
         ELSE FirstImplFrom(w, t, i + 1)

CanExecuteTaskFirstImpl(w, t) ==
    IF w \in t.ctx.parallel_sect \/ Kind[w] \notin t.cl.where
    THEN [ret |-> FALSE, nimpl |-> 0]
    ELSE FirstImplFrom(w, t, 0)

-----------------------------------------------------------------------------
(* _starpu_worker_exists, called when a task is submitted                  *)

\* The workers _starpu_worker_exists_and_can_execute iterates over: the
\* initial context's if STARPU_CHECK_ENTIRE_PLATFORM is 1, else the task's.
CtxWorkers(t) == IF CheckEntirePlatform THEN Workers ELSE t.ctx.workers

\* Mutant: the "starpu_worker_get_type(i) != arch" filter is dropped.
WorkerExistsAndCanExecuteAnyArch(t, arch) ==
    LET ws == CtxWorkers(t)
        impls == t.cl.funcs[arch]
    IN /\ ws # {} /\ impls # {}
       /\ HookAccepts(t.cl, Min(ws), Min(impls))

\* _starpu_worker_exists_and_can_execute: the collection is iterated in
\* worker order; the first worker of type arch with an implementation for
\* arch decides, at its first such implementation: 1 without a hook, else
\* what the hook answers, and no other worker or implementation is tried.
\* All workers of one type have the same implementations, so when the
\* first has none, none has.
WorkerExistsAndCanExecute(t, arch) ==
    LET ws == {w \in CtxWorkers(t) : Kind[w] = arch}
        impls == t.cl.funcs[arch]
    IN /\ ws # {} /\ impls # {}
       /\ HookAccepts(t.cl, Min(ws), Min(impls))

\* Mutant: the OpenCL test is compiled out.
WorkerExistsNoOpenCL(t) ==
    \/ t.cl.where = Nowhere
    \/ /\ t.ctx.id = 0
       /\ t.cl.where \cap ConfigWorkerMask # {}
       /\ ~t.cl.has_hook
    \/ /\ t.ctx.id # 0 \/ t.cl.where \cap ConfigWorkerMask # {}
       /\ \E arch \in t.cl.where \ {"opencl"} : WorkerExistsAndCanExecute(t, arch)

\* _starpu_worker_exists: STARPU_NOWHERE codelets need no worker; in the
\* initial context, a codelet for no architecture present is refused and
\* one without a hook accepted at once; otherwise each architecture of
\* where is tried.
WorkerExists(t) ==
    \/ t.cl.where = Nowhere
    \/ /\ t.ctx.id = 0
       /\ t.cl.where \cap ConfigWorkerMask # {}
       /\ ~t.cl.has_hook
    \/ /\ t.ctx.id # 0 \/ t.cl.where \cap ConfigWorkerMask # {}
       /\ \E arch \in t.cl.where : WorkerExistsAndCanExecute(t, arch)

-----------------------------------------------------------------------------
(* What each query should answer for a task t, by the per-implementation  *)
(* test of starpu_worker_can_execute_task                                  *)

\* starpu_worker_can_execute_task_impl answers, for every worker, as the
\* per-implementation test does for some implementation, and the mask it
\* writes holds exactly the implementations that test accepts.
ImplMaskAgreesOn(t) ==
    \A w \in Workers, all \in BOOLEAN :
        LET r == CanExecuteTaskImpl(w, t, all)
        IN /\ r.ret = (Runnable(w, t) # {})
           /\ r.written => r.mask = Runnable(w, t)

\* starpu_worker_can_execute_task_first_impl succeeds, for every worker,
\* exactly when some implementation is accepted, and returns the lowest.
FirstImplIsLeastOn(t) ==
    \A w \in Workers :
        LET r == CanExecuteTaskFirstImpl(w, t)
        IN /\ r.ret = (Runnable(w, t) # {})
           /\ r.ret => r.nimpl = Min(Runnable(w, t))

\* If _starpu_worker_exists accepts t, some worker of the context it is
\* checked against passes the test for some implementation (parallel
\* sections aside, which end).
SubmitCheckSoundOn(t) ==
    t.cl.where # Nowhere /\ WorkerExists(t) =>
        \E w \in CtxWorkers(t), i \in Impls : Eligible(w, t, i)

\* If t has no can_execute hook and some worker of its context could run
\* it, _starpu_worker_exists accepts it.
SubmitCheckCompleteWithoutHookOn(t) ==
    ~t.cl.has_hook /\ (\E w \in CtxWorkers(t), i \in Impls : Eligible(w, t, i))
        => WorkerExists(t)

=============================================================================
