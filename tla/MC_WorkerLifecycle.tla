-------------------------- MODULE MC_WorkerLifecycle --------------------------
(* Instantiation of WorkerLifecycle for TLC: five workers, in this order:  *)
(* a CPU worker on core 0, a CUDA set of two workers (two streams of       *)
(* device 0), an OpenCL worker and a CPU worker on core 1.  The same      *)
(* table is given to the capability queries (WorkerCapability), with two   *)
(* implementations per architecture.                                       *)
EXTENDS WorkerLifecycle, WorkerQueries, TLC

MCKind == (1 :> "cpu") @@ (2 :> "cuda") @@ (3 :> "cuda") @@ (4 :> "opencl") @@ (5 :> "cpu")
MCDevid == (1 :> 0) @@ (2 :> 0) @@ (3 :> 0) @@ (4 :> 0) @@ (5 :> 1)
MCLeader == [w \in 1..5 |-> IF w = 3 THEN 2 ELSE w]

\* The application drives the CPU driver of core 1, or of core 0.
MCNotLaunchedLast == {[type |-> "cpu", id |-> 1]}
MCNotLaunchedFirst == {[type |-> "cpu", id |-> 0]}

MCImpls == 0..1

\* The initial context; one of the two CPU workers; the CUDA worker 3 and
\* the OpenCL worker, 3 being in a parallel section.
MCCtxs ==
    { [id |-> 0, workers |-> 1..5, parallel_sect |-> {}],
      [id |-> 1, workers |-> {1}, parallel_sect |-> {}],
      [id |-> 2, workers |-> {3, 4}, parallel_sect |-> {3}] }

\* can_execute hooks: none; one refusing the first CUDA worker's first
\* implementation; one accepting implementation 1 only.
MCHooks ==
    { [has_hook |-> FALSE, accepts |-> {}],
      [has_hook |-> TRUE, accepts |-> ((1..5) \X MCImpls) \ {<<2, 0>>}],
      [has_hook |-> TRUE, accepts |-> (1..5) \X {1}] }

\* Every choice of function arrays, every where they allow, every hook, and
\* a STARPU_NOWHERE codelet.
MCCodelets ==
    { [where |-> wh, funcs |-> f, has_hook |-> h.has_hook, accepts |-> h.accepts] :
        f \in [Archs -> SUBSET MCImpls], h \in MCHooks,
        wh \in {Nowhere} }
    \cup
    UNION { { [where |-> wh, funcs |-> f, has_hook |-> h.has_hook, accepts |-> h.accepts] :
                wh \in (SUBSET {a \in Archs : f[a] # {}}) \ {{}}, h \in MCHooks } :
            f \in [Archs -> SUBSET MCImpls] }
=============================================================================
