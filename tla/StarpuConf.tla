------------------------------ MODULE StarpuConf ------------------------------
(***************************************************************************)
(* The configuration StarPU runs with (src/src/core/workers.c 935-1065,    *)
(* 1251-1263): starpu_conf_init fills a struct starpu_conf from the        *)
(* environment, and starpu_initialize takes either that (no user conf) or  *)
(* the application's conf, then lets _starpu_conf_check_environment        *)
(* override some of its fields from the environment again.                 *)
(*                                                                         *)
(* The environment is a function from variable names to what               *)
(* starpu_get_env_number returns: -1 when the variable is unset, else its  *)
(* value; STARPU_SCHED is the string getenv returns, "NULL" when unset.    *)
(* A conf is a record of the fields these functions set, named as in C.    *)
(* The pointer fields and use_explicit_workers_* (zeroed, marked TODO) are *)
(* left out.  Built without the STARPU_DISABLE_ASYNCHRONOUS_*_COPY macros. *)
(***************************************************************************)
EXTENDS Integers, FiniteSets, SequencesExt

\* Fields read straight from one variable by starpu_conf_init.
CountNames ==
    [ncuda |-> "STARPU_NCUDA", nopencl |-> "STARPU_NOPENCL",
     nmic |-> "STARPU_NMIC", nscc |-> "STARPU_NSCC", nmpi_ms |-> "STARPU_NMPI_MS",
     global_sched_ctx_min_priority |-> "STARPU_MIN_PRIO",
     global_sched_ctx_max_priority |-> "STARPU_MAX_PRIO"]

\* Fields starpu_conf_init sets to 0 when their variable is unset.
DefaultedNames ==
    [calibrate |-> "STARPU_CALIBRATE", bus_calibrate |-> "STARPU_BUS_CALIBRATE",
     single_combined_worker |-> "STARPU_SINGLE_COMBINED_WORKER",
     disable_asynchronous_copy |-> "STARPU_DISABLE_ASYNCHRONOUS_COPY",
     disable_asynchronous_cuda_copy |-> "STARPU_DISABLE_ASYNCHRONOUS_CUDA_COPY",
     disable_asynchronous_opencl_copy |-> "STARPU_DISABLE_ASYNCHRONOUS_OPENCL_COPY",
     disable_asynchronous_mic_copy |-> "STARPU_DISABLE_ASYNCHRONOUS_MIC_COPY",
     disable_asynchronous_mpi_ms_copy |-> "STARPU_DISABLE_ASYNCHRONOUS_MPI_MS_COPY"]

NumNames ==
    Range(CountNames) \cup Range(DefaultedNames)
    \cup {"STARPU_NCPU", "STARPU_NCPUS", "STARPU_TRACE_BUFFER_SIZE"}

\* (n << 20) on a 32-bit int, as the build computes it (the overflow, for
\* n >= 2048, wraps).
ShiftLeft20Int(n) ==
    LET u == n % 4096 IN IF u >= 2048 THEN (u - 4096) * 2^20 ELSE u * 2^20

\* Mutant: STARPU_NCPUS is tried first.
InitNcpusNcpusFirst(env) ==
    IF env["STARPU_NCPUS"] = -1 THEN env["STARPU_NCPU"] ELSE env["STARPU_NCPUS"]

\* "check the value of STARPU_NCPUS if STARPU_NCPU is not set"
InitNcpus(env) ==
    IF env["STARPU_NCPU"] = -1 THEN env["STARPU_NCPUS"] ELSE env["STARPU_NCPU"]

\* starpu_conf_init: magic 42, the counts as read, the flags 0 by default,
\* the trace buffer STARPU_TRACE_BUFFER_SIZE (64 by default) << 20.
ConfInit(env) ==
    [magic |-> 42, sched_policy_name |-> env["STARPU_SCHED"], ncpus |-> InitNcpus(env),
     trace_buffer_size |-> ShiftLeft20Int(IF env["STARPU_TRACE_BUFFER_SIZE"] = -1 THEN 64
                                          ELSE env["STARPU_TRACE_BUFFER_SIZE"])]
    @@ [f \in DOMAIN CountNames |-> env[CountNames[f]]]
    @@ [f \in DOMAIN DefaultedNames |-> IF env[DefaultedNames[f]] = -1 THEN 0
                                        ELSE env[DefaultedNames[f]]]

\* _starpu_conf_set_value_against_environment: the field takes the
\* variable's value when it is set.
SetValueAgainstEnvironment(env, conf, fv) ==
    IF env[fv[2]] # -1 THEN [conf EXCEPT ![fv[1]] = env[fv[2]]] ELSE conf

\* The calls of _starpu_conf_check_environment after the two on ncpus.
CheckedRest ==
    << <<"ncuda", "STARPU_NCUDA">>, <<"nopencl", "STARPU_NOPENCL">>,
       <<"calibrate", "STARPU_CALIBRATE">>, <<"bus_calibrate", "STARPU_BUS_CALIBRATE">>,
       <<"single_combined_worker", "STARPU_SINGLE_COMBINED_WORKER">>,
       <<"disable_asynchronous_copy", "STARPU_DISABLE_ASYNCHRONOUS_COPY">>,
       <<"disable_asynchronous_cuda_copy", "STARPU_DISABLE_ASYNCHRONOUS_CUDA_COPY">>,
       <<"disable_asynchronous_opencl_copy", "STARPU_DISABLE_ASYNCHRONOUS_OPENCL_COPY">>,
       <<"disable_asynchronous_mic_copy", "STARPU_DISABLE_ASYNCHRONOUS_MIC_COPY">>,
       <<"disable_asynchronous_mpi_ms_copy", "STARPU_DISABLE_ASYNCHRONOUS_MPI_MS_COPY">> >>

\* Mutant: STARPU_NCPU is applied before STARPU_NCPUS.
CheckedOrderNcpuFirst ==
    << <<"ncpus", "STARPU_NCPU">>, <<"ncpus", "STARPU_NCPUS">> >> \o CheckedRest

\* The calls of _starpu_conf_check_environment, in order: STARPU_NCPUS is
\* applied before STARPU_NCPU, so that STARPU_NCPU wins.  STARPU_NMIC,
\* STARPU_NSCC, STARPU_NMPI_MS and the priorities are not checked again.
CheckedOrder ==
    << <<"ncpus", "STARPU_NCPUS">>, <<"ncpus", "STARPU_NCPU">> >> \o CheckedRest

\* _starpu_conf_check_environment: STARPU_SCHED, then the calls in order.
CheckEnvironment(conf, env) ==
    FoldLeft(LAMBDA c, fv : SetValueAgainstEnvironment(env, c, fv),
             IF env["STARPU_SCHED"] # "NULL"
             THEN [conf EXCEPT !.sched_policy_name = env["STARPU_SCHED"]] ELSE conf,
             CheckedOrder)

\* The configuration step of starpu_initialize: with no user conf (NULL),
\* starpu_conf_init; a user conf without magic 42 is refused with -EINVAL;
\* else it is copied; then the environment is checked.
EINVAL == [error |-> "EINVAL"]
NoUserConf == [error |-> "NULL"]

EffectiveConf(userConf, env) ==
    IF userConf # NoUserConf /\ userConf.magic # 42 THEN EINVAL
    ELSE CheckEnvironment(IF userConf = NoUserConf THEN ConfInit(env) ELSE userConf, env)

-----------------------------------------------------------------------------
(* Bounded environments and user confs                                     *)

\* Every environment with at most two numeric variables set, to 0 or 2,
\* with STARPU_SCHED unset or "eager".
Envs ==
    { [n \in NumNames \cup {"STARPU_SCHED"} |->
         IF n = "STARPU_SCHED" THEN sched
         ELSE IF n \in DOMAIN f THEN f[n] ELSE -1] :
        sched \in {"NULL", "eager"},
        f \in UNION { [S -> {0, 2}] : S \in kSubset(0, NumNames) \cup kSubset(1, NumNames)
                                            \cup kSubset(2, NumNames) } }

\* A conf the application filled with starpu_conf_init under env and then
\* gave ncpus c, and a conf it never initialised (magic 0).
UserConfs(env) ==
    {NoUserConf, [ConfInit(env) EXCEPT !.magic = 0]}
    \cup {[ConfInit(env) EXCEPT !.ncpus = c] : c \in {-1, 1}}

\* With no user conf, _starpu_conf_check_environment changes nothing in
\* what starpu_conf_init built from the same environment: the two read the
\* environment with the same precedences and defaults.
ConfPathsAgreeOnAll ==
    \A env \in Envs : EffectiveConf(NoUserConf, env) = ConfInit(env)

\* "check the value of STARPU_NCPUS if STARPU_NCPU is not set": StarPU runs
\* with STARPU_NCPU when it is set, else STARPU_NCPUS when it is set, else
\* the application's ncpus (-1, all CPUs, without a user conf), whichever
\* conf the application passes.
NcpuPrecedenceOnAll ==
    \A env \in Envs : \A u \in UserConfs(env) :
        LET e == EffectiveConf(u, env)
        IN e # EINVAL =>
             e.ncpus = IF env["STARPU_NCPU"] # -1 THEN env["STARPU_NCPU"]
                       ELSE IF env["STARPU_NCPUS"] # -1 THEN env["STARPU_NCPUS"]
                       ELSE IF u = NoUserConf THEN -1 ELSE u.ncpus

=============================================================================
