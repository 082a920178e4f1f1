----------------------------- MODULE WorkerTable -----------------------------
(***************************************************************************)
(* The table of workers, _starpu_config.workers[0..nworkers-1], that the   *)
(* topology code (not in the sources) fills before _starpu_launch_drivers   *)
(* runs, and that the launch, termination and capability code of           *)
(* src/src/core/workers.c reads.  Worker ids are 1..N here.                 *)
(***************************************************************************)
EXTENDS Naturals

CONSTANTS
    N,        \* topology.nworkers
    Kind,     \* worker -> architecture (workers[].arch)
    Devid     \* worker -> device id (workers[].devid)

Workers == 1..N

\* The architectures of enum starpu_worker_archtype that the model keeps.
Archs == {"cpu", "cuda", "opencl"}

ASSUME /\ Kind \in [Workers -> Archs]
       /\ Devid \in [Workers -> Nat]
=============================================================================
