-------------------------- MODULE MC_InitShutdown --------------------------
(* Instantiation of InitShutdown for TLC: three application threads, each *)
(* calling starpu_init and starpu_shutdown up to twice.                    *)
EXTENDS InitShutdown, TLC

CONSTANTS p1, p2, p3

MCThreads == {p1, p2, p3}
=============================================================================
