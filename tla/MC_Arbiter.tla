---------------------------- MODULE MC_Arbiter ----------------------------
(* Instantiation of Arbiter for TLC: three jobs, three handles under two    *)
(* arbiters (h1, h2 under A; h3 under B), and the buffer lists sorted as    *)
(* _starpu_sort_job_access_modes orders them: by arbiter, then by handle.   *)
EXTENDS Arbiter, TLC

CONSTANTS h1, h2, h3, A, B

MCArbiterOf == [h \in Handles |-> IF h = h3 THEN B ELSE A]

\* Every sorted list of distinct handles: one or two arbiter groups.
MCBufferChoices ==
    { <<>>, <<h1>>, <<h2>>, <<h3>>, <<h1, h2>>, <<h1, h3>>, <<h2, h3>>,
      <<h1, h2, h3>> }

\* The same, plus lists naming a handle twice (a write and a read of the
\* same data, adjacent after sorting).
MCBufferChoicesDup ==
    { <<h1>>, <<h1, h1>>, <<h1, h1, h3>> }

MCSymmetry == Permutations(Tasks)
=============================================================================
