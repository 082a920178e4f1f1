----------------------------- MODULE MC_MpiCache -----------------------------
(* Three ranks, each owning one data; the tasks read remote data, write   *)
(* their own, and one reads from two owners at once.                      *)
EXTENDS MpiCache

CONSTANTS n0, n1, n2, d0, d1, d2

MCNodes == {n0, n1, n2}
MCData == {d0, d1, d2}
MCOwner == (d0 :> n0) @@ (d1 :> n1) @@ (d2 :> n2)

\* n1 reads d0 and updates d1; n0 updates d0; n2 reads d0 and d1 and
\* writes d2; n0 reads d1 and updates d0.
MCTaskChoices ==
    { << [data |-> d0, mode |-> "R"], [data |-> d1, mode |-> "RW"] >>,
      << [data |-> d0, mode |-> "RW"] >>,
      << [data |-> d0, mode |-> "R"], [data |-> d1, mode |-> "R"], [data |-> d2, mode |-> "W"] >>,
      << [data |-> d1, mode |-> "R"], [data |-> d0, mode |-> "RW"] >> }
=============================================================================
