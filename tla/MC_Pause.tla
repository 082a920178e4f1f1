------------------------------- MODULE MC_Pause -------------------------------
(* Instantiation of Pause for TLC: two or three driver threads and one or two       *)
(* application threads.                                                    *)
EXTENDS Pause, TLC

CONSTANTS w1, w2, w3, c1, c2
=============================================================================
