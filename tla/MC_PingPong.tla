------------------------------ MODULE MC_PingPong ------------------------------
(* Instantiation of PingPong for TLC.                                      *)
EXTENDS PingPong, TLC
=============================================================================
