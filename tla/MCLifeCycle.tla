------------------------------ MODULE MCLifeCycle ------------------------------
(* LifeCycle for TLC.                                                      *)
EXTENDS LifeCycle
=============================================================================
