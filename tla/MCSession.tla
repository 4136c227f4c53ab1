------------------------------ MODULE MCSession ------------------------------
(* Instances of Session for TLC: every bound is in the cfg.                *)
EXTENDS Session
=============================================================================
