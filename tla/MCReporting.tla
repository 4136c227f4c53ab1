----------------------------- MODULE MCReporting -----------------------------
(* Instances of Reporting for TLC: every bound is in the cfg.              *)
EXTENDS Reporting
=============================================================================
