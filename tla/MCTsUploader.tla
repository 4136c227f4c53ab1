----------------------------- MODULE MCTsUploader -----------------------------
(* Instances of TsUploader for TLC: every bound is in the cfg.             *)
EXTENDS TsUploader
=============================================================================
