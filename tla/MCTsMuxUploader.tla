---------------------------- MODULE MCTsMuxUploader ----------------------------
(* TsMuxUploader for TLC.                                                  *)
EXTENDS TsMuxUploader
=============================================================================
