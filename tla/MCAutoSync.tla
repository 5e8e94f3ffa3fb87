---------------------------- MODULE MCAutoSync ----------------------------
(* Instances of AutoSyncTrigger for TLC. *)
EXTENDS AutoSyncTrigger
=============================================================================
