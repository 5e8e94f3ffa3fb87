-------------------------- MODULE MCRestoreJournal -------------------------
(* Instance of RestoreJournal for TLC. *)
EXTENDS RestoreJournal
=============================================================================
